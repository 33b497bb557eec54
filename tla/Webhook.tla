------------------------------ MODULE Webhook ------------------------------
(* The webhook (ha_webhooks_config.c, ha_webhooks_http.c, and its task in  *)
(* autopid.c): the HTTP server changes its configuration, in a file and in *)
(* a cache; the task copies the cache, posts the device's values to the    *)
(* receiver, and writes the copy back with how it went.  In "changed" mode *)
(* a post holds what differs from the one before.                          *)
(*                                                                         *)
(* Of the statistics only the status is kept.  An object of values is a    *)
(* function; a value that is not known is Absent, as it is in the JSON.    *)
EXTENDS Integers

CONSTANTS
  Urls,     (* addresses a user may set                                    *)
  PlainUrls,(* those that begin with http://                               *)
  Keys,     (* names of the values posted                                  *)
  Values,   (* values one of them may have                                 *)
  MaxEdits  (* bound: edits of the configuration                           *)

Absent == "absent"
Object == [Keys -> Values \cup {Absent}]
Empty  == [k \in Keys |-> Absent]
NoPost == "no post"
Mixed  == "mixed"

ASSUME WebhookAssumption ==
  /\ PlainUrls \subseteq Urls /\ {"", NoPost, Mixed} \cap Urls = {} /\ MaxEdits \in Nat

Defaults == [url |-> "", enabled |-> FALSE, status |-> ""]
(* What set_config writes to the file, and load_config reads from it.      *)
Missing  == [url |-> "missing", enabled |-> FALSE, status |-> ""]
Stored(c) == [c EXCEPT !.status = IF c.status = "" THEN "unknown" ELSE @]
Loaded(f) == IF f = Missing THEN Defaults ELSE f

VARIABLES
  file,       (* ha_webhook.json                                           *)
  cache,      (* s_cfg_psram                                               *)
  hook,       (* where autopid_webhook_task is                             *)
  copy,       (* webhook_cfg, its copy of the cache                        *)
  wifi,       (* the station is connected                                  *)
  full,       (* webhook_data_mode is "full"                               *)
  current,    (* the values as they are                                    *)
  body,       (* what is about to be posted                                *)
  previous,   (* prev_*_snapshot                                           *)
  receiver,   (* external: what the receiver at an address knows           *)
  owed,       (* history: the values the latest post was made from         *)
  only,       (* history: the address all posts since the start went to    *)
              (* and were accepted at, if they were                        *)
  handler,    (* where the HTTP handler is                                 *)
  new,        (* the configuration it is about to set                      *)
  edits       (* bound: edits left                                         *)

configVars  == <<file, cache, handler, new, edits>>
postVars    == <<current, body, previous, receiver, owed, only>>
webhookVars == <<configVars, hook, copy, wifi, full, postVars>>

WebhookInit ==
  /\ file = Missing /\ cache = Defaults
  /\ hook = "idle" /\ copy = Defaults /\ wifi = TRUE
  /\ full \in BOOLEAN
  /\ current = Empty /\ body = Empty /\ previous = Empty
  /\ receiver = [u \in PlainUrls |-> Empty] /\ owed = Empty /\ only = NoPost
  /\ handler = "idle" /\ new = Defaults /\ edits = MaxEdits

---------------------------------------------------------------------------
(* The task.                                                               *)

GetConfig(next) == hook = "idle" /\ copy' = cache /\ hook' = next

(* Without Wi-Fi it notes that it waits, every ten seconds.                *)
NoteWifi ==
  /\ ~wifi /\ cache.enabled /\ cache.url # "" /\ GetConfig("waiting_wifi")
  /\ UNCHANGED <<configVars, wifi, full, postVars>>

(* The interval has passed: it begins to post, unless it would have to     *)
(* speak TLS.                                                              *)
BeginPost ==
  /\ wifi /\ cache.enabled /\ cache.url # ""
  /\ GetConfig(IF cache.url \in PlainUrls THEN "read" ELSE "failed")
  /\ UNCHANGED <<configVars, wifi, full, postVars>>

(* Mutant: a value that was not known before is no change.                 *)
Diff_KnownOnly(now, before) ==
  [k \in Keys |-> IF now[k] # before[k] /\ before[k] # Absent THEN now[k] ELSE Absent]

(* json_object_diff_simple                                                 *)
Diff(now, before) == [k \in Keys |-> IF now[k] # before[k] THEN now[k] ELSE Absent]

(* The values are read and put together, and remembered, before they are   *)
(* sent.                                                                   *)
Compose ==
  /\ hook = "read" /\ hook' = "post"
  /\ IF full THEN body' = current /\ UNCHANGED previous
             ELSE body' = Diff(current, previous) /\ previous' = current
  /\ UNCHANGED <<configVars, copy, wifi, full, current, receiver, owed, only>>

Merged(known, news) == [k \in Keys |-> IF news[k] = Absent THEN known[k] ELSE news[k]]

(* The receiver may have taken a post whose answer does not come.          *)
Post ==
  /\ hook = "post" /\ body' = Empty
  /\ LET taken == [receiver EXCEPT ![copy.url] = Merged(@, body)]
     IN  \/ /\ receiver' = taken /\ hook' = "ok"
            /\ owed' = IF full THEN body ELSE previous
            /\ only' = IF only \in {NoPost, copy.url} THEN copy.url ELSE Mixed
         \/ /\ receiver' \in {receiver, taken} /\ hook' = "failed"
            /\ owed' = Empty /\ only' = Mixed
  /\ UNCHANGED <<configVars, copy, wifi, full, current, previous>>

(* update_cache writes the whole configuration back, as it was copied.     *)
WriteBack ==
  /\ hook \in {"ok", "failed", "waiting_wifi"} /\ hook' = "idle"
  /\ cache' = [copy EXCEPT !.status = hook]
  /\ copy' = Defaults
  /\ UNCHANGED <<file, handler, new, edits, wifi, full, postVars>>

---------------------------------------------------------------------------
(* The HTTP server: a configuration is set, or deleted.  Nothing is        *)
(* written if the cache already says so.                                   *)

Submit(c, changed) ==
  /\ handler = "idle" /\ edits > 0 /\ edits' = edits - 1
  /\ new' = c /\ handler' = IF changed THEN "save" ELSE "idle"
  /\ UNCHANGED <<file, cache, hook, copy, wifi, full, postVars>>

SetWebhook ==
  \E url \in Urls, enabled \in BOOLEAN :
    Submit([cache EXCEPT !.url = url, !.enabled = enabled],
           cache.url # url \/ cache.enabled # enabled \/ cache.url = "")

DeleteWebhook ==
  LET c == [cache EXCEPT !.url = "", !.enabled = FALSE, !.status = "disabled"]
  IN  Submit(c, c # cache)

(* ha_webhooks_set_config: the file, then the cache; a file that cannot be *)
(* written leaves the cache alone.                                         *)
SaveFile ==
  /\ handler = "save"
  /\ \/ file' = Stored(new) /\ handler' = "refresh"
     \/ UNCHANGED file /\ handler' = "idle"
  /\ UNCHANGED <<cache, new, edits, hook, copy, wifi, full, postVars>>

RefreshCache ==
  /\ handler = "refresh" /\ handler' = "idle" /\ cache' = new
  /\ UNCHANGED <<file, new, edits, hook, copy, wifi, full, postVars>>

---------------------------------------------------------------------------
(* Around them: values change, Wi-Fi comes and goes, the device restarts.  *)

ValueChanges ==
  /\ \E k \in Keys, v \in Values : current' = [current EXCEPT ![k] = v]
  /\ UNCHANGED <<configVars, hook, copy, wifi, full, body, previous, receiver, owed, only>>

WifiChanges ==
  /\ wifi' = ~wifi
  /\ UNCHANGED <<configVars, hook, copy, full, postVars>>

Restart ==
  /\ cache' = Loaded(file) /\ hook' = "idle" /\ copy' = Defaults
  /\ handler' = "idle" /\ new' = Defaults
  /\ current' = Empty /\ body' = Empty /\ previous' = Empty /\ owed' = Empty
  /\ only' = NoPost
  /\ UNCHANGED <<file, edits, wifi, full, receiver>>

WebhookNext ==
  \/ NoteWifi \/ BeginPost \/ Compose \/ Post \/ WriteBack
  \/ SetWebhook \/ DeleteWebhook \/ SaveFile \/ RefreshCache
  \/ ValueChanges \/ WifiChanges \/ Restart

WebhookSpec == WebhookInit /\ [][WebhookNext]_webhookVars

-----------------------------------------------------------------------------
(* Once a post was accepted the receiver has every value that post was     *)
(* made from, although a post holds the changes only, of values that come  *)
(* one by one, and the device restarts in between (autopid.c:2405, 2447) - *)
(* as long as no post failed, whose changes are not sent again, and the    *)
(* address stays the same: a new one is sent the changes only, too.        *)
ReceiverInStep ==
  \A k \in Keys : only \in PlainUrls /\ owed[k] # Absent => receiver[only][k] = owed[k]

(* "updates the PSRAM-backed cache so all tasks can safely read the latest *)
(* config" (ha_webhooks.h:123): when no edit is under way the cache holds  *)
(* the configuration that was last set.                                    *)
LatestConfig ==
  handler = "idle" =>
    LET f == Loaded(file) IN cache.url = f.url /\ cache.enabled = f.enabled
=============================================================================
