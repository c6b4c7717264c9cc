------------------------------ MODULE Delivery -------------------------------
(***************************************************************************)
(* The way of one webhook delivery to its row, from the request to the     *)
(* unique constraint on (gateway, event_id): what views.webhook refuses,   *)
(* how the settings and the adapter are made for each request, how an      *)
(* event gets its id, what the log shows of it. What is done with a stored *)
(* event is the business of WebhookEndpoint and Sweeper; here it is closed *)
(* at some time or never.                                                  *)
(***************************************************************************)
EXTENDS Naturals, FiniteSets

CONSTANTS
  Handlers,      \* requests that may be served at the same time
  Happenings,    \* what bodies tell
  Invented,      \* those of them that strangers made up, some in the likeness of others
  Content,       \* Content[n]: the fields of a body that tells n, and whose adapter reads them
  Urls, Named,   \* Named[u]: the gateway in a URL, stripped and in upper case
  Environments,  \* values the environment variables may have
  Dashboards,    \* secrets the gateways may sign with
  WrongSecrets,  \* what anyone may put into the header of a signature
  MaxCrashes     \* bound: requests that end without an answer

GatewayNames == {"PAYSTACK", "FLUTTERWAVE"}

Blank == {"", " "}

(* A body without a key has "absent" for its value.                        *)
Missing == {"absent", ""}

Garbage == "garbage"

(* Nobody else can sign for Paystack, whose signature is an HMAC of the    *)
(* body. Nothing of the kind is asked of Flutterwave's.                    *)
ASSUME DeliveryAssumption ==
  /\ Invented \subseteq Happenings
  /\ \A n \in Happenings : n # Garbage /\ Content[n].gateway \in GatewayNames
  /\ \A e \in Environments : {e.PAYSTACK} \cap WrongSecrets \subseteq {""}
  /\ MaxCrashes \in Nat

-----------------------------------------------------------------------------
(* Log redaction, kielsync.core.logging. A node is one place in a JSON     *)
(* body: a mapping has Fields, a list has Items, anything else is a leaf.  *)
CONSTANTS
  Nodes, Fields, Items,
  Height,        \* Height[node]: how many levels there are below it
  Normalised,    \* Normalised[k]: the key in lower case, with underscores
  Within,        \* Within[k]: the patterns below that occur in the key
  Private        \* keys that gateways use for what nobody should read

Children(node) == {Fields[node][key] : key \in DOMAIN Fields[node]} \cup Items[node]

REDACTED == "[REDACTED]"

(* Decoded JSON is a finite tree: every place is in one mapping or list,   *)
(* and under one key of it. Equal values in two places are two nodes.      *)
ASSUME PayloadAssumption ==
  /\ REDACTED \notin Nodes
  /\ \A n \in Happenings : Content[n].root \in Nodes
  /\ Height \in [Nodes -> Nat]
  /\ \A node \in Nodes :
       /\ Children(node) \subseteq {child \in Nodes : Height[child] < Height[node]}
       /\ DOMAIN Fields[node] = {} \/ Items[node] = {}
       /\ \A k, l \in DOMAIN Fields[node] : Fields[node][k] = Fields[node][l] => k = l
       /\ \A other \in Nodes : Children(node) \cap Children(other) # {} => node = other

SENSITIVE_KEYS ==
  {"account_number", "authorization", "bank_account", "bin", "card", "card_number", "cvv",
   "exp_month", "exp_year", "last4", "number", "pin", "signature"}

SENSITIVE_KEY_SUBSTRINGS ==
  {"authorization", "key", "password", "secret", "signature", "token"}

(* Mutant: the key is compared as it is spelled.                           *)
Mutant_AsSpelled(key) == key \in SENSITIVE_KEYS

is_sensitive_key(key) ==
  \/ Normalised[key] \in SENSITIVE_KEYS
  \/ Within[Normalised[key]] \cap SENSITIVE_KEY_SUBSTRINGS # {}

(* The leaves that redact() leaves to be seen, through mappings and lists. *)
redact[node \in Nodes] ==
  LET fields == {IF is_sensitive_key(key) THEN {REDACTED} ELSE redact[Fields[node][key]] :
                   key \in DOMAIN Fields[node]}
      items  == {redact[item] : item \in Items[node]}
  IN  IF fields \cup items = {} THEN {node} ELSE UNION (fields \cup items)

(* What the line about a body shows, at level DEBUG; there is none above.  *)
LogLine == [n \in Happenings |-> redact[Content[n].root]]

-----------------------------------------------------------------------------
VARIABLES
  env,           \* the environment variables
  dashboard,     \* what each gateway signs with at present
  step,          \* where a request is: idle, parsed, creating or stored
  job,           \* what its body tells
  line,          \* the leaves its line in the log shows
  rows,          \* the WebhookEvent table
  acked,         \* what gateways have been answered 200 for
  crashes

deliveryVars == <<env, dashboard, step, job, line, rows, acked, crashes>>

NoJob == [gateway |-> "none", news |-> "none"]

(* Anyone who is not one of the gateways.                                  *)
Stranger == "stranger"

Init ==
  /\ env \in Environments /\ dashboard \in Dashboards
  /\ step = [h \in Handlers |-> "idle"]
  /\ job = [h \in Handlers |-> NoJob]
  /\ line = [h \in Handlers |-> {}]
  /\ rows = {} /\ acked = {} /\ crashes = 0

(* get_gateway() reads the environment for each request: no adapter for an *)
(* unknown name or a blank secret key. The hash may be missing.            *)
get_gateway(url) ==
  IF Named[url] \in GatewayNames /\ env[Named[url]] \notin Blank THEN Named[url] ELSE "none"

(* Mutant: one Flutterwave variable for both of its secrets.               *)
Mutant_OneSecret(name) == IF name = "PAYSTACK" THEN env.PAYSTACK ELSE env.FLUTTERWAVE

(* The secret in the adapter that a signature is compared with.            *)
AdapterSecret(name) == IF name = "PAYSTACK" THEN env.PAYSTACK ELSE env.FLUTTERWAVE_HASH

(* Mutant: a signature is only wrong if there is one.                      *)
Mutant_MissingPasses(name, signed) == signed[name] \in {"", AdapterSecret(name)}

(* No header or no secret is no match. Paystack's signature covers the     *)
(* body; Flutterwave's is the secret itself, whatever the body says.       *)
signature_valid(name, signed) ==
  /\ signed[name] # "" /\ AdapterSecret(name) # ""
  /\ signed[name] = AdapterSecret(name)

NoId == <<>>

_webhook_event_id(c) ==
  LET identifier == IF c.subject \in Missing \cup {"zero"} THEN c.reference ELSE c.subject
  IN  IF c.event \in Missing \/ identifier = "absent" THEN NoId ELSE <<c.event, identifier>>

OrEmpty(field) == IF field = "absent" THEN "" ELSE field

(* Mutant: the status is no part of the id.                                *)
Mutant_NoStatus(event_type, subject_id, status) ==
  IF subject_id \in Missing THEN NoId ELSE <<"d", event_type, subject_id>>

derive_event_id(event_type, subject_id, status) ==
  IF subject_id \in Missing THEN NoId
  ELSE <<"d", OrEmpty(event_type), subject_id, OrEmpty(status)>>

(* What each adapter makes the id from: Flutterwave's bodies have the name *)
(* of the event in one of two places.                                      *)
EventId(n) ==
  LET c == Content[n]
  IN  IF c.gateway = "PAYSTACK" THEN _webhook_event_id(c)
      ELSE derive_event_id(IF c.event \in Missing THEN c.event_type ELSE c.event, c.subject, c.status)

(* Mutant: the row has the gateway as the URL spells it.                   *)
Mutant_AsInUrl(url) == url

(* The name of the adapter.                                                *)
gateway_name(url) == get_gateway(url)

(* The request is parsed: it is a POST to a usable gateway, its signature  *)
(* is valid and its body is a JSON object. Any other is answered 405, 404, *)
(* 401 or 400, in this order, which changes nothing and is no step here.   *)
parse_webhook(h, r) ==
  /\ step[h] = "idle"
  /\ r.method = "POST"
  /\ get_gateway(r.url) # "none"
  /\ signature_valid(get_gateway(r.url), r.signed)
  /\ r.body # Garbage
  /\ step' = [step EXCEPT ![h] = "parsed"]
  /\ job' = [job EXCEPT ![h] = [gateway |-> gateway_name(r.url), news |-> r.body]]
  /\ line' = [line EXCEPT ![h] = LogLine[r.body]]
  /\ UNCHANGED <<env, dashboard, rows, acked, crashes>>

Signed(g, secret) == [x \in GatewayNames |-> IF x = g THEN secret ELSE ""]

(* Who sends what. A gateway signs with its secret, of now or of the time  *)
(* it first sent the delivery, and tells its own news. A stranger sends    *)
(* anything that the adapter at the URL may read, or nothing it can, and   *)
(* with it what was once seen in a header of Flutterwave's                 *)
(* (README.md:267-271, flutterwave.parse_webhook).                         *)
Headers(who) ==
  IF who = Stranger
  THEN {Signed(g, secret) : g \in GatewayNames, secret \in WrongSecrets}
         \cup {Signed("FLUTTERWAVE", d.FLUTTERWAVE) : d \in Dashboards}
  ELSE {Signed(who, d[who]) : d \in Dashboards}

ItsNews(g) == {n \in Happenings \ Invented : Content[n].gateway = g}

News(who, url) ==
  IF who = Stranger THEN {Garbage} \cup {n \in Happenings : Content[n].gateway = Named[url]}
  ELSE ItsNews(who)

(* Whatever arrives, in any number and order.                              *)
Deliver(h) ==
  /\ step[h] = "idle"
  /\ \E who \in GatewayNames \cup {Stranger}, url \in Urls, method \in {"GET", "POST"} :
     \E signed \in Headers(who), body \in News(who, url) :
       parse_webhook(h, [method |-> method, url |-> url, signed |-> signed, body |-> body])

(* A gateway sends what it has to tell until it is answered 200.           *)
SendAgain(n) ==
  /\ n \notin acked
  /\ LET g == Content[n].gateway
     IN  \E h \in {h \in Handlers : step[h] = "idle"}, url \in {u \in Urls : Named[u] = g} :
           parse_webhook(h, [method |-> "POST", url |-> url,
                             signed |-> Signed(g, dashboard[g]), body |-> n])

RequestDone(h) ==
  /\ step' = [step EXCEPT ![h] = "idle"]
  /\ job' = [job EXCEPT ![h] = NoJob]
  /\ line' = [line EXCEPT ![h] = {}]

(* No usable event id: 400, nothing stored.                                *)
RefuseUnidentified(h) ==
  /\ step[h] = "parsed" /\ EventId(job[h].news) = NoId
  /\ RequestDone(h)
  /\ UNCHANGED <<env, dashboard, rows, acked, crashes>>

Key(row) == <<row.gateway, row.event_id>>

JobKey(h) == <<job[h].gateway, EventId(job[h].news)>>

(* The answer is 200. What no gateway has told, none is answered for.      *)
Ok(h) == acked' = acked \cup ({job[h].news} \ Invented)

(* The row is there: what is processed is acknowledged as a duplicate.     *)
Found(h, row) ==
  IF row.processed
  THEN Ok(h) /\ RequestDone(h)
  ELSE step' = [step EXCEPT ![h] = "stored"] /\ line' = [line EXCEPT ![h] = {}]
         /\ UNCHANGED <<job, acked>>

(* get_or_create(): the first SELECT.                                      *)
Lookup(h) ==
  /\ step[h] = "parsed" /\ EventId(job[h].news) # NoId
  /\ \/ \E row \in rows : Key(row) = JobKey(h) /\ Found(h, row)
     \/ /\ \A row \in rows : Key(row) # JobKey(h)
        /\ step' = [step EXCEPT ![h] = "creating"] /\ line' = [line EXCEPT ![h] = {}]
        /\ UNCHANGED <<job, acked>>
  /\ UNCHANGED <<env, dashboard, rows, crashes>>

(* Mutant: update_or_create, with processed=False among the defaults.      *)
Mutant_UpdateOrCreate(h) ==
  /\ step[h] = "creating"
  /\ rows' = {row \in rows : Key(row) # JobKey(h)} \cup
       {[gateway |-> job[h].gateway, event_id |-> EventId(job[h].news), payload |-> job[h].news,
         processed |-> FALSE]}
  /\ step' = [step EXCEPT ![h] = "stored"]
  /\ UNCHANGED <<job, line, acked, env, dashboard, crashes>>

(* The INSERT, which the unique constraint lets only one of them do; the   *)
(* other takes the row that is there by now.                               *)
Create(h) ==
  /\ step[h] = "creating"
  /\ \/ \E row \in rows : Key(row) = JobKey(h) /\ Found(h, row) /\ UNCHANGED rows
     \/ /\ \A row \in rows : Key(row) # JobKey(h)
        /\ rows' = rows \cup
             {[gateway   |-> job[h].gateway,
               event_id  |-> EventId(job[h].news),
               payload   |-> job[h].news,
               processed |-> FALSE]}
        /\ step' = [step EXCEPT ![h] = "stored"]
        /\ UNCHANGED <<job, line, acked>>
  /\ UNCHANGED <<env, dashboard, crashes>>

(* Its row is closed, by this request or another or by the sweeper.        *)
Process(row) ==
  /\ row \in rows /\ ~row.processed
  /\ rows' = (rows \ {row}) \cup {[row EXCEPT !.processed = TRUE]}
  /\ UNCHANGED <<env, dashboard, step, job, line, acked, crashes>>

(* 200, whatever became of it.                                             *)
Acknowledge(h) ==
  /\ step[h] = "stored"
  /\ Ok(h)
  /\ RequestDone(h)
  /\ UNCHANGED <<env, dashboard, rows, crashes>>

(* The worker dies or the database raises: no answer, no insert.           *)
Crash(h) ==
  /\ step[h] # "idle" /\ crashes < MaxCrashes
  /\ crashes' = crashes + 1
  /\ RequestDone(h)
  /\ UNCHANGED <<env, dashboard, rows, acked>>

(* A secret is replaced in two places, in either order.                    *)
Reconfigure ==
  /\ \/ env' \in Environments \ {env} /\ UNCHANGED dashboard
     \/ dashboard' \in Dashboards \ {dashboard} /\ UNCHANGED env
  /\ UNCHANGED <<step, job, line, rows, acked, crashes>>

RequestStep(h) == RefuseUnidentified(h) \/ Lookup(h) \/ Create(h) \/ Acknowledge(h)

Next ==
  \/ \E h \in Handlers : Deliver(h) \/ RequestStep(h) \/ Crash(h)
  \/ \E row \in rows : Process(row)
  \/ Reconfigure

Spec == Init /\ [][Next]_deliveryVars

(* A request that is served goes on; a gateway does not stop sending again *)
(* (README, "Gateways retry, sometimes for days").                         *)
FairSpec ==
  /\ Spec
  /\ \A h \in Handlers : WF_deliveryVars(RequestStep(h))
  /\ \A n \in {n \in Happenings \ Invented : EventId(n) # NoId} : SF_deliveryVars(SendAgain(n))

-----------------------------------------------------------------------------
(* What an event is about: its name, its subject (the transaction's id, or *)
(* for want of one Paystack's reference) and, for Flutterwave, its status. *)
About(n) ==
  LET c == Content[n]
  IN  IF c.gateway = "PAYSTACK"
      THEN [gateway |-> c.gateway, name |-> c.event, status |-> "any",
            subject |-> IF c.subject \in Missing \cup {"zero"} THEN c.reference ELSE c.subject]
      ELSE [gateway |-> c.gateway, status |-> OrEmpty(c.status), subject |-> c.subject,
            name    |-> OrEmpty(IF c.event \in Missing THEN c.event_type ELSE c.event)]

(* What a request knows once its signature is verified, and the row that   *)
(* is there when it has been stored. A request at Paystack's endpoint      *)
(* tells what Paystack has to tell; at Flutterwave's it may tell anything. *)
RequestOK(h) ==
  /\ step[h] \in {"idle", "parsed", "creating", "stored"}
  /\ step[h] # "idle" =>
       /\ job[h].news \in Happenings /\ job[h].gateway \in GatewayNames
       /\ job[h].gateway = Content[job[h].news].gateway
       /\ job[h].gateway = "PAYSTACK" => job[h].news \notin Invented
  /\ step[h] \in {"creating", "stored"} => EventId(job[h].news) # NoId
  /\ step[h] = "stored" => \E row \in rows : Key(row) = JobKey(h)

Rows ==
  [gateway : GatewayNames, event_id : {EventId(n) : n \in Happenings} \ {NoId},
   payload : Happenings, processed : BOOLEAN]

RowOK(row) ==
  /\ row \in Rows
  /\ row.gateway = Content[row.payload].gateway
  /\ row.gateway = "PAYSTACK" => row.payload \notin Invented
  /\ row.event_id = EventId(row.payload)

(* The inductive invariant of the table: rows and requests are of the      *)
(* gateway at whose endpoint they came, filed under the id of what they    *)
(* tell, Paystack's tell nothing that Paystack has not said, and no two    *)
(* rows have one key (views.webhook up to get_or_create).                  *)
FilingIsSound ==
  /\ env \in Environments
  /\ DOMAIN step = Handlers /\ DOMAIN job = Handlers
  /\ \A h \in Handlers : RequestOK(h)
  /\ \A row \in rows : RowOK(row)
  /\ \A a, b \in rows : Key(a) = Key(b) => a = b
  /\ \A n \in acked : n \in Happenings \ Invented /\ \E row \in rows : Key(row) = <<Content[n].gateway, EventId(n)>>

(* However often, by however many requests at once and under whatever URL  *)
(* a gateway delivers an event, the table has one row for it               *)
(* (get_or_create under the unique constraint).                            *)
OneRowPerEvent == \A a, b \in rows : a.payload = b.payload => a = b

(* What a gateway has been answered 200 for, and so will not send again,   *)
(* is on disk: no other news of the same payment took its row. (Two        *)
(* refunds alike in all of About share one: webhooks.py's limitation. So   *)
(* do Flutterwave's event and what a stranger has sent in its likeness.)   *)
AcknowledgedIsOnDisk ==
  \A n \in acked : \E row \in rows : About(row.payload) = About(n)

KeyOf(n) == <<Content[n].gateway, EventId(n)>>

Table == INSTANCE EventTable WITH
  Keys   <- {KeyOf(n) : n \in Happenings},
  stored <- {Key(row) : row \in rows},
  closed <- {Key(row) : row \in {r \in rows : r.processed}},
  acked  <- {KeyOf(n) : n \in acked}

(* The endpoint implements EventTable: whatever arrives, twice, at once,   *)
(* from a stranger or between two secrets, no row is lost, renamed or      *)
(* opened again, and a gateway's 200 is for a row that is there            *)
(* (views.webhook, get_or_create).                                         *)
FilesEvents == Table!Spec

Below[node \in Nodes] == {node} \cup UNION {Below[child] : child \in Children(node)}

(* What a body holds below a key that is private, however deep.            *)
PrivateIn ==
  [n \in Happenings |->
     UNION {UNION {Below[Fields[node][key]] : key \in DOMAIN Fields[node] \cap Private} :
              node \in Below[Content[n].root]}]

(* A line in the log shows nothing of what is below a key that gateways    *)
(* use for cards, accounts and credentials, through mappings and lists and *)
(* however the key is spelled (logging.redact).                            *)
LogWithholds == \A h \in Handlers : job[h] # NoJob => line[h] \cap PrivateIn[job[h].news] = {}

(* The host is able to hear the gateway g: it has an adapter for it, with  *)
(* the secret that the gateway signs with.                                 *)
Agreed(g) ==
  env[g] \notin Blank
    /\ dashboard[g] = (IF g = "PAYSTACK" THEN env.PAYSTACK ELSE env.FLUTTERWAVE_HASH)

(* Once the replaced secrets are the same in both places, every event of a *)
(* gateway that can be identified gets its row, also those refused in      *)
(* between: no adapter remembers an old secret, none compares with the     *)
(* wrong one, and no event is taken for another (get_gateway,              *)
(* derive_event_id).                                                       *)
EveryEventIsFiled ==
  <>[](\A g \in GatewayNames : Agreed(g))
    => <>(\A n \in Happenings \ Invented :
            EventId(n) # NoId => \E row \in rows : About(row.payload) = About(n))
=============================================================================
