--------------------------- MODULE DeliveryProofs ----------------------------
(***************************************************************************)
(* The table of webhook events, for any number of requests at once, any    *)
(* events and any secrets: the invariant FilingIsSound and what follows.   *)
(***************************************************************************)
EXTENDS Delivery, TLAPS

LEMMA PairsAreEqual ==
  ASSUME NEW a, NEW b, NEW c, NEW d, <<a, b>> = <<c, d>>
  PROVE  a = c /\ b = d
<1>1. <<a, b>>[1] = <<c, d>>[1] /\ <<a, b>>[2] = <<c, d>>[2]
  OBVIOUS
<1>2. QED
  BY <1>1

(* An id tells what the event is about: nothing that is told apart by name *)
(* subject and status (About) is given the same id.                        *)
LEMMA IdTells ==
  ASSUME NEW m \in Happenings, NEW n \in Happenings,
         Content[m].gateway = Content[n].gateway,
         EventId(m) = EventId(n), EventId(n) # NoId
  PROVE  About(m) = About(n)
<1>1. CASE Content[n].gateway = "PAYSTACK"
  <2>1. EventId(m) = _webhook_event_id(Content[m]) /\ EventId(n) = _webhook_event_id(Content[n])
    BY <1>1 DEF EventId
  <2> DEFINE identifier(c) == IF c.subject \in Missing \cup {"zero"} THEN c.reference ELSE c.subject
  <2>2. \A c : _webhook_event_id(c) =
               IF c.event \in Missing \/ identifier(c) = "absent" THEN NoId ELSE <<c.event, identifier(c)>>
    BY DEF _webhook_event_id
  <2>3. /\ About(m) = [gateway |-> Content[m].gateway, name |-> Content[m].event, status |-> "any",
                       subject |-> identifier(Content[m])]
        /\ About(n) = [gateway |-> Content[n].gateway, name |-> Content[n].event, status |-> "any",
                       subject |-> identifier(Content[n])]
    BY <1>1 DEF About
  <2> HIDE DEF identifier
  <2>4. /\ EventId(m) = <<Content[m].event, identifier(Content[m])>>
        /\ EventId(n) = <<Content[n].event, identifier(Content[n])>>
    BY <2>1, <2>2
  <2>5. Content[m].event = Content[n].event /\ identifier(Content[m]) = identifier(Content[n])
    <3>1. <<Content[m].event, identifier(Content[m])>> = <<Content[n].event, identifier(Content[n])>>
      BY <2>4
    <3>2. QED
      BY <3>1, PairsAreEqual
  <2>6. QED
    BY <2>3, <2>5
<1>2. CASE Content[n].gateway # "PAYSTACK"
  BY <1>2 DEF EventId, derive_event_id, About, NoId
<1>3. QED
  BY <1>1, <1>2

(* A signature that is valid for an adapter is made by its own gateway,    *)
(* or copied from a header of Flutterwave's. There is none for a missing   *)
(* secret.                                                                 *)
LEMMA ValidIsOwnOrSeen ==
  ASSUME env \in Environments,
         NEW name \in GatewayNames, NEW who \in GatewayNames \cup {Stranger},
         NEW signed \in Headers(who), signature_valid(name, signed)
  PROVE  who = name \/ (who = Stranger /\ name = "FLUTTERWAVE")
<1>1. signed[name] # "" /\ signed[name] = AdapterSecret(name)
  BY DEF signature_valid
<1>2. CASE who = Stranger
  <2>1. SUFFICES ASSUME name = "PAYSTACK" PROVE FALSE
    BY <1>2 DEF GatewayNames
  <2>2. CASE \E g \in GatewayNames, secret \in WrongSecrets : signed = Signed(g, secret)
    <3>1. PICK g \in GatewayNames, secret \in WrongSecrets : signed = Signed(g, secret)
      BY <2>2
    <3>2. signed[name] \in WrongSecrets
      BY <1>1, <3>1 DEF Signed
    <3>3. AdapterSecret(name) = env.PAYSTACK
      BY <2>1 DEF AdapterSecret
    <3>4. QED
      BY <1>1, <3>2, <3>3, DeliveryAssumption
  <2>3. CASE \E d \in Dashboards : signed = Signed("FLUTTERWAVE", d.FLUTTERWAVE)
    BY <1>1, <2>1, <2>3 DEF Signed
  <2>4. QED
    BY <1>2, <2>2, <2>3 DEF Headers
<1>3. CASE who # Stranger
  <2>1. PICK d \in Dashboards : signed = Signed(who, d[who])
    BY <1>3 DEF Headers
  <2>2. QED
    BY <1>1, <2>1 DEF Signed
<1>4. QED
  BY <1>2, <1>3

(* The requests other than h keep what they know while rows stay.          *)
RowsStay == \A row \in rows : \E r \in rows' : Key(r) = Key(row)

LEMMA OthersKept ==
  ASSUME FilingIsSound, RowsStay, NEW h \in Handlers,
         step'[h] = step[h] \/ step'[h] = "idle", job'[h] = job[h] \/ step'[h] = "idle"
  PROVE  RequestOK(h)'
<1>1. RequestOK(h)
  BY DEF FilingIsSound
<1>2. CASE step'[h] = "idle"
  BY <1>2 DEF RequestOK
<1>3. CASE step'[h] # "idle"
  <2>1. step'[h] = step[h] /\ job'[h] = job[h]
    BY <1>3
  <2>2. ASSUME step[h] = "stored" PROVE \E r \in rows' : Key(r) = JobKey(h)
    BY <1>1, <2>2 DEF RequestOK, RowsStay
  <2>3. JobKey(h)' = JobKey(h)
    BY <2>1 DEF JobKey
  <2>4. QED
    BY <1>1, <2>1, <2>2, <2>3 DEF RequestOK, Key
<1>4. QED
  BY <1>2, <1>3

LEMMA DeliverFiles ==
  ASSUME FilingIsSound, NEW h \in Handlers, Deliver(h)
  PROVE  FilingIsSound'
<1>0. PICK who \in GatewayNames \cup {Stranger}, url \in Urls, method \in {"GET", "POST"} :
        \E signed \in Headers(who), body \in News(who, url) :
          parse_webhook(h, [method |-> method, url |-> url, signed |-> signed, body |-> body])
  BY DEF Deliver
<1>1. PICK signed \in Headers(who), body \in News(who, url) :
        parse_webhook(h, [method |-> method, url |-> url, signed |-> signed, body |-> body])
  BY <1>0
<1>2. /\ get_gateway(url) # "none" /\ signature_valid(get_gateway(url), signed) /\ body # Garbage
      /\ step' = [step EXCEPT ![h] = "parsed"]
      /\ job' = [job EXCEPT ![h] = [gateway |-> gateway_name(url), news |-> body]]
      /\ UNCHANGED <<env, rows, acked>>
  BY <1>1 DEF parse_webhook
<1>3. get_gateway(url) \in GatewayNames /\ get_gateway(url) = Named[url]
  BY <1>2 DEF get_gateway
<1>4. who = get_gateway(url) \/ (who = Stranger /\ get_gateway(url) = "FLUTTERWAVE")
  BY <1>2, <1>3, ValidIsOwnOrSeen DEF FilingIsSound
<1>5. /\ body \in Happenings /\ Content[body].gateway = get_gateway(url)
      /\ get_gateway(url) = "PAYSTACK" => body \notin Invented
  <2>1. CASE who = Stranger
    BY <1>2, <1>3, <1>4, <2>1 DEF News, Stranger, GatewayNames
  <2>2. CASE who # Stranger
    BY <1>3, <1>4, <2>2 DEF News, ItsNews
  <2>3. QED
    BY <2>1, <2>2
<1>6. RequestOK(h)'
  BY <1>2, <1>3, <1>5 DEF FilingIsSound, RequestOK, gateway_name
<1>7. ASSUME NEW k \in Handlers, k # h PROVE RequestOK(k)'
  <2>1. RowsStay
    BY <1>2 DEF RowsStay
  <2>2. step'[k] = step[k] /\ job'[k] = job[k]
    BY <1>2, <1>7 DEF FilingIsSound
  <2>3. QED
    BY <2>1, <2>2, OthersKept
<1>8. QED
  BY <1>2, <1>6, <1>7 DEF FilingIsSound, RowOK, Key

(* The end of a request, which leaves the rows as they are and may have    *)
(* acknowledged one that is there.                                         *)
LEMMA DoneFiles ==
  ASSUME FilingIsSound, NEW h \in Handlers, RequestDone(h), env' \in Environments, rows' = rows,
         \/ acked' = acked
         \/ /\ Ok(h) /\ step[h] # "idle"
            /\ \E row \in rows : Key(row) = JobKey(h)
  PROVE  FilingIsSound'
<1>1. /\ step' = [step EXCEPT ![h] = "idle"]
      /\ job' = [job EXCEPT ![h] = NoJob]
  BY DEF RequestDone
<1>2. ASSUME NEW k \in Handlers PROVE RequestOK(k)'
  <2>1. RowsStay
    BY DEF RowsStay
  <2>2. k # h => step'[k] = step[k] /\ job'[k] = job[k]
    BY <1>1 DEF FilingIsSound
  <2>3. k = h => step'[k] = "idle"
    BY <1>1 DEF FilingIsSound
  <2>4. QED
    BY <2>1, <2>2, <2>3, OthersKept
<1>3. ASSUME NEW n \in acked'
      PROVE  n \in Happenings \ Invented /\ \E row \in rows : Key(row) = <<Content[n].gateway, EventId(n)>>
  <2>1. CASE n \in acked
    BY <2>1 DEF FilingIsSound
  <2>2. CASE n \notin acked
    <3>1. /\ n = job[h].news /\ n \notin Invented /\ step[h] # "idle"
          /\ \E row \in rows : Key(row) = JobKey(h)
      BY <1>3, <2>2 DEF Ok
    <3>2. RequestOK(h)
      BY DEF FilingIsSound
    <3>3. QED
      BY <3>1, <3>2 DEF RequestOK, JobKey
  <2>3. QED
    BY <2>1, <2>2
<1>4. QED
  BY <1>1, <1>2, <1>3 DEF FilingIsSound, RowOK, Key

(* A request goes on, with the same job.                                   *)
LEMMA ForwardFiles ==
  ASSUME FilingIsSound, NEW h \in Handlers, NEW next \in {"creating", "stored"},
         step[h] # "idle", EventId(job[h].news) # NoId,
         step' = [step EXCEPT ![h] = next],
         next = "stored" => \E row \in rows : Key(row) = JobKey(h),
         UNCHANGED <<env, job, rows, acked>>
  PROVE  FilingIsSound'
<1>1. RowsStay
  BY DEF RowsStay
<1>2. ASSUME NEW k \in Handlers, k # h PROVE RequestOK(k)'
  <2>1. step'[k] = step[k] /\ job'[k] = job[k]
    BY <1>2 DEF FilingIsSound
  <2>2. QED
    BY <1>1, <2>1, OthersKept
<1>3. RequestOK(h)'
  <2>1. step'[h] = next /\ RequestOK(h)
    BY DEF FilingIsSound
  <2>2. JobKey(h)' = JobKey(h)
    BY DEF JobKey
  <2>3. QED
    BY <2>1, <2>2 DEF RequestOK, Key
<1>4. QED
  BY <1>2, <1>3 DEF FilingIsSound, RowOK, Key

LEMMA FoundFiles ==
  ASSUME FilingIsSound, NEW h \in Handlers, step[h] # "idle", EventId(job[h].news) # NoId,
         NEW row \in rows, Key(row) = JobKey(h), Found(h, row), UNCHANGED <<env, rows>>
  PROVE  FilingIsSound'
<1>0. env' \in Environments
  BY DEF FilingIsSound
<1>1. CASE row.processed
  <2>1. Ok(h) /\ RequestDone(h)
    BY <1>1 DEF Found
  <2>2. QED
    BY <1>0, <2>1, DoneFiles
<1>2. CASE ~row.processed
  <2>1. step' = [step EXCEPT ![h] = "stored"] /\ UNCHANGED <<job, acked>>
    BY <1>2 DEF Found
  <2>2. QED
    BY <2>1, ForwardFiles
<1>3. QED
  BY <1>1, <1>2

LEMMA LookupFiles ==
  ASSUME FilingIsSound, NEW h \in Handlers, Lookup(h)
  PROVE  FilingIsSound'
<1>1. step[h] # "idle" /\ EventId(job[h].news) # NoId /\ UNCHANGED <<env, rows>>
  BY DEF Lookup
<1>2. CASE \E row \in rows : Key(row) = JobKey(h) /\ Found(h, row)
  BY <1>1, <1>2, FoundFiles
<1>3. CASE step' = [step EXCEPT ![h] = "creating"] /\ UNCHANGED <<job, acked>>
  BY <1>1, <1>3, ForwardFiles
<1>4. QED
  BY <1>2, <1>3 DEF Lookup

(* The one step that adds a row: no other has its key.                     *)
LEMMA CreateFiles ==
  ASSUME FilingIsSound, NEW h \in Handlers, Create(h)
  PROVE  FilingIsSound'
<1>1. step[h] = "creating" /\ UNCHANGED env /\ RequestOK(h)
  BY DEF Create, FilingIsSound
<1>2. step[h] # "idle" /\ EventId(job[h].news) # NoId
  BY <1>1 DEF RequestOK
<1>3. CASE \E row \in rows : Key(row) = JobKey(h) /\ Found(h, row) /\ UNCHANGED rows
  BY <1>1, <1>2, <1>3, FoundFiles
<1>4. CASE ~ \E row \in rows : Key(row) = JobKey(h) /\ Found(h, row) /\ UNCHANGED rows
  <2> DEFINE new == [gateway |-> job[h].gateway, event_id |-> EventId(job[h].news),
                     payload |-> job[h].news, processed |-> FALSE]
  <2>1. /\ \A row \in rows : Key(row) # JobKey(h)
        /\ rows' = rows \cup {new}
        /\ step' = [step EXCEPT ![h] = "stored"]
        /\ UNCHANGED <<job, acked>>
    BY <1>4 DEF Create
  <2>2. Key(new) = JobKey(h) /\ RowOK(new)
    BY <1>1, <1>2 DEF Key, JobKey, RequestOK, RowOK, Rows
  <2> HIDE DEF new
  <2>3. RowsStay
    BY <2>1 DEF RowsStay
  <2>4. ASSUME NEW k \in Handlers PROVE RequestOK(k)'
    <3>1. CASE k # h
      <4>1. step'[k] = step[k] /\ job'[k] = job[k]
        BY <2>1, <3>1 DEF FilingIsSound
      <4>2. QED
        BY <2>3, <4>1, OthersKept
    <3>2. CASE k = h
      <4>1. step'[h] = "stored" /\ JobKey(h)' = JobKey(h)
        BY <2>1 DEF FilingIsSound, JobKey
      <4>2. \E row \in rows' : Key(row) = JobKey(h)
        BY <2>1, <2>2
      <4>3. QED
        BY <1>1, <1>2, <2>1, <3>2, <4>1, <4>2 DEF RequestOK, Key
    <3>3. QED
      BY <3>1, <3>2
  <2>5. \A row \in rows' : RowOK(row)
    BY <2>1, <2>2 DEF FilingIsSound
  <2>6. \A a, b \in rows' : Key(a) = Key(b) => a = b
    BY <2>1, <2>2 DEF FilingIsSound
  <2>7. \A n \in acked : n \in Happenings \ Invented /\ \E row \in rows' : Key(row) = <<Content[n].gateway, EventId(n)>>
    BY <2>1 DEF FilingIsSound
  <2>8. QED
    BY <1>1, <2>1, <2>4, <2>5, <2>6, <2>7 DEF FilingIsSound, RowOK, Key
<1>5. QED
  BY <1>3, <1>4

(* A closed row is the same row: its key stays.                            *)
LEMMA ProcessFiles ==
  ASSUME FilingIsSound, NEW row \in rows, Process(row)
  PROVE  FilingIsSound'
<1> DEFINE closed == [row EXCEPT !.processed = TRUE]
<1>1. rows' = (rows \ {row}) \cup {closed} /\ UNCHANGED <<env, step, job, acked>>
  BY DEF Process
<1>2. RowOK(row)
  BY DEF FilingIsSound
<1>3. Key(closed) = Key(row) /\ RowOK(closed)
  BY <1>2 DEF Key, RowOK, Rows
<1> HIDE DEF closed
<1>4. RowsStay
  BY <1>1, <1>3 DEF RowsStay
<1>5. \A k \in Handlers : RequestOK(k)'
  BY <1>1, <1>4, OthersKept
<1>6. \A r \in rows' : RowOK(r)
  BY <1>1, <1>3 DEF FilingIsSound
<1>7. \A a, b \in rows' : Key(a) = Key(b) => a = b
  BY <1>1, <1>3 DEF FilingIsSound
<1>8. \A n \in acked : n \in Happenings \ Invented /\ \E r \in rows' : Key(r) = <<Content[n].gateway, EventId(n)>>
  BY <1>4 DEF FilingIsSound, RowsStay
<1>9. QED
  BY <1>1, <1>5, <1>6, <1>7, <1>8 DEF FilingIsSound, RowOK, Key

LEMMA FilingStep ==
  ASSUME FilingIsSound, [Next]_deliveryVars
  PROVE  FilingIsSound'
<1>1. ASSUME NEW h \in Handlers, Deliver(h) PROVE FilingIsSound'
  BY <1>1, DeliverFiles
<1>2. ASSUME NEW h \in Handlers, RequestStep(h) PROVE FilingIsSound'
  <2>1. env' \in Environments
    BY <1>2 DEF RequestStep, RefuseUnidentified, Lookup, Create, Acknowledge, FilingIsSound
  <2>2. CASE RefuseUnidentified(h)
    BY <2>1, <2>2, DoneFiles DEF RefuseUnidentified
  <2>3. CASE Lookup(h)
    BY <2>3, LookupFiles
  <2>4. CASE Create(h)
    BY <2>4, CreateFiles
  <2>5. CASE Acknowledge(h)
    <3>1. step[h] = "stored" /\ Ok(h) /\ RequestDone(h) /\ rows' = rows
      BY <2>5 DEF Acknowledge
    <3>2. \E row \in rows : Key(row) = JobKey(h)
      BY <3>1 DEF FilingIsSound, RequestOK
    <3>3. QED
      BY <2>1, <3>1, <3>2, DoneFiles
  <2>6. QED
    BY <1>2, <2>2, <2>3, <2>4, <2>5 DEF RequestStep
<1>3. ASSUME NEW h \in Handlers, Crash(h) PROVE FilingIsSound'
  <2>1. env' \in Environments /\ RequestDone(h) /\ rows' = rows /\ acked' = acked
    BY <1>3 DEF Crash, FilingIsSound
  <2>2. QED
    BY <2>1, DoneFiles
<1>4. ASSUME NEW row \in rows, Process(row) PROVE FilingIsSound'
  BY <1>4, ProcessFiles
<1>5. ASSUME Reconfigure \/ UNCHANGED deliveryVars PROVE FilingIsSound'
  <2>1. env' \in Environments /\ UNCHANGED <<step, job, rows, acked>>
    BY <1>5 DEF Reconfigure, deliveryVars, FilingIsSound
  <2>2. RowsStay
    BY <2>1 DEF RowsStay
  <2>3. \A k \in Handlers : RequestOK(k)'
    BY <2>1, <2>2, OthersKept
  <2>4. QED
    BY <2>1, <2>3 DEF FilingIsSound, RowOK, Key
<1>6. QED
  BY <1>1, <1>2, <1>3, <1>4, <1>5 DEF Next

(* Rows and requests are those of the gateway at whose endpoint they came, *)
(* filed under the id of what they tell, Paystack's tell nothing but what  *)
(* Paystack has said, and no two rows have one key (views.webhook,         *)
(* get_or_create).                                                         *)
THEOREM FilingStaysSound == Spec => []FilingIsSound
<1>1. Init => FilingIsSound
  BY DEF Init, FilingIsSound, RequestOK
<1>2. FilingIsSound /\ [Next]_deliveryVars => FilingIsSound'
  BY FilingStep
<1>3. QED
  BY <1>1, <1>2, PTL DEF Spec

(* However an event is delivered, it has one row: the unique constraint    *)
(* and the id's stability are enough (derive_event_id, get_or_create).     *)
THEOREM NoSecondRow == Spec => []OneRowPerEvent
<1>1. FilingIsSound => OneRowPerEvent
  BY DEF FilingIsSound, OneRowPerEvent, RowOK, Rows, Key
<1>2. QED
  BY <1>1, FilingStaysSound, PTL

(* What was answered 200 has a row with its own news in it.                *)
THEOREM NothingAcknowledgedIsLost == Spec => []AcknowledgedIsOnDisk
<1>1. ASSUME FilingIsSound, NEW n \in acked
      PROVE  \E row \in rows : About(row.payload) = About(n)
  <2>1. PICK row \in rows : Key(row) = <<Content[n].gateway, EventId(n)>>
    BY <1>1 DEF FilingIsSound
  <2>2. n \in Happenings /\ RowOK(row)
    BY <1>1 DEF FilingIsSound
  <2>3. row.gateway = Content[n].gateway /\ row.event_id = EventId(n)
    BY <2>1 DEF Key
  <2>4. About(row.payload) = About(n)
    BY <2>2, <2>3, IdTells DEF RowOK, Rows
  <2>5. QED
    BY <2>4
<1>2. FilingIsSound => AcknowledgedIsOnDisk
  BY <1>1 DEF AcknowledgedIsOnDisk
<1>3. QED
  BY <1>2, FilingStaysSound, PTL

-----------------------------------------------------------------------------
(* The endpoint implements EventTable.                                     *)

TableStep == [Table!Next]_(Table!tableVars)

StoredKeys == {Key(row) : row \in rows}
ClosedKeys == {Key(row) : row \in {r \in rows : r.processed}}
AckedKeys  == {KeyOf(n) : n \in acked}

LEMMA KeysAreKeys ==
  ASSUME FilingIsSound
  PROVE  StoredKeys \subseteq {KeyOf(n) : n \in Happenings}
<1> SUFFICES ASSUME NEW row \in rows
             PROVE  Key(row) \in {KeyOf(n) : n \in Happenings}
  BY DEF StoredKeys
<1>1. row.payload \in Happenings /\ Key(row) = KeyOf(row.payload)
  BY DEF FilingIsSound, RowOK, Rows, Key, KeyOf
<1>2. QED
  BY <1>1

LEMMA RowsAlone ==
  ASSUME rows' = rows, acked' = acked
  PROVE  TableStep
<1>1. StoredKeys' = StoredKeys /\ ClosedKeys' = ClosedKeys /\ AckedKeys' = AckedKeys
  BY DEF StoredKeys, ClosedKeys, AckedKeys, Key, KeyOf
<1>2. QED
  BY <1>1 DEF TableStep, Table!tableVars, StoredKeys, ClosedKeys, AckedKeys

(* A stranger's body answers for nothing.                                  *)
LEMMA OkTells ==
  ASSUME NEW h \in Handlers, Ok(h)
  PROVE  acked' = acked \/ job[h].news \notin Invented
<1>1. SUFFICES ASSUME job[h].news \in Invented PROVE acked' = acked
  OBVIOUS
<1>2. {job[h].news} \ Invented = {}
  BY <1>1
<1>3. acked' = acked \cup {}
  BY <1>2 DEF Ok
<1>4. QED
  BY <1>3

(* 200 for what a row is there for.                                        *)
LEMMA AnsweredStep ==
  ASSUME FilingIsSound, NEW h \in Handlers, step[h] # "idle", NEW row \in rows,
         Key(row) = JobKey(h), rows' = rows, Ok(h), job[h].news \notin Invented
  PROVE  TableStep
<1>1. PICK k \in StoredKeys : k = Key(row)
  BY DEF StoredKeys
<1>2. KeyOf(job[h].news) = k
  BY <1>1 DEF FilingIsSound, RequestOK, JobKey, KeyOf
<1>3. AckedKeys' = AckedKeys \cup {k}
  BY <1>2 DEF AckedKeys, KeyOf, Ok
<1>4. StoredKeys' = StoredKeys /\ ClosedKeys' = ClosedKeys
  BY DEF StoredKeys, ClosedKeys, Key
<1>5. Table!Acknowledge(k)
  BY <1>1, <1>3, <1>4 DEF Table!Acknowledge, StoredKeys, ClosedKeys, AckedKeys
<1>6. k \in {KeyOf(n) : n \in Happenings}
  BY <1>1, KeysAreKeys
<1>7. QED
  BY <1>5, <1>6 DEF TableStep, Table!Next

(* The row that get_or_create inserts has a key of its own.                *)
LEMMA InsertedStep ==
  ASSUME FilingIsSound, FilingIsSound', NEW h \in Handlers, acked' = acked, NEW new,
         rows' = rows \cup {new}, ~new.processed, \A row \in rows : Key(row) # Key(new)
  PROVE  TableStep
<1>1. PICK k : k = Key(new)
  OBVIOUS
<1>2. k \in StoredKeys' /\ k \notin StoredKeys
  BY <1>1 DEF StoredKeys, Key
<1>3. k \in {KeyOf(n) : n \in Happenings}
  <2>1. new.payload \in Happenings /\ Key(new) = KeyOf(new.payload)
    BY DEF FilingIsSound, RowOK, Rows, Key, KeyOf
  <2>2. QED
    BY <1>1, <2>1
<1>4. StoredKeys' = StoredKeys \cup {k} /\ ClosedKeys' = ClosedKeys /\ AckedKeys' = AckedKeys
  BY <1>1 DEF StoredKeys, ClosedKeys, AckedKeys, Key, KeyOf
<1>5. Table!File(k)
  BY <1>2, <1>4 DEF Table!File, StoredKeys, ClosedKeys, AckedKeys
<1>6. QED
  BY <1>3, <1>5 DEF TableStep, Table!Next

LEMMA ProcessedStep ==
  ASSUME FilingIsSound, NEW row \in rows, Process(row)
  PROVE  TableStep
<1>1. PICK done : done = [row EXCEPT !.processed = TRUE] /\ rows' = (rows \ {row}) \cup {done}
  BY DEF Process
<1>2. PICK k \in StoredKeys : k = Key(row)
  BY DEF StoredKeys
<1>3. row \in Rows /\ ~row.processed /\ acked' = acked
  BY DEF FilingIsSound, RowOK, Process
<1>4. Key(done) = k /\ done.processed
  BY <1>1, <1>2, <1>3 DEF Key, Rows
<1>5. StoredKeys' = StoredKeys /\ ClosedKeys' = ClosedKeys \cup {k} /\ AckedKeys' = AckedKeys
  BY <1>1, <1>2, <1>3, <1>4 DEF StoredKeys, ClosedKeys, AckedKeys, Key, KeyOf
<1>6. Table!Close({k})
  BY <1>2, <1>5 DEF Table!Close, StoredKeys, ClosedKeys, AckedKeys
<1>7. {k} \in SUBSET {KeyOf(n) : n \in Happenings}
  BY <1>2, KeysAreKeys
<1>8. QED
  BY <1>6, <1>7 DEF TableStep, Table!Next

LEMMA RequestKeepsTable ==
  ASSUME FilingIsSound, FilingIsSound', NEW h \in Handlers, RequestStep(h)
  PROVE  TableStep
<1>1. ASSUME NEW row \in rows, Key(row) = JobKey(h), Found(h, row), rows' = rows, step[h] # "idle"
      PROVE  TableStep
  <2>1. acked' = acked \/ (Ok(h) /\ job[h].news \notin Invented)
    BY <1>1, OkTells DEF Found
  <2>2. QED
    BY <1>1, <2>1, AnsweredStep, RowsAlone
<1>2. CASE Acknowledge(h)
  <2>1. PICK row \in rows : Key(row) = JobKey(h)
    BY <1>2 DEF Acknowledge, FilingIsSound, RequestOK
  <2>2. acked' = acked \/ (Ok(h) /\ job[h].news \notin Invented)
    BY <1>2, OkTells DEF Acknowledge
  <2>3. QED
    BY <1>2, <2>1, <2>2, AnsweredStep, RowsAlone DEF Acknowledge
<1>3. ASSUME step[h] = "creating", \A row \in rows : Key(row) # JobKey(h), NEW new,
             Key(new) = JobKey(h), ~new.processed, rows' = rows \cup {new}, acked' = acked
      PROVE  TableStep
  BY <1>3, InsertedStep
<1>4. CASE Create(h)
  <2>1. CASE \E row \in rows : Key(row) = JobKey(h) /\ Found(h, row) /\ UNCHANGED rows
    BY <1>1, <1>4, <2>1 DEF Create
  <2>2. CASE \A row \in rows : Key(row) # JobKey(h)
    <3>1. PICK new : /\ new = [gateway |-> job[h].gateway, event_id |-> EventId(job[h].news),
                               payload |-> job[h].news, processed |-> FALSE]
                     /\ rows' = rows \cup {new} /\ acked' = acked /\ step[h] = "creating"
      BY <1>4, <2>2 DEF Create
    <3>2. Key(new) = JobKey(h) /\ ~new.processed
      BY <3>1 DEF Key, JobKey
    <3>3. QED
      BY <1>3, <2>2, <3>1, <3>2
  <2>3. QED
    BY <1>4, <2>1, <2>2 DEF Create
<1>5. CASE Lookup(h)
  <2>1. step[h] # "idle" /\ rows' = rows
    BY <1>5 DEF Lookup
  <2>2. CASE \E row \in rows : Key(row) = JobKey(h) /\ Found(h, row)
    BY <1>1, <2>1, <2>2
  <2>3. CASE acked' = acked
    BY <2>1, <2>3, RowsAlone
  <2>4. QED
    BY <1>5, <2>2, <2>3 DEF Lookup
<1>6. CASE RefuseUnidentified(h)
  BY <1>6, RowsAlone DEF RefuseUnidentified
<1>7. QED
  BY <1>2, <1>4, <1>5, <1>6 DEF RequestStep

(* However many requests there are and whatever they bring, the table of   *)
(* events keeps what EventTable promises: the same promise that the rest   *)
(* of the system keeps (OutcomeProofs!EventsAreKept).                      *)
THEOREM EndpointFilesEvents == Spec => FilesEvents
<1>1. Init => Table!Init
  BY DEF Init, Table!Init
<1>2. ASSUME FilingIsSound, FilingIsSound', [Next]_deliveryVars PROVE TableStep
  <2>1. CASE rows' = rows /\ acked' = acked
    BY <2>1, RowsAlone
  <2>2. QED
    BY <1>2, <2>1, ProcessedStep, RequestKeepsTable
       DEF Next, Deliver, parse_webhook, Crash, Reconfigure, deliveryVars
<1>3. FilingIsSound /\ FilingIsSound' /\ [Next]_deliveryVars => [Table!Next]_(Table!tableVars)
  BY <1>2 DEF TableStep
<1>4. Spec => Table!Spec
  BY <1>1, <1>3, FilingStaysSound, PTL DEF Spec, Table!Spec
<1>5. QED
  BY <1>4 DEF FilesEvents
=============================================================================
