--------------------------- MODULE HostKeyedProofs ---------------------------
(***************************************************************************)
(* The safety properties of HostKeyed for every set of keys and specs and  *)
(* every cooldown, request timeout and number of edits.                    *)
(***************************************************************************)
EXTENDS HostKeyed, TLAPS

(***************************************************************************)
(* The inductive invariant: what each place in the pass may rely on.       *)
(***************************************************************************)

\* Where a pass has a pending request to resolve.
Asking == {"resolve", "import", "drop", "report"}

\* A pass that opens a round knows that no request is pending; one that resolves a
\* request knows that it is still the pending one, and reports once it is gone.
RequestInv ==
  /\ NoStrandedRequest
  /\ at \in {"inspect", "stamp", "csr", "name"} => status.pending = NoId
  /\ at \in {"name", "create"} => csr \in Ids
  /\ at = "create" => status.pending = csr
  /\ at \in Asking => Named \in Ids /\ status.pending = Named
  /\ at = "report" => request[Named] = "none"

\* Until its request exists the CSR is for the host's key, too.
KeyInv ==
  /\ NoStrandedKey
  /\ at \in {"name", "create"} => host.key = csr \/ past.replaced

\* A request waits no longer than the cooldown of its round has run.
AgeInv == \A n \in Ids : request[n] = "waiting" => status.cooldown + age[n] <= Timeout

\* The copy a pass carries Ready over from is not Ready in a repair, and a round opened
\* for a repair goes on as one.
ReadyInv ==
  /\ RepairNotReady
  /\ at \in Asking /\ past.repair => ~pub.status.ready
  /\ at \in {"csr", "name"} => (past.repair <=> ~routine)

\* observedGeneration lags behind only for an edit that no round has opened for, in
\* .status and in the copy a pass decides by; that copy's cooldown is not over before
\* the real one.
StampInv ==
  /\ at = "csr" => past.stamped
  /\ status.observed \notin {0, spec.generation} => past.excused
  /\ at # "idle" /\ pub.spec.generation # spec.generation => past.excused
  /\ at = "inspect" => /\ SpecChanged => past.excused
                       /\ status.cooldown <= pub.status.cooldown
  /\ at = "stamp" => status.cooldown = 0 \/ past.excused

HostKeyedInv ==
  HostKeyedTypeOK /\ RequestInv /\ KeyInv /\ AgeInv /\ ReadyInv /\ StampInv

-----------------------------------------------------------------------------
(***************************************************************************)
(* What a write of .status changes, and what it keeps.                     *)
(***************************************************************************)

\* The types of what the writes are made of.
TypeFacts ==
  /\ status \in StatusField /\ pub.status \in StatusField
  /\ spec \in SpecField /\ pub.spec \in SpecField
  /\ pub = [spec |-> pub.spec, status |-> pub.status]
  /\ request \in [Ids -> Outstanding \cup {"none", "failed"}]
  /\ age \in [Ids -> 0 .. Timeout]
  /\ status.pending \in Ids \cup {NoId} /\ pub.status.pending \in Ids \cup {NoId}
  /\ status.cooldown \in 0 .. Cooldown /\ pub.status.cooldown \in 0 .. Cooldown
  /\ status.observed \in Nat /\ pub.status.observed \in Nat
  /\ spec.generation \in Nat \ {0} /\ pub.spec.generation \in Nat \ {0}
  /\ pub.spec.generation \in 0 .. MaxEdits + 1
  /\ status.ready \in BOOLEAN /\ pub.status.ready \in BOOLEAN
  /\ pub.status.published \in Ids \cup {NoId}
  /\ routine \in BOOLEAN
  /\ csr \in Ids \cup {NoId}
  /\ past \in [stamped : BOOLEAN, repair : BOOLEAN, excused : BOOLEAN, known : BOOLEAN,
               replaced : BOOLEAN]
  /\ host \in [key : Ids \cup {Factory}, loaded : Ids \cup {Factory},
               serving : Ids \cup {Factory}, due : BOOLEAN]

\* The fields of a status w written over the present one.
Fields(w, pending, cooldown, ready) ==
  /\ w.pending = pending
  /\ w.cooldown = cooldown
  /\ w.observed = pub.spec.generation
  /\ w.ready = ready

\* Every write records the generation read, and only a stamp touches the cooldown.
WriteFacts ==
  /\ Fields(Observed(status, FALSE), status.pending, status.cooldown, FALSE)
  /\ Fields(Observed(status, pub.status.ready), status.pending, status.cooldown,
            pub.status.ready)
  /\ Fields(Cleared(status, pub.status.ready), NoId, status.cooldown, pub.status.ready)
  /\ Fields(Confirmed, status.pending, status.cooldown, TRUE)
  /\ Fields(Stamped, status.pending, Cooldown, routine)
  /\ Fields(Recorded, csr, status.cooldown, routine)
  /\ Reported.pending = NoId
  /\ Reported.cooldown = status.cooldown
  /\ Reported.observed = pub.spec.generation

\* The type invariant, taken apart.
LEMMA TypesOfFields ==
  ASSUME HostKeyedTypeOK
  PROVE  TypeFacts
<1>1. \A s \in StatusField :
        /\ s.pending \in Ids \cup {NoId}
        /\ s.published \in Ids \cup {NoId}
        /\ s.cooldown \in 0 .. Cooldown
        /\ s.observed \in Nat
        /\ s.ready \in BOOLEAN
  BY HostKeyedAssumption DEF StatusField
<1>2. \A s \in SpecField : s.generation \in Nat \ {0} /\ s.generation \in 0 .. MaxEdits + 1
  BY HostKeyedAssumption DEF SpecField
<1>3. /\ status \in StatusField /\ pub.status \in StatusField
      /\ spec \in SpecField /\ pub.spec \in SpecField
      /\ pub = [spec |-> pub.spec, status |-> pub.status]
  BY DEF HostKeyedTypeOK
<1> QED
  BY <1>1, <1>2, <1>3 DEF HostKeyedTypeOK, TypeFacts

\* Each write sets the fields it names and keeps the others.
LEMMA WritesOfFields ==
  ASSUME HostKeyedTypeOK
  PROVE  WriteFacts
<1>. USE DEF StatusField, Fields
<1>1. TypeFacts
  BY TypesOfFields
<1>2. Fields(Observed(status, FALSE), status.pending, status.cooldown, FALSE)
  BY <1>1 DEF TypeFacts, Observed
<1>3. Fields(Observed(status, pub.status.ready), status.pending, status.cooldown,
             pub.status.ready)
  BY <1>1 DEF TypeFacts, Observed
<1>4. Fields(Cleared(status, pub.status.ready), NoId, status.cooldown, pub.status.ready)
  BY <1>1 DEF TypeFacts, Observed, Cleared
<1>5. Fields(Confirmed, status.pending, status.cooldown, TRUE)
  BY <1>1 DEF TypeFacts, Observed, Confirmed
<1>6. Fields(Stamped, status.pending, Cooldown, routine)
  BY <1>1 DEF TypeFacts, Observed, Stamped
<1>7. Fields(Recorded, csr, status.cooldown, routine)
  BY <1>1 DEF TypeFacts, Observed, Recorded
<1>8. /\ Reported.pending = NoId
      /\ Reported.cooldown = status.cooldown
      /\ Reported.observed = pub.spec.generation
  BY <1>1 DEF TypeFacts, Observed, Cleared, Reported
<1> QED
  BY <1>2, <1>3, <1>4, <1>5, <1>6, <1>7, <1>8 DEF WriteFacts

\* The passing of time touches the cooldowns only, in .status and in the copy.
LEMMA TickFields ==
  ASSUME HostKeyedTypeOK, Tick
  PROVE  /\ status' \in StatusField
         /\ status'.pending = status.pending
         /\ status'.cooldown = Less(status.cooldown)
         /\ status'.observed = status.observed
         /\ status'.ready = status.ready
         /\ pub' \in [spec : SpecField, status : StatusField]
         /\ pub'.spec = pub.spec
         /\ pub'.status.pending = pub.status.pending
         /\ pub'.status.cooldown = Less(pub.status.cooldown)
         /\ pub'.status.observed = pub.status.observed
         /\ pub'.status.ready = pub.status.ready
<1>1. ASSUME NEW s \in StatusField
      PROVE  LET t == [s EXCEPT !.cooldown = Less(@)]
             IN  /\ t \in StatusField
                 /\ t.pending = s.pending
                 /\ t.cooldown = Less(s.cooldown)
                 /\ t.observed = s.observed
                 /\ t.ready = s.ready
  <2>1. s.cooldown \in 0 .. Cooldown
    BY DEF StatusField
  <2>2. Less(s.cooldown) \in 0 .. Cooldown
    BY <2>1, HostKeyedAssumption DEF Less
  <2> QED
    BY <2>2 DEF StatusField
<1>2. /\ status \in StatusField /\ pub.status \in StatusField /\ pub.spec \in SpecField
      /\ pub = [spec |-> pub.spec, status |-> pub.status]
  BY TypesOfFields DEF TypeFacts
<1>3. status' = [status EXCEPT !.cooldown = Less(@)]
  BY DEF Tick
<1>4. pub' = [spec |-> pub.spec, status |-> [pub.status EXCEPT !.cooldown = Less(@)]]
  BY <1>2 DEF Tick
<1> QED
  BY <1>1, <1>2, <1>3, <1>4

-----------------------------------------------------------------------------
(***************************************************************************)
(* Types.                                                                  *)
(***************************************************************************)

\* The writes are statuses.
LEMMA WritesAreStatuses ==
  ASSUME HostKeyedTypeOK
  PROVE  /\ Observed(status, FALSE) \in StatusField
         /\ Observed(status, pub.status.ready) \in StatusField
         /\ Cleared(status, pub.status.ready) \in StatusField
         /\ InForce => Confirmed \in StatusField
         /\ Stamped \in StatusField
         /\ Recorded \in StatusField
         /\ Reported \in StatusField
<1>1. TypeFacts
  BY TypesOfFields
<1>2. Cooldown \in 0 .. Cooldown
  BY HostKeyedAssumption
<1>3. /\ Observed(status, FALSE) \in StatusField
      /\ Observed(status, pub.status.ready) \in StatusField
  BY <1>1 DEF TypeFacts, StatusField, Observed
<1>4. Cleared(status, pub.status.ready) \in StatusField
  BY <1>1 DEF TypeFacts, StatusField, Observed, Cleared
<1>5. InForce => Confirmed \in StatusField
  BY <1>1 DEF TypeFacts, StatusField, Observed, Confirmed, InForce
<1>6. Stamped \in StatusField
  BY <1>1, <1>2 DEF TypeFacts, StatusField, Observed, Stamped
<1>7. Recorded \in StatusField
  BY <1>1 DEF TypeFacts, StatusField, Observed, Recorded
<1>8. Reported \in StatusField
  BY <1>1 DEF TypeFacts, StatusField, Observed, Cleared, Reported, Named
<1> QED
  BY <1>3, <1>4, <1>5, <1>6, <1>7, <1>8

\* Every step leaves a status in .status.
LEMMA StatusType ==
  ASSUME HostKeyedTypeOK, Next
  PROVE  status' \in StatusField
<1>1. status \in StatusField
  BY TypesOfFields DEF TypeFacts
<1>2. CASE Inspect
  BY <1>1, <1>2, WritesAreStatuses
     DEF Inspect, Misconfiguration, UpToDate, Refuse, OpenRound, EndWith
<1>3. CASE StartSigning
  BY <1>1, <1>3, WritesAreStatuses
     DEF StartSigning, Stamp, GenerateCsr, RecordName, CreateRequest, Strictly
<1>4. CASE Resolve
  BY <1>1, <1>4, WritesAreStatuses
     DEF Resolve, RequestGone, RequestFailed, RequestUnsigned, RequestWaits, RequestSigned,
         AlreadyInstalled, Importing, Import, DropRequest, Report, EndWith
<1>5. CASE Fail
  BY <1>1, <1>5, WritesAreStatuses DEF Fail, EndWith
<1>6. CASE ClearStamp
  <2>1. 0 \in 0 .. Cooldown
    BY HostKeyedAssumption
  <2> QED
    BY <1>1, <1>6, <2>1 DEF ClearStamp, StatusField
<1>7. CASE Tick
  BY <1>7, TickFields
<1> QED
  BY <1>1, <1>2, <1>3, <1>4, <1>5, <1>6, <1>7
     DEF Next, Pass, Begin, CallFails, Crash, World, Edit, Wear, Reset, Replace, Answer, Delete

\* The copy a pass decides by is a spec and a status.
LEMMA CopyType ==
  ASSUME HostKeyedTypeOK, Next
  PROVE  pub' \in [spec : SpecField, status : StatusField]
<1>1. CASE UNCHANGED pub
  BY <1>1 DEF HostKeyedTypeOK
<1>2. CASE Begin
  BY <1>2 DEF Begin, HostKeyedTypeOK
<1>3. CASE Tick
  BY <1>3, TickFields
<1> QED
  BY <1>1, <1>2, <1>3
     DEF Next, Pass, Inspect, Misconfiguration, UpToDate, Refuse, OpenRound, Inspecting, EndWith,
         StartSigning, Stamp, GenerateCsr, RecordName, CreateRequest, GoTo,
         Resolve, RequestGone, Resolving, RequestFailed, RequestUnsigned, RequestWaits,
         RequestSigned, AlreadyInstalled, Importing, Import, DropRequest, Report,
         CallFails, Fail, Crash, World, Edit, ClearStamp, Wear, Reset, Replace, Answer, Delete,
         passVars, worldVars

\* The host, the spec and the history.
WorldOK ==
  /\ spec \in SpecField
  /\ names \in [Ids -> Specs]
  /\ host \in [key : Ids \cup {Factory}, loaded : Ids \cup {Factory},
               serving : Ids \cup {Factory}, due : BOOLEAN]
  /\ past \in [stamped : BOOLEAN, repair : BOOLEAN, excused : BOOLEAN, known : BOOLEAN,
               replaced : BOOLEAN]

\* Every step leaves the host, the spec and the history well typed.
LEMMA WorldType ==
  ASSUME HostKeyedTypeOK, Next
  PROVE  WorldOK'
<1>1. WorldOK /\ TypeFacts /\ pub.spec.is \in Specs
  BY TypesOfFields DEF HostKeyedTypeOK, WorldOK, SpecField
<1>2. CASE UNCHANGED worldVars
  BY <1>1, <1>2 DEF WorldOK, worldVars
<1>3. CASE Begin
  BY <1>1, <1>3 DEF WorldOK, Begin
<1>4. CASE Stamp
  BY <1>1, <1>4 DEF WorldOK, TypeFacts, Stamp, Landed
<1>5. CASE GenerateCsr
  <2>1. PICK n \in Ids : /\ host' = [host EXCEPT !.key = n]
                         /\ names' = [names EXCEPT ![n] = pub.spec.is]
    BY <1>5 DEF GenerateCsr
  <2>2. /\ past' = [past EXCEPT !.stamped = FALSE, !.replaced = FALSE]
        /\ spec' = spec
    BY <1>5 DEF GenerateCsr
  <2> QED
    BY <1>1, <2>1, <2>2 DEF WorldOK
<1>6. CASE Importing /\ (AlreadyInstalled \/ Import)
  <2>1. spec' = spec /\ names' = names /\ past' = past
    BY <1>6 DEF Importing
  <2>2. \/ host' = host
        \/ host' = [host EXCEPT !.loaded = host.key, !.serving = host.key, !.due = FALSE]
        \/ host' = [host EXCEPT !.loaded = host.key]
    BY <1>6 DEF AlreadyInstalled, Import
  <2> QED
    BY <1>1, <2>1, <2>2 DEF WorldOK
<1>7. CASE \E s \in Specs : Edit(s)
  <2>1. PICK s \in Specs : Edit(s)
    BY <1>7
  <2>2. spec.generation + 1 \in 1 .. MaxEdits + 1
    BY <1>1, <2>1, HostKeyedAssumption DEF Edit, TypeFacts
  <2> QED
    BY <1>1, <2>1, <2>2 DEF Edit, WorldOK, SpecField
<1>8. CASE ClearStamp
  BY <1>1, <1>8 DEF WorldOK, ClearStamp
<1>9. CASE Wear \/ Reset
  <2>1. /\ spec' = spec /\ names' = names /\ past' = past
        /\ \/ host' = [host EXCEPT !.due = TRUE]
           \/ host' = [host EXCEPT !.serving = host.loaded, !.due = FALSE]
    BY <1>9 DEF Wear, Reset
  <2> QED
    BY <1>1, <2>1 DEF WorldOK
<1>10. CASE Replace
  BY <1>1, <1>10 DEF WorldOK, Replace
<1> QED
  BY <1>2, <1>3, <1>4, <1>5, <1>6, <1>7, <1>8, <1>9, <1>10
     DEF Next, Pass, Inspect, Misconfiguration, UpToDate, Refuse, OpenRound, Inspecting,
         StartSigning, RecordName, CreateRequest, Resolve, RequestGone, Resolving,
         RequestFailed, RequestUnsigned, RequestWaits, RequestSigned, AlreadyInstalled, Import,
         DropRequest, Report, CallFails, Fail, Crash, World, Answer, Delete, Tick

\* The requests and the state of the pass.
PassOK ==
  /\ request \in [Ids -> Outstanding \cup {"none", "failed"}]
  /\ age \in [Ids -> 0 .. Timeout]
  /\ at \in {"idle", "inspect", "resolve", "stamp", "csr", "name", "create", "import",
             "drop", "report", "fail"}
  /\ csr \in Ids \cup {NoId}
  /\ verdict \in {"none", "failed", "unsigned", "unusable", "published"}
  /\ routine \in BOOLEAN

\* Every step leaves the requests and the state of the pass well typed.
LEMMA PassType ==
  ASSUME HostKeyedTypeOK, Next
  PROVE  PassOK'
<1>. USE HostKeyedAssumption DEF HostKeyedTypeOK, PassOK, Outstanding
<1>0. TypeFacts /\ WriteFacts
  BY TypesOfFields, WritesOfFields
<1>1. CASE Begin
  BY <1>0, <1>1 DEF TypeFacts, Begin
<1>2. CASE Misconfiguration
  BY <1>0, <1>2 DEF TypeFacts, WriteFacts, Fields, Misconfiguration, Inspecting, EndWith,
         worldVars
<1>3. CASE UpToDate
  BY <1>0, <1>3 DEF TypeFacts, WriteFacts, Fields, UpToDate, Inspecting, EndWith, worldVars
<1>4. CASE Refuse
  BY <1>0, <1>4 DEF TypeFacts, WriteFacts, Fields, Refuse, Inspecting, EndWith, worldVars
<1>5. CASE OpenRound
  <2>1. Routine \in BOOLEAN
    BY DEF Routine
  <2> QED
    BY <1>0, <1>5, <2>1 DEF TypeFacts, OpenRound, Inspecting
<1>6. CASE Stamp
  BY <1>0, <1>6 DEF TypeFacts, WriteFacts, Fields, Stamp, Strictly, Landed
<1>7. CASE GenerateCsr
  BY <1>0, <1>7 DEF TypeFacts, GenerateCsr, InUse
<1>8. CASE RecordName
  BY <1>0, <1>8 DEF TypeFacts, WriteFacts, Fields, RecordName, Strictly, worldVars
<1>9. CASE CreateRequest
  <2>1. request' = [request EXCEPT ![csr] = "waiting"] /\ age' = [age EXCEPT ![csr] = 0]
    BY <1>9 DEF CreateRequest
  <2>2. request' \in [Ids -> {"waiting", "signed", "unfit", "none", "failed"}]
    BY <2>1, Zenon
  <2>3. 0 \in 0 .. Timeout /\ age \in [Ids -> 0 .. Timeout]
    OBVIOUS
  <2>4. age' \in [Ids -> 0 .. Timeout]
    BY <2>1, <2>3, Zenon
  <2> QED
    BY <1>9, <2>2, <2>4 DEF CreateRequest, GoTo
<1>10. CASE RequestGone
  BY <1>0, <1>10 DEF TypeFacts, WriteFacts, Fields, RequestGone, Resolving, EndWith, worldVars
<1>11. CASE RequestFailed \/ RequestUnsigned \/ RequestSigned
  BY <1>0, <1>11 DEF TypeFacts, RequestFailed, RequestUnsigned, RequestSigned, Resolving,
         worldVars
<1>12. CASE RequestWaits
  BY <1>0, <1>12 DEF TypeFacts, WriteFacts, Fields, RequestWaits, Resolving, EndWith, worldVars
<1>13. CASE AlreadyInstalled \/ Import
  BY <1>0, <1>13 DEF TypeFacts, AlreadyInstalled, Import, Importing
<1>14. CASE DropRequest
  <2>1. request' = [request EXCEPT ![Named] = "none"] /\ age' = [age EXCEPT ![Named] = 0]
    BY <1>14 DEF DropRequest
  <2>2. request' \in [Ids -> {"waiting", "signed", "unfit", "none", "failed"}]
    BY <2>1, Zenon
  <2>3. 0 \in 0 .. Timeout /\ age \in [Ids -> 0 .. Timeout]
    OBVIOUS
  <2>4. age' \in [Ids -> 0 .. Timeout]
    BY <2>1, <2>3, Zenon
  <2> QED
    BY <1>14, <2>2, <2>4 DEF DropRequest, GoTo
<1>15. CASE Report
  BY <1>0, <1>15 DEF TypeFacts, WriteFacts, Fields, Report, EndWith, worldVars
<1>16. CASE CallFails \/ Crash
  BY <1>0, <1>16 DEF TypeFacts, CallFails, Crash, GoTo, worldVars
<1>17. CASE Fail
  BY <1>0, <1>17 DEF TypeFacts, WriteFacts, Fields, Fail, EndWith, worldVars
<1>18. CASE ClearStamp
  BY <1>0, <1>18 DEF TypeFacts, ClearStamp, passVars
<1>19. CASE Wear \/ Reset \/ Replace
  BY <1>0, <1>19 DEF TypeFacts, Wear, Reset, Replace, passVars
<1>20. CASE Tick
  BY <1>0, <1>20 DEF TypeFacts, Tick, Less, worldVars
<1>21. CASE \E s \in Specs : Edit(s)
  BY <1>0, <1>21 DEF TypeFacts, Edit, passVars
<1>22. CASE \E n \in Ids : Answer(n) \/ Delete(n)
  BY <1>0, <1>22 DEF TypeFacts, Answer, Delete, passVars, worldVars
<1> QED
  BY <1>1, <1>2, <1>3, <1>4, <1>5, <1>6, <1>7, <1>8, <1>9, <1>10, <1>11, <1>12, <1>13,
     <1>14, <1>15, <1>16, <1>17, <1>18, <1>19, <1>20, <1>21, <1>22
     DEF Next, Pass, Inspect, StartSigning, Resolve, World

\* Each action keeps the pending name, the requests and the place in the pass in agreement.
LEMMA RequestStep ==
  ASSUME HostKeyedTypeOK, RequestInv, Next
  PROVE  RequestInv'
<1>. USE HostKeyedAssumption DEF RequestInv, NoStrandedRequest, Asking, Named
<1>0. TypeFacts /\ WriteFacts
  BY TypesOfFields, WritesOfFields
<1>1. CASE Begin
  BY <1>0, <1>1 DEF TypeFacts, Begin
<1>2. CASE Misconfiguration
  BY <1>0, <1>2 DEF TypeFacts, WriteFacts, Fields, Misconfiguration, Inspecting, EndWith,
         worldVars
<1>3. CASE UpToDate
  BY <1>0, <1>3 DEF TypeFacts, WriteFacts, Fields, UpToDate, Inspecting, EndWith, worldVars
<1>4. CASE Refuse
  BY <1>0, <1>4 DEF TypeFacts, WriteFacts, Fields, Refuse, Inspecting, EndWith, worldVars
<1>5. CASE OpenRound
  BY <1>0, <1>5 DEF TypeFacts, OpenRound, Inspecting, worldVars
<1>6. CASE Stamp
  BY <1>0, <1>6 DEF TypeFacts, WriteFacts, Fields, Stamp, Strictly, Landed
<1>7. CASE GenerateCsr
  BY <1>0, <1>7 DEF TypeFacts, GenerateCsr, InUse
<1>8. CASE RecordName
  BY <1>0, <1>8 DEF TypeFacts, WriteFacts, Fields, RecordName, Strictly, worldVars
<1>9. CASE CreateRequest
  BY <1>0, <1>9 DEF TypeFacts, CreateRequest, GoTo, worldVars
<1>10. CASE RequestGone
  BY <1>0, <1>10 DEF TypeFacts, WriteFacts, Fields, RequestGone, Resolving, EndWith, worldVars
<1>11. CASE RequestFailed \/ RequestUnsigned \/ RequestSigned
  BY <1>0, <1>11 DEF TypeFacts, RequestFailed, RequestUnsigned, RequestSigned, Resolving,
         worldVars
<1>12. CASE RequestWaits
  BY <1>0, <1>12 DEF TypeFacts, WriteFacts, Fields, RequestWaits, Resolving, EndWith, worldVars
<1>13. CASE AlreadyInstalled \/ Import
  BY <1>0, <1>13 DEF TypeFacts, AlreadyInstalled, Import, Importing
<1>14. CASE DropRequest
  BY <1>0, <1>14 DEF TypeFacts, DropRequest, GoTo, worldVars
<1>15. CASE Report
  BY <1>0, <1>15 DEF TypeFacts, WriteFacts, Fields, Report, EndWith, worldVars
<1>16. CASE CallFails \/ Crash
  BY <1>0, <1>16 DEF TypeFacts, CallFails, Crash, GoTo, worldVars
<1>17. CASE Fail
  BY <1>0, <1>17 DEF TypeFacts, WriteFacts, Fields, Fail, EndWith, worldVars
<1>18. CASE ClearStamp
  BY <1>0, <1>18 DEF TypeFacts, ClearStamp, passVars
<1>19. CASE Wear \/ Reset \/ Replace
  BY <1>0, <1>19 DEF TypeFacts, Wear, Reset, Replace, passVars
<1>20. CASE Tick
  BY <1>0, <1>20, TickFields DEF TypeFacts, Tick, Less, worldVars
<1>21. CASE \E s \in Specs : Edit(s)
  BY <1>0, <1>21 DEF TypeFacts, Edit, passVars
<1>22. CASE \E n \in Ids : Answer(n) \/ Delete(n)
  BY <1>0, <1>22 DEF TypeFacts, Answer, Delete, passVars, worldVars
<1> QED
  BY <1>1, <1>2, <1>3, <1>4, <1>5, <1>6, <1>7, <1>8, <1>9, <1>10, <1>11, <1>12, <1>13,
     <1>14, <1>15, <1>16, <1>17, <1>18, <1>19, <1>20, <1>21, <1>22
     DEF Next, Pass, Inspect, StartSigning, Resolve, World

\* The key of a request, or of the CSR a request will be made for, is rotated by nothing but
\* a new round, which only opens when there is neither.
LEMMA KeyStep ==
  ASSUME HostKeyedTypeOK, RequestInv, KeyInv, Next
  PROVE  KeyInv'
<1>. USE HostKeyedAssumption DEF RequestInv, NoStrandedRequest, Outstanding, Asking, Named, KeyInv, NoStrandedKey
<1>0. TypeFacts /\ WriteFacts
  BY TypesOfFields, WritesOfFields
<1>1. CASE Begin
  BY <1>0, <1>1 DEF TypeFacts, Begin
<1>2. CASE Misconfiguration
  BY <1>0, <1>2 DEF TypeFacts, WriteFacts, Fields, Misconfiguration, Inspecting, EndWith,
         worldVars
<1>3. CASE UpToDate
  BY <1>0, <1>3 DEF TypeFacts, WriteFacts, Fields, UpToDate, Inspecting, EndWith, worldVars
<1>4. CASE Refuse
  BY <1>0, <1>4 DEF TypeFacts, WriteFacts, Fields, Refuse, Inspecting, EndWith, worldVars
<1>5. CASE OpenRound
  BY <1>0, <1>5 DEF TypeFacts, OpenRound, Inspecting, worldVars
<1>6. CASE Stamp
  BY <1>0, <1>6 DEF TypeFacts, WriteFacts, Fields, Stamp, Strictly, Landed
<1>7. CASE GenerateCsr
  BY <1>0, <1>7 DEF TypeFacts, GenerateCsr, InUse
<1>8. CASE RecordName
  BY <1>0, <1>8 DEF TypeFacts, WriteFacts, Fields, RecordName, Strictly, worldVars
<1>9. CASE CreateRequest
  BY <1>0, <1>9 DEF TypeFacts, CreateRequest, GoTo, worldVars
<1>10. CASE RequestGone
  BY <1>0, <1>10 DEF TypeFacts, WriteFacts, Fields, RequestGone, Resolving, EndWith, worldVars
<1>11. CASE RequestFailed \/ RequestUnsigned \/ RequestSigned
  BY <1>0, <1>11 DEF TypeFacts, RequestFailed, RequestUnsigned, RequestSigned, Resolving,
         worldVars
<1>12. CASE RequestWaits
  BY <1>0, <1>12 DEF TypeFacts, WriteFacts, Fields, RequestWaits, Resolving, EndWith, worldVars
<1>13. CASE AlreadyInstalled \/ Import
  BY <1>0, <1>13 DEF TypeFacts, AlreadyInstalled, Import, Importing
<1>14. CASE DropRequest
  BY <1>0, <1>14 DEF TypeFacts, DropRequest, GoTo, worldVars
<1>15. CASE Report
  BY <1>0, <1>15 DEF TypeFacts, WriteFacts, Fields, Report, EndWith, worldVars
<1>16. CASE CallFails \/ Crash
  BY <1>0, <1>16 DEF TypeFacts, CallFails, Crash, GoTo, worldVars
<1>17. CASE Fail
  BY <1>0, <1>17 DEF TypeFacts, WriteFacts, Fields, Fail, EndWith, worldVars
<1>18. CASE ClearStamp
  BY <1>0, <1>18 DEF TypeFacts, ClearStamp, passVars
<1>19. CASE Wear \/ Reset \/ Replace
  BY <1>0, <1>19 DEF TypeFacts, Wear, Reset, Replace, passVars
<1>20. CASE Tick
  BY <1>0, <1>20, TickFields DEF TypeFacts, Tick, Less, worldVars
<1>21. CASE \E s \in Specs : Edit(s)
  BY <1>0, <1>21 DEF TypeFacts, Edit, passVars
<1>22. CASE \E n \in Ids : Answer(n) \/ Delete(n)
  BY <1>0, <1>22 DEF TypeFacts, Answer, Delete, passVars, worldVars
<1> QED
  BY <1>1, <1>2, <1>3, <1>4, <1>5, <1>6, <1>7, <1>8, <1>9, <1>10, <1>11, <1>12, <1>13,
     <1>14, <1>15, <1>16, <1>17, <1>18, <1>19, <1>20, <1>21, <1>22
     DEF Next, Pass, Inspect, StartSigning, Resolve, World

\* Time shortens the cooldown as it ages a request, and no stamp lands while there is one.
LEMMA AgeStep ==
  ASSUME HostKeyedTypeOK, RequestInv, AgeInv, Next
  PROVE  AgeInv'
<1>. USE HostKeyedAssumption DEF RequestInv, NoStrandedRequest, Asking, Named, AgeInv
<1>0. TypeFacts /\ WriteFacts
  BY TypesOfFields, WritesOfFields
<1>1. CASE Begin
  BY <1>0, <1>1 DEF TypeFacts, Begin
<1>2. CASE Misconfiguration
  BY <1>0, <1>2 DEF TypeFacts, WriteFacts, Fields, Misconfiguration, Inspecting, EndWith,
         worldVars
<1>3. CASE UpToDate
  BY <1>0, <1>3 DEF TypeFacts, WriteFacts, Fields, UpToDate, Inspecting, EndWith, worldVars
<1>4. CASE Refuse
  BY <1>0, <1>4 DEF TypeFacts, WriteFacts, Fields, Refuse, Inspecting, EndWith, worldVars
<1>5. CASE OpenRound
  BY <1>0, <1>5 DEF TypeFacts, OpenRound, Inspecting, worldVars
<1>6. CASE Stamp
  BY <1>0, <1>6 DEF TypeFacts, WriteFacts, Fields, Stamp, Strictly, Landed
<1>7. CASE GenerateCsr
  BY <1>0, <1>7 DEF TypeFacts, GenerateCsr, InUse
<1>8. CASE RecordName
  BY <1>0, <1>8 DEF TypeFacts, WriteFacts, Fields, RecordName, Strictly, worldVars
<1>9. CASE CreateRequest
  BY <1>0, <1>9 DEF TypeFacts, CreateRequest, GoTo, worldVars
<1>10. CASE RequestGone
  BY <1>0, <1>10 DEF TypeFacts, WriteFacts, Fields, RequestGone, Resolving, EndWith, worldVars
<1>11. CASE RequestFailed \/ RequestUnsigned \/ RequestSigned
  BY <1>0, <1>11 DEF TypeFacts, RequestFailed, RequestUnsigned, RequestSigned, Resolving,
         worldVars
<1>12. CASE RequestWaits
  BY <1>0, <1>12 DEF TypeFacts, WriteFacts, Fields, RequestWaits, Resolving, EndWith, worldVars
<1>13. CASE AlreadyInstalled \/ Import
  BY <1>0, <1>13 DEF TypeFacts, AlreadyInstalled, Import, Importing
<1>14. CASE DropRequest
  BY <1>0, <1>14 DEF TypeFacts, DropRequest, GoTo, worldVars
<1>15. CASE Report
  BY <1>0, <1>15 DEF TypeFacts, WriteFacts, Fields, Report, EndWith, worldVars
<1>16. CASE CallFails \/ Crash
  BY <1>0, <1>16 DEF TypeFacts, CallFails, Crash, GoTo, worldVars
<1>17. CASE Fail
  BY <1>0, <1>17 DEF TypeFacts, WriteFacts, Fields, Fail, EndWith, worldVars
<1>18. CASE ClearStamp
  BY <1>0, <1>18 DEF TypeFacts, ClearStamp, passVars
<1>19. CASE Wear \/ Reset \/ Replace
  BY <1>0, <1>19 DEF TypeFacts, Wear, Reset, Replace, passVars
<1>20. CASE Tick
  BY <1>0, <1>20, TickFields DEF TypeFacts, Tick, Less, worldVars
<1>21. CASE \E s \in Specs : Edit(s)
  BY <1>0, <1>21 DEF TypeFacts, Edit, passVars
<1>22. CASE \E n \in Ids : Answer(n) \/ Delete(n)
  BY <1>0, <1>22 DEF TypeFacts, Answer, Delete, passVars, worldVars
<1> QED
  BY <1>1, <1>2, <1>3, <1>4, <1>5, <1>6, <1>7, <1>8, <1>9, <1>10, <1>11, <1>12, <1>13,
     <1>14, <1>15, <1>16, <1>17, <1>18, <1>19, <1>20, <1>21, <1>22
     DEF Next, Pass, Inspect, StartSigning, Resolve, World

\* A repair stays not Ready through the passes that carry Ready over.
LEMMA ReadyStep ==
  ASSUME HostKeyedTypeOK, RequestInv, ReadyInv, Next
  PROVE  ReadyInv'
<1>. USE HostKeyedAssumption DEF RequestInv, NoStrandedRequest, Asking, Named, ReadyInv, RepairNotReady
<1>0. TypeFacts /\ WriteFacts
  BY TypesOfFields, WritesOfFields
<1>1. CASE Begin
  BY <1>0, <1>1 DEF TypeFacts, Begin
<1>2. CASE Misconfiguration
  BY <1>0, <1>2 DEF TypeFacts, WriteFacts, Fields, Misconfiguration, Inspecting, EndWith,
         worldVars
<1>3. CASE UpToDate
  BY <1>0, <1>3 DEF TypeFacts, WriteFacts, Fields, UpToDate, Inspecting, EndWith, worldVars
<1>4. CASE Refuse
  BY <1>0, <1>4 DEF TypeFacts, WriteFacts, Fields, Refuse, Inspecting, EndWith, worldVars
<1>5. CASE OpenRound
  BY <1>0, <1>5 DEF TypeFacts, OpenRound, Inspecting, worldVars
<1>6. CASE Stamp
  BY <1>0, <1>6 DEF TypeFacts, WriteFacts, Fields, Stamp, Strictly, Landed
<1>7. CASE GenerateCsr
  BY <1>0, <1>7 DEF TypeFacts, GenerateCsr, InUse
<1>8. CASE RecordName
  BY <1>0, <1>8 DEF TypeFacts, WriteFacts, Fields, RecordName, Strictly, worldVars
<1>9. CASE CreateRequest
  BY <1>0, <1>9 DEF TypeFacts, CreateRequest, GoTo, worldVars
<1>10. CASE RequestGone
  BY <1>0, <1>10 DEF TypeFacts, WriteFacts, Fields, RequestGone, Resolving, EndWith, worldVars
<1>11. CASE RequestFailed \/ RequestUnsigned \/ RequestSigned
  BY <1>0, <1>11 DEF TypeFacts, RequestFailed, RequestUnsigned, RequestSigned, Resolving,
         worldVars
<1>12. CASE RequestWaits
  BY <1>0, <1>12 DEF TypeFacts, WriteFacts, Fields, RequestWaits, Resolving, EndWith, worldVars
<1>13. CASE AlreadyInstalled \/ Import
  BY <1>0, <1>13 DEF TypeFacts, AlreadyInstalled, Import, Importing
<1>14. CASE DropRequest
  BY <1>0, <1>14 DEF TypeFacts, DropRequest, GoTo, worldVars
<1>15. CASE Report
  BY <1>0, <1>15 DEF TypeFacts, WriteFacts, Fields, Report, EndWith, worldVars
<1>16. CASE CallFails \/ Crash
  BY <1>0, <1>16 DEF TypeFacts, CallFails, Crash, GoTo, worldVars
<1>17. CASE Fail
  BY <1>0, <1>17 DEF TypeFacts, WriteFacts, Fields, Fail, EndWith, worldVars
<1>18. CASE ClearStamp
  BY <1>0, <1>18 DEF TypeFacts, ClearStamp, passVars
<1>19. CASE Wear \/ Reset \/ Replace
  BY <1>0, <1>19 DEF TypeFacts, Wear, Reset, Replace, passVars
<1>20. CASE Tick
  BY <1>0, <1>20, TickFields DEF TypeFacts, Tick, Less, worldVars
<1>21. CASE \E s \in Specs : Edit(s)
  BY <1>0, <1>21 DEF TypeFacts, Edit, passVars
<1>22. CASE \E n \in Ids : Answer(n) \/ Delete(n)
  BY <1>0, <1>22 DEF TypeFacts, Answer, Delete, passVars, worldVars
<1> QED
  BY <1>1, <1>2, <1>3, <1>4, <1>5, <1>6, <1>7, <1>8, <1>9, <1>10, <1>11, <1>12, <1>13,
     <1>14, <1>15, <1>16, <1>17, <1>18, <1>19, <1>20, <1>21, <1>22
     DEF Next, Pass, Inspect, StartSigning, Resolve, World

\* What excuses a round from the cooldown is not used up before its stamp lands.
LEMMA StampStep ==
  ASSUME HostKeyedTypeOK, StampInv, Next
  PROVE  StampInv'
<1>. USE HostKeyedAssumption DEF StampInv, SpecChanged, Renewing
<1>0. TypeFacts /\ WriteFacts
  BY TypesOfFields, WritesOfFields
<1>1. CASE Begin
  BY <1>0, <1>1 DEF TypeFacts, Begin
<1>2. CASE Misconfiguration
  BY <1>0, <1>2 DEF TypeFacts, WriteFacts, Fields, Misconfiguration, Inspecting, EndWith,
         worldVars
<1>3. CASE UpToDate
  BY <1>0, <1>3 DEF TypeFacts, WriteFacts, Fields, UpToDate, Inspecting, EndWith, worldVars
<1>4. CASE Refuse
  BY <1>0, <1>4 DEF TypeFacts, WriteFacts, Fields, Refuse, Inspecting, EndWith, worldVars
<1>5. CASE OpenRound
  BY <1>0, <1>5 DEF TypeFacts, OpenRound, Inspecting, worldVars
<1>6. CASE Stamp
  BY <1>0, <1>6 DEF TypeFacts, WriteFacts, Fields, Stamp, Strictly, Landed
<1>7. CASE GenerateCsr
  BY <1>0, <1>7 DEF TypeFacts, GenerateCsr, InUse
<1>8. CASE RecordName
  BY <1>0, <1>8 DEF TypeFacts, WriteFacts, Fields, RecordName, Strictly, worldVars
<1>9. CASE CreateRequest
  BY <1>0, <1>9 DEF TypeFacts, CreateRequest, GoTo, worldVars
<1>10. CASE RequestGone
  BY <1>0, <1>10 DEF TypeFacts, WriteFacts, Fields, RequestGone, Resolving, EndWith, worldVars
<1>11. CASE RequestFailed \/ RequestUnsigned \/ RequestSigned
  BY <1>0, <1>11 DEF TypeFacts, RequestFailed, RequestUnsigned, RequestSigned, Resolving,
         worldVars
<1>12. CASE RequestWaits
  BY <1>0, <1>12 DEF TypeFacts, WriteFacts, Fields, RequestWaits, Resolving, EndWith, worldVars
<1>13. CASE AlreadyInstalled \/ Import
  BY <1>0, <1>13 DEF TypeFacts, AlreadyInstalled, Import, Importing
<1>14. CASE DropRequest
  BY <1>0, <1>14 DEF TypeFacts, DropRequest, GoTo, worldVars
<1>15. CASE Report
  BY <1>0, <1>15 DEF TypeFacts, WriteFacts, Fields, Report, EndWith, worldVars
<1>16. CASE CallFails \/ Crash
  BY <1>0, <1>16 DEF TypeFacts, CallFails, Crash, GoTo, worldVars
<1>17. CASE Fail
  BY <1>0, <1>17 DEF TypeFacts, WriteFacts, Fields, Fail, EndWith, worldVars
<1>18. CASE ClearStamp
  BY <1>0, <1>18 DEF TypeFacts, ClearStamp, passVars
<1>19. CASE Wear \/ Reset \/ Replace
  BY <1>0, <1>19 DEF TypeFacts, Wear, Reset, Replace, passVars
<1>20. CASE Tick
  BY <1>0, <1>20, TickFields DEF TypeFacts, Tick, Less, worldVars
<1>21. CASE \E s \in Specs : Edit(s)
  BY <1>0, <1>21 DEF TypeFacts, Edit, passVars
<1>22. CASE \E n \in Ids : Answer(n) \/ Delete(n)
  BY <1>0, <1>22 DEF TypeFacts, Answer, Delete, passVars, worldVars
<1> QED
  BY <1>1, <1>2, <1>3, <1>4, <1>5, <1>6, <1>7, <1>8, <1>9, <1>10, <1>11, <1>12, <1>13,
     <1>14, <1>15, <1>16, <1>17, <1>18, <1>19, <1>20, <1>21, <1>22
     DEF Next, Pass, Inspect, StartSigning, Resolve, World

-----------------------------------------------------------------------------
(***************************************************************************)
(* The theorems.                                                           *)
(***************************************************************************)

\* The invariant holds of a new publication with a host in its factory state.
LEMMA InitInv == Init => HostKeyedInv
<1>. SUFFICES ASSUME Init PROVE HostKeyedInv
  OBVIOUS
<1>. USE HostKeyedAssumption DEF Init
<1>1. spec \in SpecField
  BY DEF SpecField
<1>2. status \in StatusField
  BY DEF StatusField
<1>3. HostKeyedTypeOK
  <2>1. pub \in [spec : SpecField, status : StatusField]
    BY <1>1, <1>2
  <2>2. /\ request \in [Ids -> Outstanding \cup {"none", "failed"}]
        /\ age \in [Ids -> 0 .. Timeout]
        /\ names \in [Ids -> Specs]
    BY <1>1 DEF SpecField
  <2>3. /\ host \in [key : Ids \cup {Factory}, loaded : Ids \cup {Factory},
                     serving : Ids \cup {Factory}, due : BOOLEAN]
        /\ past \in [stamped : BOOLEAN, repair : BOOLEAN, excused : BOOLEAN, known : BOOLEAN,
                     replaced : BOOLEAN]
    OBVIOUS
  <2>4. /\ at = "idle" /\ csr \in Ids \cup {NoId} /\ verdict = "none"
        /\ routine \in BOOLEAN
    OBVIOUS
  <2> QED
    BY <1>1, <1>2, <2>1, <2>2, <2>3, <2>4 DEF HostKeyedTypeOK
<1>4. RequestInv
  BY DEF RequestInv, NoStrandedRequest, Asking
<1>5. KeyInv
  BY DEF KeyInv, NoStrandedKey, Outstanding
<1>6. AgeInv
  BY DEF AgeInv
<1>7. ReadyInv
  BY DEF ReadyInv, RepairNotReady, Asking
<1>8. StampInv
  BY DEF StampInv, SpecChanged
<1> QED
  BY <1>3, <1>4, <1>5, <1>6, <1>7, <1>8 DEF HostKeyedInv

\* Every step keeps the invariant.
LEMMA StepInv == HostKeyedInv /\ [Next]_vars => HostKeyedInv'
<1>. SUFFICES ASSUME HostKeyedInv, [Next]_vars PROVE HostKeyedInv'
  OBVIOUS
<1>1. CASE Next
  <2>1. HostKeyedTypeOK'
    BY <1>1, StatusType, CopyType, WorldType, PassType
       DEF HostKeyedInv, HostKeyedTypeOK, WorldOK, PassOK
  <2> QED
    BY <1>1, <2>1, RequestStep, KeyStep, AgeStep, ReadyStep, StampStep DEF HostKeyedInv
<1>2. CASE UNCHANGED vars
  BY <1>2 DEF vars, HostKeyedInv, HostKeyedTypeOK, RequestInv, NoStrandedRequest, Named, KeyInv,
              NoStrandedKey, AgeInv, ReadyInv, RepairNotReady, StampInv, SpecChanged
<1> QED
  BY <1>1, <1>2

\* Wherever a pass fails or the process stops, what each place in the pass relies on holds
\* (the whole of _reconcile_host_keyed, reconcile.py:194-617).
THEOREM HostKeyedInvariant == Spec => []HostKeyedInv
BY InitInv, StepInv, PTL DEF Spec

\* Every variable keeps its type: statuses, requests, the host and the pass.
THEOREM HostKeyedTypes == Spec => []HostKeyedTypeOK
<1>1. HostKeyedInv => HostKeyedTypeOK
  BY DEF HostKeyedInv
<1> QED
  BY <1>1, HostKeyedInvariant, PTL

\* Every request there is, is the one the publication names (reconcile.py:600-604).
THEOREM RequestsNamed == Spec => []NoStrandedRequest
<1>1. HostKeyedInv => NoStrandedRequest
  BY DEF HostKeyedInv, RequestInv
<1> QED
  BY <1>1, HostKeyedInvariant, PTL

\* The host keeps the key of an outstanding request (reconcile.py:202-204).
THEOREM KeysKept == Spec => []NoStrandedKey
<1>1. HostKeyedInv => NoStrandedKey
  BY DEF HostKeyedInv, KeyInv
<1> QED
  BY <1>1, HostKeyedInvariant, PTL

\* A request given up has outlasted the cooldown of its round (reconcile.py:459-474).
THEOREM RequestsOutlastCooldowns == Spec => []GivenUpAfterCooldown
<1>1. HostKeyedInv => GivenUpAfterCooldown
  <2>. SUFFICES ASSUME HostKeyedInv, NEW n \in Ids, request[n] = "waiting", age[n] = Timeout
                PROVE  status.cooldown = 0
    BY DEF GivenUpAfterCooldown
  <2>1. status.cooldown + Timeout <= Timeout /\ status.cooldown \in 0 .. Cooldown
    BY TypesOfFields DEF HostKeyedInv, AgeInv, TypeFacts
  <2> QED
    BY <2>1, HostKeyedAssumption
<1> QED
  BY <1>1, HostKeyedInvariant, PTL

\* A host in need of repair is not Ready before its round has published
\* (reconcile.py:479-483).
THEOREM RepairsNotReady == Spec => []RepairNotReady
<1>1. HostKeyedInv => RepairNotReady
  BY DEF HostKeyedInv, ReadyInv
<1> QED
  BY <1>1, HostKeyedInvariant, PTL

\* Only generate_csr rotates the key, and a stamp landed before it (reconcile.py:583).
THEOREM RotationsRecorded == Spec => RotationRecorded
<1>1. HostKeyedInv /\ [Next]_vars => [host'.key \in Ids /\ host'.key # host.key => past.stamped]_vars
  <2>. SUFFICES ASSUME HostKeyedInv, Next, host'.key \in Ids, host'.key # host.key
                PROVE  past.stamped
    OBVIOUS
  <2>1. TypeFacts /\ StampInv
    BY TypesOfFields DEF HostKeyedInv
  <2>2. CASE UNCHANGED host.key
    BY <2>2
  <2>3. CASE GenerateCsr
    BY <2>1, <2>3 DEF GenerateCsr, StampInv
  <2>4. CASE AlreadyInstalled \/ Import \/ Wear \/ Reset
    BY <2>1, <2>4 DEF AlreadyInstalled, Import, Wear, Reset, TypeFacts
  <2>5. CASE Replace
    BY <2>5, HostKeyedAssumption DEF Replace
  <2> QED
    BY <2>2, <2>3, <2>4, <2>5
       DEF Next, Pass, Begin, Inspect, Misconfiguration, UpToDate, Refuse, OpenRound, Inspecting,
           StartSigning, Stamp, RecordName, CreateRequest, Resolve, RequestGone, Resolving,
           RequestFailed, RequestUnsigned, RequestWaits, RequestSigned, DropRequest, Report,
           CallFails, Fail, Crash, World, Edit, ClearStamp, Answer, Delete, Tick, worldVars
<1> QED
  BY <1>1, HostKeyedInvariant, PTL DEF Spec, RotationRecorded

\* A stamp lands only when the last cooldown is over or was excused
\* (reconcile.py:178-181).
THEOREM StampsThrottled == Spec => RoundsThrottled
<1>1. HostKeyedInv /\ [Next]_vars
        => [at = "stamp" /\ status' # status => status.cooldown = 0 \/ past.excused]_vars
  BY DEF HostKeyedInv, StampInv
<1> QED
  BY <1>1, HostKeyedInvariant, PTL DEF Spec, RoundsThrottled
=============================================================================
