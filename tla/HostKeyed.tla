------------------------------ MODULE HostKeyed ------------------------------
(***************************************************************************)
(* A host that owns its key (iDRAC): the signing round of reconcile.py for *)
(* one publication.  A round stamps lastSigningTime, has the host rotate   *)
(* its key and emit a CSR, records and creates a CertificateRequest, waits *)
(* for it to be signed, imports the certificate and records it.  Every API *)
(* or host call is an action that may fail before or after its effect; the *)
(* process may crash between any two.  The work queue runs at most one     *)
(* pass at a time (WorkQueue, Serialised), whenever Controller says.       *)
(*                                                                         *)
(* A key, the CSR for it, the request for that CSR and the certificate     *)
(* signed for it have one identity.  An identity nothing refers to any     *)
(* more is reused for the next key.  Times are what is left of them: Tick  *)
(* is the passing of one unit.                                             *)
(***************************************************************************)
EXTENDS Naturals, FiniteSets

CONSTANTS Ids,           \* identities of keys
          Factory,       \* the host's own key and certificate
          NoId,
          Specs,         \* contents of .spec, told apart by their dnsNames
          Misconfigured, \* those whose renewBefore no certificate can satisfy
          Cooldown,      \* _SIGNING_COOLDOWN
          Timeout,       \* _REQUEST_TIMEOUT
          Meddling,      \* whether others delete requests or return the host to its
                         \* factory state
          MaxEdits       \* bound: edits of .spec

ASSUME HostKeyedAssumption ==
  /\ Factory \notin Ids /\ NoId \notin Ids /\ Factory # NoId
  /\ Misconfigured \subseteq Specs
  /\ Cooldown \in Nat \ {0}
  /\ Timeout \in Nat /\ Timeout >= Cooldown
  /\ Meddling \in BOOLEAN
  /\ MaxEdits \in Nat

VARIABLES
  spec,     \* .spec, with its .metadata.generation
  status,   \* .status: pendingRequestName, the cooldown left of lastSigningTime (0 when
            \* absent), publishedFingerprint, observedGeneration and the Ready condition
  request,  \* state of each CertificateRequest
  age,      \* its age, up to Timeout
  names,    \* the spec whose names each key's CSR carries
  host,     \* the host's key, the certificate it will serve after its next reset, the
            \* one it serves, and whether that is due for renewal
  at,       \* what the pass does next
  pub,      \* the publication as the pass read it
  csr,      \* the key whose CSR the pass holds
  routine,  \* whether the pass opened a round for a routine renewal
  verdict,  \* what the pass found out about the pending request
  past      \* history, which no action of the code reads: whether a stamp landed since
            \* the last rotation, and opened a repair; whether the spec was edited or the
            \* stamp cleared since the pass that wrote the last stamp began, and whether
            \* this pass began after that; whether the host lost the last key rotated

vars == <<spec, status, request, age, names, host, at, pub, csr, routine, verdict, past>>

worldVars == <<spec, names, host, past>>
passVars == <<at, pub, csr, routine, verdict>>

Outstanding == {"waiting", "signed", "unfit"}

Init == /\ spec \in [is : Specs, generation : {1}]
        /\ status = [pending |-> NoId, cooldown |-> 0, published |-> NoId,
                     observed |-> 0, ready |-> FALSE]
        /\ request = [n \in Ids |-> "none"]
        /\ age = [n \in Ids |-> 0]
        /\ names = [n \in Ids |-> spec.is]
        /\ host = [key |-> Factory, loaded |-> Factory, serving |-> Factory, due |-> FALSE]
        /\ at = "idle"
        /\ pub = [spec |-> spec, status |-> status]
        /\ csr = NoId /\ routine = FALSE /\ verdict = "none"
        /\ past = [stamped |-> FALSE, repair |-> FALSE, excused |-> FALSE, known |-> FALSE,
                   replaced |-> FALSE]

-----------------------------------------------------------------------------
(* set_status: every write carries the generation the pass read. *)

GoTo(s) == at' = s /\ UNCHANGED <<pub, csr, routine, verdict>>

\* The fields of .status a write changes, beside the generation.
Observed(s, ready) == [s EXCEPT !.observed = pub.spec.generation, !.ready = ready]
Cleared(s, ready) == [Observed(s, ready) EXCEPT !.pending = NoId]

\* A pass ends with a best-effort write, which may be lost.
EndWith(new) == /\ status' \in {status, new}
                /\ at' = "idle"
                /\ UNCHANGED <<pub, csr, routine, verdict>>

\* A strict write raises when it fails, and may have landed nevertheless.
Strictly(new, next) == \/ status' = new /\ at' = next
                       \/ status' \in {status, new} /\ at' = "fail"

-----------------------------------------------------------------------------
(* The pass: _reconcile_host_keyed. *)

\* (Operators named Faulty... are bugs this code could have; they are part of no
\* specification and show that the properties would find them.)
\* A pass looks at the host first, whether or not a request is pending.
FaultyBegin == /\ at = "idle"
               /\ pub' = [spec |-> spec, status |-> status]
               /\ at' = "inspect"
               /\ csr' = NoId /\ routine' = FALSE /\ verdict' = "none"
               /\ past' = [past EXCEPT !.known = past.excused]
               /\ UNCHANGED <<spec, names, host, status, request, age>>

Begin == /\ at = "idle"
         /\ pub' = [spec |-> spec, status |-> status]
         /\ at' = IF status.pending # NoId THEN "resolve" ELSE "inspect"
         /\ csr' = NoId /\ routine' = FALSE /\ verdict' = "none"
         /\ past' = [past EXCEPT !.known = past.excused]
         /\ UNCHANGED <<spec, names, host, status, request, age>>

\* _renewal_reason
Routine == /\ host.serving = pub.status.published
           /\ names[host.serving] = pub.spec.is
           /\ host.due
InForce == /\ host.serving = pub.status.published
           /\ names[host.serving] = pub.spec.is
           /\ ~host.due

SpecChanged == pub.status.observed \notin {0, pub.spec.generation}

Inspecting == at = "inspect" /\ UNCHANGED <<worldVars, request, age>>

Misconfiguration == /\ Inspecting
                    /\ pub.spec.is \in Misconfigured
                    /\ EndWith(Observed(status, FALSE))

Confirmed == [Observed(status, TRUE) EXCEPT !.published = host.serving]

UpToDate == /\ Inspecting
            /\ pub.spec.is \notin Misconfigured
            /\ InForce
            /\ EndWith(Confirmed)

Renewing == pub.spec.is \notin Misconfigured /\ ~InForce

Refuse == /\ Inspecting
          /\ Renewing
          /\ ~SpecChanged /\ pub.status.cooldown > 0
          /\ EndWith(Observed(status, FALSE))

\* The cooldown is not looked at.
FaultyOpenRound == /\ Inspecting
                   /\ Renewing
                   /\ at' = "stamp" /\ routine' = Routine
                   /\ UNCHANGED <<status, pub, csr, verdict>>

OpenRound == /\ Inspecting
             /\ Renewing
             /\ SpecChanged \/ pub.status.cooldown = 0
             /\ at' = "stamp" /\ routine' = Routine
             /\ UNCHANGED <<status, pub, csr, verdict>>

-----------------------------------------------------------------------------
(* _start_signing *)

Stamped == [Observed(status, routine) EXCEPT !.cooldown = Cooldown]

\* A stamp that lands opens a round: whatever excused it is used up, unless the spec was
\* edited again since the pass read it.
Landed == IF status' = Stamped
          THEN [past EXCEPT !.stamped = TRUE, !.repair = ~routine,
                            !.excused = pub.spec.generation # spec.generation]
          ELSE past

\* The stamp is best-effort.
FaultyStamp == /\ at = "stamp"
               /\ status' \in {status, Stamped}
               /\ at' = "csr"
               /\ past' = Landed
               /\ UNCHANGED <<spec, names, host, request, age, pub, csr, routine, verdict>>

Stamp == /\ at = "stamp"
         /\ Strictly(Stamped, "csr")
         /\ past' = Landed
         /\ UNCHANGED <<spec, names, host, request, age, pub, csr, routine, verdict>>

InUse == {host.key, host.loaded, host.serving, status.pending, status.published}
           \cup {n \in Ids : request[n] # "none"}

\* generate_csr rotates the host's key; its answer may be lost.
GenerateCsr ==
  /\ at = "csr"
  /\ \E n \in Ids \ InUse :
       /\ host' = [host EXCEPT !.key = n]
       /\ names' = [names EXCEPT ![n] = pub.spec.is]
       /\ past' = [past EXCEPT !.stamped = FALSE, !.replaced = FALSE]
       /\ \/ at' = "name" /\ csr' = n
          \/ at' = "fail" /\ UNCHANGED csr
  /\ UNCHANGED <<spec, status, request, age, pub, routine, verdict>>

Recorded == [Observed(status, routine) EXCEPT !.pending = csr]

\* The request's name is recorded best-effort.
FaultyRecordName == /\ at = "name"
                    /\ status' \in {status, Recorded}
                    /\ at' = "create"
                    /\ UNCHANGED <<worldVars, request, age, pub, csr, routine, verdict>>

RecordName == /\ at = "name"
              /\ Strictly(Recorded, "create")
              /\ UNCHANGED <<worldVars, request, age, pub, csr, routine, verdict>>

CreateRequest == /\ at = "create"
                 /\ request' = [request EXCEPT ![csr] = "waiting"]
                 /\ age' = [age EXCEPT ![csr] = 0]
                 /\ \E s \in {"idle", "fail"} : GoTo(s)
                 /\ UNCHANGED <<worldVars, status>>

-----------------------------------------------------------------------------
(* _resolve_pending_request *)

Named == pub.status.pending

Resolving(s) == at = "resolve" /\ request[Named] = s /\ UNCHANGED <<worldVars, request, age>>

\* _restart_signing
RequestGone == /\ Resolving("none")
               /\ EndWith(Cleared(status, pub.status.ready))

RequestFailed == /\ Resolving("failed")
                 /\ at' = "drop" /\ verdict' = "failed"
                 /\ UNCHANGED <<status, pub, csr, routine>>

RequestUnsigned == /\ Resolving("waiting")
                   /\ age[Named] = Timeout
                   /\ at' = "drop" /\ verdict' = "unsigned"
                   /\ UNCHANGED <<status, pub, csr, routine>>

\* Each look at a request that waits stamps lastSigningTime again.
FaultyRequestWaits == /\ Resolving("waiting")
                      /\ EndWith([Observed(status, pub.status.ready) EXCEPT !.cooldown = Cooldown])

\* A request that waits is taken for a routine renewal.
FaultyRequestWaitsReady == /\ Resolving("waiting")
                           /\ EndWith(Observed(status, TRUE))

RequestWaits == /\ Resolving("waiting")
                /\ EndWith(Observed(status, pub.status.ready))

\* _unusable_signed_certificate
Usable == request[Named] = "signed" /\ names[Named] = pub.spec.is

RequestSigned == /\ \E s \in {"signed", "unfit"} : Resolving(s)
                 /\ \/ Usable /\ at' = "import" /\ UNCHANGED verdict
                    \/ ~Usable /\ at' = "drop" /\ verdict' = "unusable"
                 /\ UNCHANGED <<status, pub, csr, routine>>

Importing == at = "import" /\ UNCHANGED <<spec, names, past, status, request, age, pub, csr, routine>>

AlreadyInstalled == /\ Importing
                    /\ host.serving = Named
                    /\ at' = "drop" /\ verdict' = "published"
                    /\ UNCHANGED host

\* import_certificate takes a certificate for the host's key only, and the host serves
\* it once it is reset, which may be disabled or come later.  The host's certificate may
\* not have been readable before, and either call's answer may be lost.
Import == /\ Importing
          /\ host.key = Named
          /\ \/ host' = [host EXCEPT !.loaded = Named, !.serving = Named, !.due = FALSE]
             \/ host' = [host EXCEPT !.loaded = Named]
          /\ \/ at' = "drop" /\ verdict' = "published"
             \/ at' = "fail" /\ UNCHANGED verdict

DropRequest == /\ at = "drop"
               /\ request' = [request EXCEPT ![Named] = "none"]
               /\ age' = [age EXCEPT ![Named] = 0]
               /\ \E s \in {"report", "fail"} : GoTo(s)
               /\ UNCHANGED <<worldVars, status>>

Reported == CASE verdict = "published" -> [Cleared(status, TRUE) EXCEPT !.published = Named]
              [] verdict = "failed" -> Cleared(status, pub.status.ready)
              [] OTHER -> Cleared(status, FALSE)

\* The write that ends the pass, after the request is deleted.
Report == /\ at = "report"
          /\ EndWith(Reported)
          /\ UNCHANGED <<worldVars, request, age>>

-----------------------------------------------------------------------------
(* Controller._reconcile and _fail: any call of the pass may raise. *)

CallFails == /\ at \in {"inspect", "csr", "resolve", "create", "import", "drop"}
             /\ GoTo("fail")
             /\ UNCHANGED <<worldVars, status, request, age>>

Fail == /\ at = "fail"
        /\ EndWith(Observed(status, FALSE))
        /\ UNCHANGED <<worldVars, request, age>>

Crash == /\ at # "idle"
         /\ GoTo("idle")
         /\ UNCHANGED <<worldVars, status, request, age>>

-----------------------------------------------------------------------------
(* Operators, cert-manager, the host and time. *)

Edit(s) == /\ spec.generation <= MaxEdits
           /\ spec' = [is |-> s, generation |-> spec.generation + 1]
           /\ past' = [past EXCEPT !.excused = TRUE]
           /\ UNCHANGED <<passVars, status, request, age, names, host>>

\* The documented way to skip the cooldown.
ClearStamp == /\ status.cooldown > 0
              /\ status' = [status EXCEPT !.cooldown = 0]
              /\ past' = [past EXCEPT !.excused = TRUE]
              /\ UNCHANGED <<passVars, spec, request, age, names, host>>

\* cert-manager signs the request, with the names of its CSR or without some of them,
\* or turns it down; or someone deletes the request.
Answer(n) == /\ request[n] = "waiting"
             /\ \E s \in {"signed", "unfit", "failed"} : request' = [request EXCEPT ![n] = s]
             /\ age' = [age EXCEPT ![n] = 0]
             /\ UNCHANGED <<passVars, worldVars, status>>

Delete(n) == /\ Meddling
             /\ request[n] # "none"
             /\ request' = [request EXCEPT ![n] = "none"]
             /\ age' = [age EXCEPT ![n] = 0]
             /\ UNCHANGED <<passVars, worldVars, status>>

Wear == /\ host.serving # Factory /\ ~host.due
        /\ host' = [host EXCEPT !.due = TRUE]
        /\ UNCHANGED <<passVars, spec, names, past, status, request, age>>

\* A reset of the host by anyone, which applies an imported certificate.
Reset == /\ host.serving # host.loaded
         /\ host' = [host EXCEPT !.serving = host.loaded, !.due = FALSE]
         /\ UNCHANGED <<passVars, spec, names, past, status, request, age>>

\* The host is returned to its factory state.
Replace == /\ Meddling
           /\ host.serving # Factory \/ host.key # Factory
           /\ host' = [key |-> Factory, loaded |-> Factory, serving |-> Factory, due |-> FALSE]
           /\ past' = [past EXCEPT !.replaced = TRUE]
           /\ UNCHANGED <<passVars, spec, names, status, request, age>>

\* A time in the past stays there.
FaultyLess(t) == t - 1

Less(t) == IF t = 0 THEN 0 ELSE t - 1

Tick == /\ status' = [status EXCEPT !.cooldown = Less(@)]
        /\ pub' = [pub EXCEPT !.status.cooldown = Less(@)]
        /\ age' = [n \in Ids |-> IF request[n] = "waiting" /\ age[n] < Timeout
                                 THEN age[n] + 1 ELSE age[n]]
        /\ UNCHANGED <<worldVars, request, at, csr, routine, verdict>>

-----------------------------------------------------------------------------
StartSigning == Stamp \/ GenerateCsr \/ RecordName \/ CreateRequest
Inspect == Misconfiguration \/ UpToDate \/ Refuse \/ OpenRound
Resolve == \/ RequestGone \/ RequestFailed \/ RequestUnsigned \/ RequestWaits \/ RequestSigned
           \/ AlreadyInstalled \/ Import \/ DropRequest \/ Report

Pass == Begin \/ Inspect \/ StartSigning \/ Resolve \/ Fail

World == \/ \E s \in Specs : Edit(s)
         \/ ClearStamp \/ Wear \/ Reset \/ Replace
         \/ \E n \in Ids : Answer(n) \/ Delete(n)

Next == Pass \/ CallFails \/ Crash \/ World \/ Tick

Spec == Init /\ [][Next]_vars

-----------------------------------------------------------------------------
SpecField == [is : Specs, generation : 1 .. MaxEdits + 1]
StatusField == [pending : Ids \cup {NoId}, cooldown : 0 .. Cooldown,
                published : Ids \cup {NoId}, observed : 0 .. MaxEdits + 1, ready : BOOLEAN]

HostKeyedTypeOK ==
  /\ spec \in SpecField /\ status \in StatusField
  /\ pub \in [spec : SpecField, status : StatusField]
  /\ request \in [Ids -> Outstanding \cup {"none", "failed"}]
  /\ age \in [Ids -> 0 .. Timeout]
  /\ names \in [Ids -> Specs]
  /\ host \in [key : Ids \cup {Factory}, loaded : Ids \cup {Factory},
               serving : Ids \cup {Factory}, due : BOOLEAN]
  /\ at \in {"idle", "inspect", "resolve", "stamp", "csr", "name", "create", "import",
             "drop", "report", "fail"}
  /\ csr \in Ids \cup {NoId}
  /\ verdict \in {"none", "failed", "unsigned", "unusable", "published"}
  /\ routine \in BOOLEAN
  /\ past \in [stamped : BOOLEAN, repair : BOOLEAN, excused : BOOLEAN, known : BOOLEAN,
               replaced : BOOLEAN]

\* "Never rotate a host's key without having recorded that we were about to"
\* (reconcile.py:583): a stamp landed before every rotation, one for each, whatever
\* writes fail and wherever the process crashes.
RotationRecorded ==
  [][host'.key \in Ids /\ host'.key # host.key => past.stamped]_vars

\* A round that does not converge is throttled (reconcile.py:178-181): a stamp lands only
\* when the cooldown of the last one is over, or the spec was edited or the stamp cleared
\* since the pass that wrote it began.
RoundsThrottled ==
  [][at = "stamp" /\ status' # status => status.cooldown = 0 \/ past.excused]_vars

\* No request is stranded (reconcile.py:600-604): every request there is, is the one the
\* publication names, so a later pass will look it up.
NoStrandedRequest == \A n \in Ids : request[n] # "none" => status.pending = n

\* No CSR is stranded (reconcile.py:202-204): while a request is outstanding the host
\* still has the key it is for, unless someone else took it away.
NoStrandedKey ==
  \A n \in Ids : request[n] \in Outstanding => host.key = n \/ past.replaced

\* A request is given up only when the next round may open (reconcile.py:459-474 promises
\* a new request in five seconds): its age outlasts the cooldown of its round.
GivenUpAfterCooldown ==
  \A n \in Ids : request[n] = "waiting" /\ age[n] = Timeout => status.cooldown = 0

\* A publication whose host needs repair is not Ready until its round has published
\* (reconcile.py:479-483), whatever the passes in between carry over.
RepairNotReady == past.repair /\ status.pending # NoId => ~status.ready

-----------------------------------------------------------------------------
(* What the repository says, and the code does not quite do. *)

Sound == host.serving \in Ids /\ names[host.serving] = pub.spec.is /\ ~host.due

\* "A crash between import and status must not cause a second BMC reset"
\* (tests/test_idrac8.py:1111): no round opens while the host serves a sound certificate.
NoSecondReset == [][OpenRound => ~Sound]_vars

\* "An operator fixing the spec shouldn't have to wait out a retry limit"
\* (tests/test_idrac8.py:1365): a pass that began after an edit no round has opened for
\* does not refuse to open one.
EditNotThrottled == [][Refuse => ~past.known]_vars
=============================================================================
