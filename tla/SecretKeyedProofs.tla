-------------------------- MODULE SecretKeyedProofs --------------------------
(***************************************************************************)
(* Theorems about SecretKeyed, for any specs and any number of edits and   *)
(* renewals: what a pass that installed a certificate may report of the    *)
(* host, and that none puts an older certificate back.                     *)
(***************************************************************************)
EXTENDS SecretKeyed, FiniteSetTheorems, TLAPS

Installing == {"compare", "install", "key", "hook", "report"}

\* What the pass has read is no older than what the host has or was ever reported.
Fresh == at \in Installing => host.leaf <= leaf /\ status.published <= leaf

\* What each call of an install has done is still so, unless others undid it.
Whole == ~meddled =>
           /\ at \in {"key", "hook", "report"} => host.leaf = leaf
           /\ at \in {"hook", "report"} => host.mode = "certificate" \/ host.key = leaf
           /\ at = "report" => ~host.hooked \/ host.live = leaf

\* The inductive invariant.
SecretInv == SecretKeyedTypeOK /\ Fresh /\ Whole

-----------------------------------------------------------------------------
\* Leaves are numbered from 1.
LEMMA Numbered ==
  ASSUME NEW n \in Nat, NEW S, NEW f \in [1 .. n -> S]
  PROVE  Cardinality(DOMAIN f) = n
BY FS_Interval

LEMMA Constants == MaxEdits \in Nat /\ MaxRenewals \in Nat /\ MaxLeaf \in Nat
BY SecretKeyedAssumption DEF SecretKeyedAssumption, MaxLeaf

\* One Certificate, or none.
LEMMA OneCertificate == \A c \in Specs : {c} \subseteq Specs /\ Cardinality({c}) <= 1
<1> TAKE c \in Specs
<1>1. Cardinality({c}) = 1
  BY FS_Singleton
<1> QED
  BY <1>1

HostRecords(n) == [mode : Modes, hooked : BOOLEAN, leaf : 0 .. n, key : 0 .. n, live : 0 .. n]
StatusRecords(n) == [observed : 0 .. MaxEdits + 1, published : 0 .. n, ready : BOOLEAN]

\* The type invariant, the parts that most steps leave alone set apart.
LEMMA Types ==
  SecretKeyedTypeOK <=>
    /\ /\ spec \in [is : Specs, generation : 1 .. MaxEdits + 1]
       /\ certificate \subseteq Specs /\ Cardinality(certificate) <= 1
       /\ Latest \in 0 .. MaxLeaf
       /\ issued \in [1 .. Latest -> Names]
       /\ renewals \in 0 .. MaxRenewals
    /\ host \in HostRecords(Latest) /\ status \in StatusRecords(Latest)
    /\ /\ at \in {"idle", "certificate", "await", "secret", "compare", "install", "key", "hook",
                  "report", "fail"}
       /\ pub \in [is : Specs, generation : 1 .. spec.generation]
       /\ leaf \in 0 .. Latest
       /\ meddled \in BOOLEAN
BY DEF SecretKeyedTypeOK, HostRecords, StatusRecords

LEMMA InitInv == Init => SecretInv
<1> SUFFICES ASSUME Init PROVE SecretInv
  OBVIOUS
<1> USE Constants DEF Init
<1>1. issued \in [1 .. 0 -> Names]
  OBVIOUS
<1>2. Latest = 0
  BY <1>1, Numbered DEF Latest
<1>3. Cardinality(certificate) <= 1
  BY FS_EmptySet
<1>4. host \in HostRecords(Latest) /\ status \in StatusRecords(Latest)
  <2>1. PICK t \in Targets :
          host = [mode |-> t.mode, hooked |-> t.hooked, leaf |-> 0, key |-> 0, live |-> 0]
    OBVIOUS
  <2>2. t.mode \in Modes /\ t.hooked \in BOOLEAN
    BY SecretKeyedAssumption DEF SecretKeyedAssumption
  <2> QED
    BY <1>2, <2>1, <2>2 DEF HostRecords, StatusRecords
<1>5. spec \in [is : Specs, generation : 1 .. MaxEdits + 1]
      /\ pub \in [is : Specs, generation : 1 .. spec.generation]
  BY SecretKeyedAssumption DEF SecretKeyedAssumption
<1>6. SecretKeyedTypeOK
  <2>1. issued \in [1 .. Latest -> Names] /\ Latest \in 0 .. MaxLeaf
    BY <1>1, <1>2
  <2>2. certificate \subseteq Specs /\ renewals \in 0 .. MaxRenewals /\ leaf \in 0 .. Latest
        /\ at = "idle"
    BY <1>2
  <2>3. meddled \in BOOLEAN
    OBVIOUS
  <2> QED
    BY <1>3, <1>4, <1>5, <2>1, <2>2, <2>3, Types
<1> QED
  BY <1>6 DEF SecretInv, Fresh, Whole, Installing

\* A pass that ends, however it does, leaves a status that is no newer than what it read.
LEMMA EndInv ==
  ASSUME SecretInv, UNCHANGED <<apiVars, host>>, Over,
         \/ status' \in {status, Waiting}
         \/ status' \in {status, Published}
  PROVE  SecretInv'
<1> USE Constants DEF SecretInv, apiVars, Over
<1>1. Latest' = Latest
  BY DEF Latest
<1>2. status' \in StatusRecords(Latest)
  <2>1. pub.generation \in 0 .. MaxEdits + 1 /\ leaf \in 0 .. Latest /\ status \in StatusRecords(Latest)
    <3>1. spec.generation \in 1 .. MaxEdits + 1 /\ pub.generation \in 1 .. spec.generation
      BY Types
    <3> QED
      BY <3>1, Types
  <2>2. Waiting \in StatusRecords(Latest) /\ Published \in StatusRecords(Latest)
    BY <2>1 DEF Waiting, Published, StatusRecords
  <2> QED
    BY <2>1, <2>2
<1>3. SecretKeyedTypeOK'
  <2>1. /\ spec' = spec /\ certificate' = certificate /\ issued' = issued /\ renewals' = renewals
        /\ host' = host /\ pub' = pub /\ at' = "idle" /\ leaf' = 0 /\ meddled' = FALSE
    OBVIOUS
  <2>2. leaf' \in 0 .. Latest
    BY <2>1, Types
  <2>3. meddled' \in BOOLEAN
    BY <2>1
  <2> QED
    BY <1>1, <1>2, <2>1, <2>2, <2>3, Types DEF SecretKeyedTypeOK, HostRecords, StatusRecords
<1> QED
  BY <1>3 DEF Fresh, Whole, Installing

\* The steps up to the comparison, and the ways a pass ends.
LEMMA PreparationInv ==
  ASSUME SecretInv,
         \/ Begin \/ CreateCertificate \/ PatchCertificate \/ Await \/ Settled \/ NotIssued
         \/ ReadSecret \/ UpToDate \/ Outdated \/ Unreadable \/ Report \/ Fail \/ CallFails \/ Crash
  PROVE  SecretInv'
<1> USE Constants DEF SecretInv, apiVars, GoTo
<1>1. CASE Begin
  <2>1. Latest' = Latest
    BY <1>1 DEF Begin, Latest
  <2> QED
    BY <1>1, <2>1 DEF Begin, SecretKeyedTypeOK, Fresh, Whole, Installing
<1>2. CASE CreateCertificate \/ PatchCertificate
  <2>1. UNCHANGED <<spec, issued, renewals, host, status, pub, leaf, meddled>>
        /\ at' \in {"await", "fail"} /\ Latest' = Latest
    BY <1>2 DEF CreateCertificate, PatchCertificate, Latest
  <2>2. certificate' \subseteq Specs /\ Cardinality(certificate') <= 1
    <3>1. pub.is \in Specs
      BY DEF SecretKeyedTypeOK
    <3>2. \A c \in certificate : Merged(c, pub.is) \in Specs
      BY <3>1 DEF SecretKeyedTypeOK, Merged, Specs
    <3> QED
      BY <1>2, <3>1, <3>2, OneCertificate DEF CreateCertificate, PatchCertificate
  <2>3. SecretKeyedTypeOK'
    BY <2>1, <2>2 DEF SecretKeyedTypeOK
  <2> QED
    BY <2>1, <2>3 DEF Fresh, Whole, Installing
<1>3. CASE Settled \/ Outdated \/ Unreadable \/ CallFails
  <2>1. UNCHANGED <<apiVars, host, status, pub, leaf, meddled>> /\ at' \in {"secret", "install", "fail"}
        /\ (at' = "install" => at = "compare")
    BY <1>3 DEF Settled, Outdated, Unreadable, CallFails
  <2>2. Latest' = Latest
    BY <2>1 DEF Latest
  <2> QED
    BY <2>1, <2>2 DEF SecretKeyedTypeOK, Fresh, Whole, Installing
<1>4. CASE ReadSecret
  <2>1. UNCHANGED <<apiVars, host, status, pub, meddled>> /\ at' = "compare" /\ leaf' = Latest
        /\ Latest' = Latest
    BY <1>4 DEF ReadSecret, Latest
  <2> QED
    BY <2>1 DEF SecretKeyedTypeOK, Fresh, Whole, Installing
<1>5. CASE Await \/ NotIssued \/ Fail
  BY <1>5, EndInv DEF Await, NotIssued, Fail, EndWith
<1>6. CASE UpToDate \/ Report
  BY <1>6, EndInv DEF UpToDate, Report, EndWith
<1>7. CASE Crash
  BY <1>7, EndInv DEF Crash
<1> QED
  BY <1>1, <1>2, <1>3, <1>4, <1>5, <1>6, <1>7

\* The calls that change the host.
LEMMA InstallInv ==
  ASSUME SecretInv, Install
  PROVE  SecretInv'
<1> USE Constants DEF SecretInv, apiVars, GoTo, Leaving
<1>1. UNCHANGED <<apiVars, status, pub, leaf, meddled>> /\ Latest' = Latest
  BY DEF Install, ImportPfx, WriteCert, WriteKey, CutShort, RunHook, Latest
<1>2. at' \in {"key", "hook", "report", "fail"}
  BY DEF Install, ImportPfx, WriteCert, WriteKey, CutShort, RunHook, Hook
<1>3. host' \in HostRecords(Latest)
  <2>1. host \in HostRecords(Latest) /\ leaf \in 0 .. Latest /\ 0 \in 0 .. Latest
    BY Types
  <2>2. CASE ImportPfx
    BY <2>1, <2>2 DEF ImportPfx, HostRecords
  <2>3. CASE WriteCert
    BY <2>1, <2>3 DEF WriteCert, HostRecords
  <2>4. CASE WriteKey
    BY <2>1, <2>4 DEF WriteKey, HostRecords
  <2>5. CASE CutShort
    BY <2>1, <2>5 DEF CutShort, HostRecords
  <2>6. CASE RunHook
    BY <2>1, <2>6 DEF RunHook, HostRecords
  <2> QED
    BY <2>2, <2>3, <2>4, <2>5, <2>6 DEF Install
<1>4. SecretKeyedTypeOK'
  BY <1>1, <1>2, <1>3 DEF SecretKeyedTypeOK, HostRecords
<1>5. Fresh'
  <2>1. host'.leaf \in {0, leaf, host.leaf} /\ at \in Installing
    BY DEF Install, ImportPfx, WriteCert, WriteKey, CutShort, RunHook, SecretKeyedTypeOK, Installing
  <2> QED
    BY <1>1, <2>1 DEF Fresh, SecretKeyedTypeOK
<1>6. Whole'
  <2>1. CASE ImportPfx
    BY <1>1, <2>1 DEF ImportPfx, Hook, SecretKeyedTypeOK, Whole
  <2>2. CASE WriteCert
    BY <1>1, <2>2 DEF WriteCert, Hook, Modes, SecretKeyedTypeOK, Whole
  <2>3. CASE WriteKey
    BY <1>1, <2>3 DEF WriteKey, Hook, SecretKeyedTypeOK, Whole
  <2>4. CASE CutShort
    BY <2>4 DEF CutShort, Whole
  <2>5. CASE RunHook
    BY <1>1, <2>5 DEF RunHook, SecretKeyedTypeOK, Whole
  <2> QED
    BY <2>1, <2>2, <2>3, <2>4, <2>5 DEF Install
<1> QED
  BY <1>4, <1>5, <1>6

\* What operators, cert-manager and others do.
LEMMA OthersInv ==
  ASSUME SecretInv, (\E s \in Specs : Edit(s)) \/ Issue \/ Meddle
  PROVE  SecretInv'
<1> USE Constants DEF SecretInv, apiVars
<1>1. CASE \E s \in Specs : Edit(s)
  <2>1. Latest' = Latest
    BY <1>1 DEF Edit, Latest
  <2> QED
    BY <1>1, <2>1 DEF Edit, SecretKeyedTypeOK, Fresh, Whole, Installing
<1>2. CASE Issue
  <2>1. PICK c \in certificate :
          issued' = [n \in 1 .. Latest + 1 |-> IF n > Latest THEN c.names ELSE issued[n]]
    BY <1>2 DEF Issue
  <2>2. c.names \in Names
    BY DEF SecretKeyedTypeOK, Specs
  <2>3. Latest \in Nat /\ Latest < MaxLeaf
    BY <1>2 DEF Issue, SecretKeyedTypeOK
  <2>4. issued' \in [1 .. Latest + 1 -> Names]
    BY <2>1, <2>2, <2>3 DEF SecretKeyedTypeOK
  <2>5. Latest' = Latest + 1
    BY <2>3, <2>4, Numbered DEF Latest
  <2>6. renewals' \in 0 .. MaxRenewals
    BY <1>2 DEF Issue, SecretKeyedTypeOK
  <2>7. UNCHANGED <<spec, certificate, host, status, at, pub, leaf, meddled>>
    BY <1>2 DEF Issue
  <2>8. SecretKeyedTypeOK'
    BY <2>3, <2>4, <2>5, <2>6, <2>7 DEF SecretKeyedTypeOK
  <2> QED
    BY <2>7, <2>8 DEF Fresh, Whole
<1>3. CASE Meddle
  <2>1. PICK n \in {0, status.published} :
          host' = [host EXCEPT !.leaf = n,
                               !.key = IF host.mode = "certificate" THEN @ ELSE n,
                               !.live = IF host.hooked THEN n ELSE @]
    BY <1>3 DEF Meddle
  <2>2. UNCHANGED <<apiVars, status, at, pub, leaf>> /\ meddled' = (at # "idle") /\ Latest' = Latest
    BY <1>3 DEF Meddle, Latest
  <2>3. SecretKeyedTypeOK'
    <3>1. n \in 0 .. Latest /\ host \in HostRecords(Latest)
      BY Types DEF StatusRecords
    <3>2. host' \in HostRecords(Latest)
      BY <2>1, <3>1 DEF HostRecords
    <3>3. meddled' \in BOOLEAN
      BY <2>2
    <3> QED
      BY <2>2, <3>2, <3>3 DEF SecretKeyedTypeOK, HostRecords
  <2>4. Fresh'
    BY <2>1, <2>2 DEF Fresh, SecretKeyedTypeOK, Installing
  <2>5. Whole'
    BY <2>2 DEF Whole
  <2> QED
    BY <2>3, <2>4, <2>5
<1> QED
  BY <1>1, <1>2, <1>3

LEMMA StepInv == SecretInv /\ [Next]_vars => SecretInv'
<1> SUFFICES ASSUME SecretInv, [Next]_vars PROVE SecretInv'
  OBVIOUS
<1>1. CASE UNCHANGED vars
  BY <1>1 DEF vars, SecretInv, SecretKeyedTypeOK, Fresh, Whole, Latest
<1> QED
  BY <1>1, PreparationInv, InstallInv, OthersInv DEF Next, Pass

\* What every theorem below rests on.
THEOREM SecretKeyedInvariant == Spec => []SecretInv
<1>1. Init => SecretInv
  BY InitInv
<1>2. SecretInv /\ [Next]_vars => SecretInv'
  BY StepInv
<1> QED
  BY <1>1, <1>2, PTL DEF Spec

\* Through edits, renewals, failures, crashes and meddling the variables keep their
\* types.
THEOREM SecretKeyedTypes == Spec => []SecretKeyedTypeOK
<1>1. SecretInv => SecretKeyedTypeOK
  BY DEF SecretInv
<1> QED
  BY <1>1, SecretKeyedInvariant, PTL

\* What an install reports as published is on the host, with its key where the publication
\* writes one, and in use where it has a hook, unless others changed the host meanwhile
\* (ssh.py:156-174, winrm.py:464-508).
THEOREM ReportsWhole == Spec => []ReportedWhole
<1>1. SecretInv => ReportedWhole
  BY DEF SecretInv, Whole, ReportedWhole, Installed
<1> QED
  BY <1>1, SecretKeyedInvariant, PTL

\* No pass puts an older certificate back (reconcile.py:141-166).
THEOREM NeverBack == Spec => NoBackslide
<1>1. SecretInv /\ Next => (Pass /\ host'.leaf # 0 => host'.leaf >= host.leaf)
  <2> SUFFICES ASSUME SecretInv, Pass, host'.leaf # 0 PROVE host'.leaf >= host.leaf
    OBVIOUS
  <2>1. CASE Install
    <3>1. host'.leaf \in {0, leaf, host.leaf} /\ at \in Installing
      BY <2>1 DEF Install, ImportPfx, WriteCert, WriteKey, CutShort, RunHook, Leaving, SecretInv,
                  SecretKeyedTypeOK, Installing
    <3> QED
      BY <3>1 DEF SecretInv, Fresh, SecretKeyedTypeOK
  <2>2. CASE host' = host
    BY <2>2 DEF SecretInv, SecretKeyedTypeOK
  <2> QED
    BY <2>1, <2>2 DEF Pass, Begin, CreateCertificate, PatchCertificate, Await, Settled, NotIssued,
                      ReadSecret, UpToDate, Outdated, Unreadable, Report, Fail
<1> QED
  BY <1>1, SecretKeyedInvariant, PTL DEF Spec, NoBackslide
=============================================================================
