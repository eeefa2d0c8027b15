----------------------------- MODULE SecretKeyed -----------------------------
(***************************************************************************)
(* cert-manager owns the key (ssh, winrm): _reconcile_secret_keyed of      *)
(* reconcile.py for one publication.  A pass brings the Certificate to the *)
(* publication's spec, reads the Secret cert-manager fills, compares its   *)
(* leaf with the host's and installs it if they differ.  Every API or host *)
(* call is an action that may fail before or after its effect; the process *)
(* may crash between any two.  The work queue runs one pass at a time.     *)
(*                                                                         *)
(* Leaves, with their keys, are numbered in the order of their issuance.   *)
(***************************************************************************)
EXTENDS Naturals, FiniteSets

CONSTANTS Names,     \* values of the spec's required fields (dnsNames, issuer)
          Settings,  \* values of an optional field (duration, renewBefore, usages, ...)
          Groups,    \* values of the optional field inside issuerRef
          Unset,     \* an optional field's value where it is left out
          Created,   \* bound: the specs a publication is created with
          Targets,   \* bound: the ways of installing, as [mode, hooked]
          Meddling,  \* whether others change what is on the host
          MaxEdits,  \* bound: edits of .spec
          MaxRenewals \* bound: leaves issued though the last one has the Certificate's names

Specs == [names : Names, setting : Settings \cup {Unset}, group : Groups \cup {Unset}]

\* A certificate store (winrm), a certificate and a key file (ssh, winrm), or the
\* certificate's file alone (winrm without keyPath).
Modes == {"store", "files", "certificate"}

ASSUME SecretKeyedAssumption ==
  /\ Unset \notin Settings \cup Groups
  /\ Created \subseteq Specs
  /\ Targets \subseteq [mode : Modes, hooked : BOOLEAN]
  /\ Meddling \in BOOLEAN
  /\ MaxEdits \in Nat /\ MaxRenewals \in Nat

VARIABLES
  spec,        \* .spec, with its .metadata.generation
  certificate, \* the spec of the Certificate, as a set of at most one
  issued,      \* the names of each leaf, the latest being the one in the Secret
  renewals,
  host,        \* how the publication installs on it, and whether there is a post-install
               \* hook; the leaf it holds, the key it holds and the leaf the last hook put
               \* to use (0: none)
  status,      \* .status: observedGeneration, publishedFingerprint and Ready
  at,          \* what the pass does next
  pub,         \* the publication as the pass read it
  leaf,        \* the leaf and key the pass read from the Secret
  meddled      \* history: whether others changed the host since the pass began

vars == <<spec, certificate, issued, renewals, host, status, at, pub, leaf, meddled>>

apiVars == <<spec, certificate, issued, renewals>>

MaxLeaf == MaxEdits + 1 + MaxRenewals
Latest == Cardinality(DOMAIN issued)

Init == /\ spec \in [is : Created, generation : {1}]
        /\ certificate = {}
        /\ issued = [n \in {} |-> 0]
        /\ renewals = 0
        /\ \E t \in Targets :
             host = [mode |-> t.mode, hooked |-> t.hooked, leaf |-> 0, key |-> 0, live |-> 0]
        /\ status = [observed |-> 0, published |-> 0, ready |-> FALSE]
        /\ at = "idle"
        /\ pub = spec
        /\ leaf = 0
        /\ meddled = FALSE

-----------------------------------------------------------------------------
(* certmanager.py *)

\* (Operators named Faulty... are bugs this code could have; they are part of no
\* specification and show that the properties would find them.)
\* Only the issuer is compared.
FaultyDrifted(c, s) == c.group # s.group

\* certificate_spec_drift: the fields the publication sets are compared, issuerRef
\* as a whole.
Drifted(c, s) == \/ c.names # s.names
                 \/ s.setting # Unset /\ c.setting # s.setting
                 \/ c.group # s.group

\* patch_certificate: a merge patch leaves alone what the patch does not mention.
Merged(c, s) == [names |-> s.names,
                 setting |-> IF s.setting = Unset THEN c.setting ELSE s.setting,
                 group |-> IF s.group = Unset THEN c.group ELSE s.group]

-----------------------------------------------------------------------------
(* The pass: _reconcile_secret_keyed. *)

GoTo(s) == at' = s /\ UNCHANGED <<pub, leaf, meddled>>

\* A pass is over, and what it had read is gone.
Over == at' = "idle" /\ leaf' = 0 /\ meddled' = FALSE /\ UNCHANGED pub

\* A pass ends with a best-effort write, which may be lost.
EndWith(new) == status' \in {status, new} /\ Over

Waiting == [status EXCEPT !.observed = pub.generation, !.ready = FALSE]
\* The generation to come is taken for observed.
FaultyPublished == [observed |-> pub.generation + 1, published |-> leaf, ready |-> TRUE]

Published == [observed |-> pub.generation, published |-> leaf, ready |-> TRUE]

Begin == /\ at = "idle"
         /\ at' = "certificate"
         /\ pub' = spec
         /\ UNCHANGED <<apiVars, host, status, leaf, meddled>>

CreateCertificate == /\ at = "certificate"
                     /\ certificate = {}
                     /\ certificate' = {pub.is}
                     /\ \E s \in {"await", "fail"} : GoTo(s)
                     /\ UNCHANGED <<spec, issued, renewals, host, status>>

PatchCertificate == /\ at = "certificate"
                    /\ \E c \in certificate : /\ Drifted(c, pub.is)
                                              /\ certificate' = {Merged(c, pub.is)}
                    /\ \E s \in {"await", "fail"} : GoTo(s)
                    /\ UNCHANGED <<spec, issued, renewals, host, status>>

Await == /\ at = "await"
         /\ EndWith(Waiting)
         /\ UNCHANGED <<apiVars, host>>

Settled == /\ at = "certificate"
           /\ \E c \in certificate : ~Drifted(c, pub.is)
           /\ GoTo("secret")
           /\ UNCHANGED <<apiVars, host, status>>

\* There is no Secret, or it lacks the certificate or the key: nothing was issued yet, or
\* someone deleted it.
NotIssued == /\ at = "secret"
             /\ EndWith(Waiting)
             /\ UNCHANGED <<apiVars, host>>

\* The leaf once published is compared with the host's, not the Secret's.
FaultyReadSecret == /\ at = "secret"
                    /\ Latest # 0
                    /\ leaf' = IF status.published # 0 THEN status.published ELSE Latest
                    /\ at' = "compare"
                    /\ UNCHANGED <<apiVars, host, status, pub, meddled>>

\* The Secret is read from a cache, which may lag behind.
FaultyReadCache == /\ at = "secret"
                   /\ Latest # 0
                   /\ leaf' \in 1 .. Latest
                   /\ at' = "compare"
                   /\ UNCHANGED <<apiVars, host, status, pub, meddled>>

ReadSecret == /\ at = "secret"
              /\ Latest # 0
              /\ leaf' = Latest
              /\ at' = "compare"
              /\ UNCHANGED <<apiVars, host, status, pub, meddled>>

\* is_current looks at the host's leaf only.
UpToDate == /\ at = "compare"
            /\ host.leaf = leaf
            /\ EndWith(Published)
            /\ UNCHANGED <<apiVars, host>>

Outdated == /\ at = "compare"
            /\ host.leaf # leaf
            /\ GoTo("install")
            /\ UNCHANGED <<apiVars, host, status>>

\* A file that cannot be read is taken for one that is not there, whatever the reason.
Unreadable == /\ at = "compare" /\ host.mode = "files"
              /\ GoTo("install")
              /\ UNCHANGED <<apiVars, host, status>>

-----------------------------------------------------------------------------
(* install, of ssh.py and winrm.py *)

\* A call that changes the host to h may succeed or fail.
Leaving(h, next) == /\ host' = h
                    /\ \E s \in {next, "fail"} : GoTo(s)
                    /\ UNCHANGED <<apiVars, status>>

\* What follows the transfer: the post-install hook, if the publication has one.
Hook == IF host.hooked THEN "hook" ELSE "report"

\* _install_cert_store: certificate and key in one import.
ImportPfx == /\ at = "install" /\ host.mode = "store"
             /\ Leaving([host EXCEPT !.leaf = leaf, !.key = leaf], Hook)

\* The key is left out.
FaultyWriteCert == /\ at = "install" /\ host.mode # "store"
                   /\ Leaving([host EXCEPT !.leaf = leaf], Hook)

WriteCert == /\ at = "install" /\ host.mode # "store"
             /\ Leaving([host EXCEPT !.leaf = leaf], IF host.mode = "files" THEN "key" ELSE Hook)

WriteKey == /\ at = "key"
            /\ Leaving([host EXCEPT !.key = leaf], Hook)

\* A file is emptied before it is written, and the write may stop there.
CutShort == /\ at \in {"install", "key"} /\ host.mode # "store"
            /\ host' = IF at = "key" THEN [host EXCEPT !.key = 0] ELSE [host EXCEPT !.leaf = 0]
            /\ GoTo("fail")
            /\ UNCHANGED <<apiVars, status>>

\* The operator's script puts to use what was installed, unless the key is another's.
RunHook ==
  /\ at = "hook"
  /\ LET usable == host.mode = "certificate" \/ host.key = host.leaf
     IN  Leaving([host EXCEPT !.live = IF usable THEN host.leaf ELSE @], "report")

Report == /\ at = "report"
          /\ EndWith(Published)
          /\ UNCHANGED <<apiVars, host>>

-----------------------------------------------------------------------------
(* Controller._reconcile and _fail: any call of the pass may raise. *)

CallFails == /\ at \in {"certificate", "secret", "compare", "install", "key", "hook"}
             /\ GoTo("fail")
             /\ UNCHANGED <<apiVars, host, status>>

Fail == /\ at = "fail"
        /\ EndWith(Waiting)
        /\ UNCHANGED <<apiVars, host>>

Crash == /\ at # "idle"
         /\ Over
         /\ UNCHANGED <<apiVars, host, status>>

-----------------------------------------------------------------------------
(* Operators, cert-manager and the host. *)

Edit(s) == /\ spec.generation <= MaxEdits
           /\ s # spec.is
           /\ spec' = [is |-> s, generation |-> spec.generation + 1]
           /\ UNCHANGED <<certificate, issued, renewals, host, status, at, pub, leaf, meddled>>

Covered == Latest # 0 /\ \E c \in certificate : issued[Latest] = c.names

Issue == /\ certificate # {} /\ Latest < MaxLeaf
         /\ renewals' = IF Covered THEN renewals + 1 ELSE renewals
         /\ renewals' <= MaxRenewals
         /\ \E c \in certificate :
              issued' = [n \in 1 .. Latest + 1 |-> IF n > Latest THEN c.names ELSE issued[n]]
         /\ UNCHANGED <<spec, certificate, host, status, at, pub, leaf, meddled>>

\* Someone removes what is on the host, or puts back its last certificate.
Meddle == /\ Meddling
          /\ \E n \in {0, status.published} :
               /\ n # host.leaf
               /\ host' = [host EXCEPT !.leaf = n,
                                       !.key = IF host.mode = "certificate" THEN @ ELSE n,
                                       !.live = IF host.hooked THEN n ELSE @]
          /\ meddled' = (at # "idle")
          /\ UNCHANGED <<apiVars, status, at, pub, leaf>>

-----------------------------------------------------------------------------
Install == ImportPfx \/ WriteCert \/ WriteKey \/ CutShort \/ RunHook

Pass == \/ Begin \/ CreateCertificate \/ PatchCertificate \/ Await \/ Settled
        \/ NotIssued \/ ReadSecret \/ UpToDate \/ Outdated \/ Unreadable \/ Install \/ Report
        \/ Fail

Next == \/ Pass \/ CallFails \/ Crash
        \/ \E s \in Specs : Edit(s)
        \/ Issue \/ Meddle

\* Passes go on, whatever becomes of them; a call that is made again and again
\* succeeds at last; cert-manager issues what its Certificate asks for, and a Secret that
\* is asked for again and again is there at last.  Operators and meddlers do as they please.
Fairness == /\ WF_vars(Pass)
            /\ SF_vars(CreateCertificate \/ PatchCertificate \/ Settled)
            /\ SF_vars(ReadSecret) /\ SF_vars(Outdated)
            /\ SF_vars((ImportPfx \/ WriteCert) /\ at' # "fail")
            /\ SF_vars(WriteKey /\ at' # "fail") /\ SF_vars(RunHook /\ at' # "fail")
            /\ SF_vars((UpToDate \/ Report) /\ status' = Published)
            /\ WF_vars(~Covered /\ Issue)

Spec == Init /\ [][Next]_vars /\ Fairness

-----------------------------------------------------------------------------
SecretKeyedTypeOK ==
  /\ spec \in [is : Specs, generation : 1 .. MaxEdits + 1]
  /\ certificate \subseteq Specs /\ Cardinality(certificate) <= 1
  /\ Latest \in 0 .. MaxLeaf
  /\ issued \in [1 .. Latest -> Names]
  /\ renewals \in 0 .. MaxRenewals
  /\ host \in [mode : Modes, hooked : BOOLEAN,
               leaf : 0 .. Latest, key : 0 .. Latest, live : 0 .. Latest]
  /\ status \in [observed : 0 .. MaxEdits + 1, published : 0 .. Latest, ready : BOOLEAN]
  /\ at \in {"idle", "certificate", "await", "secret", "compare", "install", "key", "hook",
             "report", "fail"}
  /\ pub \in [is : Specs, generation : 1 .. spec.generation]
  /\ leaf \in 0 .. Latest
  /\ meddled \in BOOLEAN

\* The host has leaf n, with its own key where it is given one, and in use where a hook is
\* there to put it to use.
Installed(n) == /\ host.leaf = n
                /\ host.mode # "certificate" => host.key = n
                /\ host.hooked => host.live = n

\* What an install reports as published is installed whole, also when an earlier install
\* stopped half way and the Secret was reissued meanwhile.
ReportedWhole == at = "report" /\ ~meddled => Installed(leaf)

\* No pass puts back an older certificate, however long it took to install its own.
NoBackslide ==
  [][Pass /\ host'.leaf # 0 => host'.leaf >= host.leaf]_vars

\* No patch settles the Certificate (see EditSettles).
Unsettled == \E c \in certificate : Drifted(Merged(c, spec.is), spec.is)

\* The latest leaf is found or put on the host and reported, again and again, whatever
\* fails or is undone meanwhile and unless the Certificate is unsettled: none is
\* passed over for good.
LatestPublished ==
  []<>(Latest = 0 \/ Unsettled \/ (status.ready /\ status.published = Latest))

\* Every lasting edit's names reach the host, through the Certificate, cert-manager and
\* the Secret, unless the Certificate is unsettled.
EditPublished ==
  []<>(Unsettled \/ (status.ready /\ issued[status.published] = spec.is.names))

-----------------------------------------------------------------------------
(* What the repository says, and the code does not quite do. *)

\* "Installs the certificate if they differ, then runs an optional post-install hook"
\* (README.md:30): what a pass reports as published was installed to the end.
AdoptedWhole == [][UpToDate => Installed(leaf)]_vars

\* "If the publication's subjects, issuer, or renewal settings later change, the
\* controller patches the owned Certificate so cert-manager reissues" (README.md:23): an
\* edit is settled, unless another follows.
EditSettles ==
  \A g \in 1 .. MaxEdits + 1 :
    spec.generation = g ~> \/ spec.generation # g
                           \/ \E c \in certificate : ~Drifted(c, spec.is)
=============================================================================
