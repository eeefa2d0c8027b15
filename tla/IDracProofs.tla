----------------------------- MODULE IDracProofs -----------------------------
(***************************************************************************)
(* Theorems about IDrac, for any subjects, certificates, number of         *)
(* attempts and number of polls: what a rotation of the host's key can     *)
(* mint, and which machine an operation's requests reach.                  *)
(***************************************************************************)
EXTENDS IDrac, TLAPS

Asking == {"read", "set", "job", "poll", "generate"}

\* What a config job for the subject asked for has to apply.
AskedPairs == {<<a, asked[a]>> : a \in Attributes}

\* An operation not asked for a CSR never comes to the subject, and the key is
\* rotated by its last step.
Phases ==
  /\ at # "idle" => past.rotations = 0
  /\ at \in Asking => asked # Unset
  /\ at = "job" => staged = asked
  /\ at = "import" => cert # NoCert
  /\ at \in {"verify", "thumbprint"} => got = <<>>

\* Unless an earlier operation left a job behind, what the host has still to apply
\* can only bring its subject nearer to the one asked for; so an attribute read as
\* asked for stays so.
Nearer ==
  ~past.leftover =>
    /\ at \in {"verify", "thumbprint", "read", "set", "job"} => todo = {}
    /\ at \in {"poll", "generate"} => todo \subseteq AskedPairs
    /\ at \in {"read", "poll"} =>
         \A i \in 1 .. Len(got) : got[i] = asked[i] => current[i] = asked[i]
    /\ at = "generate" => \A a \in Attributes : current[a] = asked[a]

\* A session is pinned to a certificate of the host, since only such a certificate
\* passes PKI validation or is the thumbprint's.
PeerIsHost ==
  /\ at = "thumbprint" => bootstrap = Factory
  /\ at \in Session => peer \in Issued \cup {Factory}

\* The inductive invariant.
IDracInv == IDracTypeOK /\ Phases /\ Nearer /\ PeerIsHost /\ CsrAsAsked

-----------------------------------------------------------------------------
USE DEF hostVars, opVars

LEMMA Subject == Subjects \cup {Unset} \subseteq [Attributes -> Values]
BY IDracAssumption DEF IDracAssumption

\* Every operation begins with the same state of its own.
LEMMA BeginInv ==
  ASSUME IDracInv, NEW s \in Subjects \cup {Unset}, NEW c \in Issued \cup {NoCert}, Begin(s, c)
  PROVE  IDracInv'
<1> USE Subject, IDracAssumption DEF IDracAssumption, Begin, IDracInv
<1>1. IDracTypeOK'
  BY DEF IDracTypeOK
<1>2. Phases' /\ CsrAsAsked'
  BY DEF Phases, CsrAsAsked, Asking
<1>3. Nearer'
  BY DEF Nearer
<1>4. PeerIsHost'
  BY DEF PeerIsHost, Session
<1> QED
  BY <1>1, <1>2, <1>3, <1>4

\* An operation that fails leaves the host as it is.
LEMMA FailInv ==
  ASSUME IDracInv, Fail
  PROVE  IDracInv'
<1> USE DEF Fail, IDracInv
<1>1. IDracTypeOK' /\ CsrAsAsked'
  BY DEF IDracTypeOK, CsrAsAsked
<1>2. Phases' /\ Nearer' /\ PeerIsHost'
  BY DEF Phases, Nearer, PeerIsHost, Asking, Session
<1> QED
  BY <1>1, <1>2

\* Connecting, and authenticating who answers.
LEMMA AuthenticateInv ==
  ASSUME IDracInv, Retry \/ PkiValid \/ NotPkiValid \/ Thumbprint
  PROVE  IDracInv'
<1> USE IDracAssumption DEF IDracAssumption, IDracInv
<1>1. at \in {"verify", "thumbprint"} /\ at' \in {"verify", "thumbprint", "read", "import", "idle"}
      /\ UNCHANGED <<hostVars, asked, cert, got, left, csr, past>>
  BY DEF Retry, PkiValid, NotPkiValid, Thumbprint, Accept, Wanted
<1>2. tries' \in 0 .. Attempts - 1
  BY DEF Retry, PkiValid, NotPkiValid, Thumbprint, Accept, IDracTypeOK
<1>3. peer' \in Certs \cup {NoCert} /\ (at' \in Session => peer' \in Issued \cup {Factory})
  <2>1. CASE Retry \/ NotPkiValid
    BY <2>1 DEF Retry, NotPkiValid, IDracTypeOK, Session
  <2>2. CASE PkiValid \/ Thumbprint
    BY <2>2 DEF PkiValid, Thumbprint, Accept, IDracTypeOK, PeerIsHost, Certs
  <2> QED
    BY <2>1, <2>2
<1>4. (at' = "thumbprint" => bootstrap = Factory) /\ (at' = "read" => asked # Unset)
      /\ (at' = "import" => cert # NoCert)
  BY DEF Retry, PkiValid, NotPkiValid, Thumbprint, Accept, Wanted, IDracTypeOK, PeerIsHost
<1>5. IDracTypeOK'
  BY <1>1, <1>2, <1>3 DEF IDracTypeOK, Session
<1>6. Phases' /\ CsrAsAsked'
  BY <1>1, <1>4 DEF Phases, CsrAsAsked, Asking
<1>7. Nearer'
  BY <1>1 DEF Nearer, Phases, AskedPairs
<1>8. PeerIsHost'
  BY <1>1, <1>3, <1>4 DEF PeerIsHost
<1> QED
  BY <1>5, <1>6, <1>7, <1>8

\* Reading the subject, setting it and waiting for it.
LEMMA SubjectInv ==
  ASSUME IDracInv,
         \/ ReadAttribute \/ SubjectMatches \/ SubjectDiffers \/ SetAttributes
         \/ CreateTargetedConfigJob \/ PollAgain
  PROVE  IDracInv'
<1> USE Subject DEF IDracInv, Answered
<1>1. CASE ReadAttribute
  <2>1. Len(got) + 1 \in Attributes /\ current[Len(got) + 1] \in Values
    BY <1>1 DEF ReadAttribute, IDracTypeOK, Attributes
  <2>2. got' \in Seq(Values) /\ Len(got') = Len(got) + 1 /\ Len(got') <= 2
    BY <1>1, <2>1 DEF ReadAttribute, IDracTypeOK
  <2>3. \A i \in 1 .. Len(got') : got'[i] = IF i = Len(got) + 1 THEN current[i] ELSE got[i]
    BY <1>1, <2>1 DEF ReadAttribute, IDracTypeOK
  <2>4. at \in {"read", "poll"} /\ at' \in {at, "idle"}
        /\ UNCHANGED <<hostVars, asked, cert, tries, peer, left, csr, past>>
    BY <1>1 DEF ReadAttribute
  <2>5. IDracTypeOK'
    BY <2>2, <2>4 DEF IDracTypeOK
  <2>6. Phases' /\ CsrAsAsked' /\ PeerIsHost'
    BY <2>4 DEF Phases, CsrAsAsked, PeerIsHost, Asking, Session
  <2>7. Nearer'
    BY <2>2, <2>3, <2>4 DEF Nearer, AskedPairs, IDracTypeOK
  <2> QED
    BY <2>5, <2>6, <2>7
<1>2. CASE SubjectMatches
  <2>1. at \in {"read", "poll"} /\ at' = "generate"
        /\ UNCHANGED <<hostVars, asked, cert, tries, peer, got, left, csr, past>>
    BY <1>2 DEF SubjectMatches
  <2>2. Len(got) = 2 /\ \A a \in Attributes : got[a] = asked[a]
    BY <1>2 DEF SubjectMatches, Confirmed
  <2>3. IDracTypeOK'
    BY <2>1 DEF IDracTypeOK, Session
  <2>4. Phases' /\ CsrAsAsked' /\ PeerIsHost'
    BY <2>1 DEF Phases, CsrAsAsked, PeerIsHost, Asking, Session
  <2>5. Nearer'
    BY <2>1, <2>2 DEF Nearer, AskedPairs, Attributes
  <2> QED
    BY <2>3, <2>4, <2>5
<1>3. CASE SubjectDiffers
  <2>1. at = "read" /\ at' = "set"
        /\ UNCHANGED <<hostVars, asked, cert, tries, peer, got, left, csr, past>>
    BY <1>3 DEF SubjectDiffers
  <2>2. IDracTypeOK'
    BY <2>1 DEF IDracTypeOK, Session
  <2> QED
    BY <2>1, <2>2 DEF Phases, CsrAsAsked, PeerIsHost, Asking, Session, Nearer
<1>4. CASE SetAttributes
  <2>1. at = "set" /\ at' \in {"job", "idle"} /\ staged' = asked
        /\ UNCHANGED <<there, current, todo, loaded, serving, valid, bootstrap, asked, cert,
                       tries, peer, got, left, csr, past>>
    BY <1>4 DEF SetAttributes
  <2>2. IDracTypeOK'
    BY <2>1 DEF IDracTypeOK, Session
  <2> QED
    BY <2>1, <2>2 DEF Phases, CsrAsAsked, PeerIsHost, Asking, Session, Nearer
<1>5. CASE CreateTargetedConfigJob
  <2>1. at = "job" /\ at' \in {"poll", "idle"} /\ got' = <<>> /\ left' = ApplyPolls
        /\ todo' = todo \cup {<<a, staged[a]>> : a \in Attributes}
        /\ UNCHANGED <<there, current, staged, loaded, serving, valid, bootstrap, asked, cert,
                       tries, peer, csr, past>>
    BY <1>5 DEF CreateTargetedConfigJob
  <2>2. IDracTypeOK'
    <3>1. todo' \subseteq Attributes \X Values
      BY <2>1 DEF IDracTypeOK
    <3> QED
      BY <2>1, <3>1, IDracAssumption DEF IDracTypeOK, Session, IDracAssumption
  <2>3. Phases' /\ CsrAsAsked' /\ PeerIsHost'
    BY <2>1 DEF Phases, CsrAsAsked, PeerIsHost, Asking, Session
  <2>4. Nearer'
    BY <2>1 DEF Nearer, Phases, AskedPairs
  <2> QED
    BY <2>2, <2>3, <2>4
<1>6. CASE PollAgain
  <2>1. at = "poll" /\ got' = <<>> /\ left' \in 0 .. ApplyPolls
        /\ UNCHANGED <<hostVars, at, asked, cert, tries, peer, csr, past>>
    BY <1>6, IDracAssumption DEF PollAgain, IDracTypeOK, IDracAssumption
  <2>2. IDracTypeOK'
    BY <2>1 DEF IDracTypeOK, Session
  <2>3. Nearer'
    BY <2>1 DEF Nearer, AskedPairs
  <2> QED
    BY <2>1, <2>2, <2>3 DEF Phases, CsrAsAsked, PeerIsHost, Asking, Session
<1> QED
  BY <1>1, <1>2, <1>3, <1>4, <1>5, <1>6

\* The rotation itself, and the two steps of an import.
LEMMA CertificateInv ==
  ASSUME IDracInv, GenerateSSLCSR \/ ImportSSLCertificate \/ IDracReset
  PROVE  IDracInv'
<1> USE Subject DEF IDracInv, Answered
<1>1. CASE GenerateSSLCSR
  <2>1. at = "generate" /\ at' = "idle" /\ csr' = current
        /\ past' = [past EXCEPT !.rotations = @ + 1]
        /\ UNCHANGED <<hostVars, asked, cert, tries, peer, got, left>>
    BY <1>1 DEF GenerateSSLCSR
  <2>2. past'.rotations = 1 /\ past'.leftover = past.leftover /\ past' \in [rotations : 0 .. 1, leftover : BOOLEAN]
    BY <2>1 DEF Phases, IDracTypeOK
  <2>3. asked \in [Attributes -> Values] /\ current \in [Attributes -> Values]
    BY DEF IDracTypeOK
  <2>4. IDracTypeOK'
    BY <2>1, <2>2 DEF IDracTypeOK
  <2>5. ~past.leftover => csr' = asked
    BY <2>1, <2>3 DEF Nearer
  <2>6. CsrAsAsked'
    BY <2>1, <2>2, <2>5 DEF CsrAsAsked
  <2>7. Phases' /\ Nearer' /\ PeerIsHost'
    BY <2>1 DEF Phases, Nearer, PeerIsHost, Asking, Session
  <2> QED
    BY <2>4, <2>6, <2>7
<1>2. CASE ImportSSLCertificate
  <2>1. at = "import" /\ at' \in {"reset", "idle"}
        /\ loaded' = cert
        /\ UNCHANGED <<there, current, staged, todo, serving, valid, bootstrap, asked, cert,
                       tries, peer, got, left, csr, past>>
    BY <1>2 DEF ImportSSLCertificate
  <2>2. cert # NoCert
    BY <2>1 DEF Phases
  <2>3. IDracTypeOK'
    BY <2>1, <2>2 DEF IDracTypeOK, Session
  <2> QED
    BY <2>1, <2>3 DEF Phases, CsrAsAsked, PeerIsHost, Asking, Session, Nearer
<1>3. CASE IDracReset
  <2>1. at = "reset" /\ at' = "idle" /\ serving' = loaded
        /\ UNCHANGED <<there, current, staged, todo, loaded, valid, bootstrap, asked, cert,
                       tries, peer, got, left, csr, past>>
    BY <1>3 DEF IDracReset
  <2>2. IDracTypeOK'
    BY <2>1 DEF IDracTypeOK
  <2> QED
    BY <2>1, <2>2 DEF Phases, CsrAsAsked, PeerIsHost, Asking, Session, Nearer
<1> QED
  BY <1>1, <1>2, <1>3

\* What happens without the operation.
LEMMA OthersInv ==
  ASSUME IDracInv, Apply \/ Reboot \/ Reroute \/ Expire
  PROVE  IDracInv'
<1> USE Subject DEF IDracInv
<1>1. CASE Apply
  <2>1. PICK t \in todo : current' = [current EXCEPT ![t[1]] = t[2]] /\ todo' = todo \ {t}
    BY <1>1 DEF Apply
  <2>2. UNCHANGED <<there, staged, loaded, serving, valid, bootstrap, opVars, past>>
    BY <1>1 DEF Apply
  <2>3. t[1] \in Attributes /\ t[2] \in Values /\ current \in [Attributes -> Values]
    BY <2>1 DEF IDracTypeOK
  <2>4. IDracTypeOK'
    BY <2>1, <2>2, <2>3 DEF IDracTypeOK
  <2>5. ~past.leftover /\ at \in {"poll", "generate"} => t[2] = asked[t[1]]
    BY <2>1 DEF Nearer, AskedPairs
  <2>6. Nearer'
    <3> SUFFICES ASSUME ~past.leftover PROVE Nearer'
      BY <2>2 DEF Nearer
    <3>1. CASE at \in {"poll", "generate"}
      <4>1. \A a \in Attributes : current[a] = asked[a] => current'[a] = asked[a]
        BY <2>1, <2>3, <2>5, <3>1
      <4>2. 1 .. Len(got) \subseteq Attributes
        BY DEF IDracTypeOK, Attributes
      <4> QED
        BY <2>1, <2>2, <3>1, <4>1, <4>2 DEF Nearer, AskedPairs
    <3>2. CASE at \notin {"poll", "generate"}
      <4>1. at \notin {"verify", "thumbprint", "read", "set", "job"}
        BY <2>1 DEF Nearer
      <4> QED
        BY <2>2, <3>2, <4>1 DEF Nearer
    <3> QED
      BY <3>1, <3>2
  <2> QED
    BY <2>2, <2>4, <2>6 DEF Phases, CsrAsAsked, PeerIsHost
<1>2. CASE Reboot
  BY <1>2 DEF Reboot, IDracTypeOK, Phases, CsrAsAsked, PeerIsHost, Nearer, AskedPairs
<1>3. CASE Reroute
  BY <1>3 DEF Reroute, IDracTypeOK, Phases, CsrAsAsked, PeerIsHost, Nearer, AskedPairs
<1>4. CASE Expire
  BY <1>4 DEF Expire, IDracTypeOK, Phases, CsrAsAsked, PeerIsHost, Nearer, AskedPairs
<1> QED
  BY <1>1, <1>2, <1>3, <1>4

-----------------------------------------------------------------------------
LEMMA InitInv == IDracInit => IDracInv
<1> SUFFICES ASSUME IDracInit PROVE IDracInv
  OBVIOUS
<1> USE IDracAssumption, Subject DEF IDracAssumption, IDracInit
<1>1. IDracTypeOK
  BY DEF IDracTypeOK
<1> QED
  BY <1>1 DEF IDracInv, Phases, Nearer, PeerIsHost, CsrAsAsked, Asking, Session

LEMMA StepInv == IDracInv /\ [IDracNext]_vars => IDracInv'
<1> SUFFICES ASSUME IDracInv, [IDracNext]_vars PROVE IDracInv'
  OBVIOUS
<1>1. ASSUME NEW s \in Subjects, GenerateCsr(s) PROVE IDracInv'
  BY <1>1, BeginInv DEF GenerateCsr
<1>2. ASSUME NEW c \in valid, ImportCertificate(c) PROVE IDracInv'
  <2>1. c \in Issued
    BY DEF IDracInv, IDracTypeOK
  <2> QED
    BY <1>2, <2>1, BeginInv DEF ImportCertificate
<1>3. CASE InstalledCertificate
  BY <1>3, BeginInv DEF InstalledCertificate
<1>4. CASE Operation
  BY <1>4, AuthenticateInv, SubjectInv, CertificateInv, FailInv DEF Operation
<1>5. CASE Apply \/ Reboot \/ Reroute \/ Expire
  BY <1>5, OthersInv
<1>6. CASE UNCHANGED vars
  BY <1>6 DEF vars, IDracInv, IDracTypeOK, Phases, Nearer, AskedPairs, PeerIsHost, CsrAsAsked
<1> QED
  BY <1>1, <1>2, <1>3, <1>4, <1>5, <1>6 DEF IDracNext

\* What every theorem below rests on.
THEOREM IDracInvariant == IDracSpec => []IDracInv
<1>1. IDracInit => IDracInv
  BY InitInv
<1>2. IDracInv /\ [IDracNext]_vars => IDracInv'
  BY StepInv
<1> QED
  BY <1>1, <1>2, PTL DEF IDracSpec

\* Whatever answers are lost, the variables keep their types.
THEOREM IDracTypes == IDracSpec => []IDracTypeOK
<1>1. IDracInv => IDracTypeOK
  BY DEF IDracInv
<1> QED
  BY <1>1, IDracInvariant, PTL

\* An operation rotates the host's key at most once, and the CSR it mints carries the
\* subject asked for unless an earlier job was still under way (idrac8.py:277-300).
THEOREM RotatesForTheSubject == IDracSpec => []CsrAsAsked
<1>1. IDracInv => CsrAsAsked
  BY DEF IDracInv
<1> QED
  BY <1>1, IDracInvariant, PTL

\* No request reaches another machine than the host, wherever its address leads
\* between the authentication and the session (idrac8.py:202-224, tlspin.py:24-40).
THEOREM OnlyTheHost == IDracSpec => RequestsReachHost
<1>1. IDracInv /\ [IDracNext]_vars => [Request => there = "idrac"]_vars
  <2> SUFFICES ASSUME IDracInv, Request PROVE there = "idrac"
    OBVIOUS
  <2>1. at \in Session /\ Pinned
    BY DEF Request, ReadAttribute, SetAttributes, CreateTargetedConfigJob, GenerateSSLCSR,
           ImportSSLCertificate, IDracReset, Answered, Session
  <2>2. Presented \in Issued \cup {Factory}
    BY <2>1 DEF IDracInv, PeerIsHost, Pinned
  <2> QED
    BY <2>2, IDracAssumption DEF Presented, IDracAssumption
<1> QED
  BY <1>1, IDracInvariant, PTL DEF IDracSpec, RequestsReachHost
=============================================================================
