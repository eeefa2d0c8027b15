-------------------------------- MODULE IDrac --------------------------------
(***************************************************************************)
(* The iDRAC provisioner (src/src/cert_publisher/provisioners/idrac8.py)   *)
(* over WS-Man (wsman.py, tlspin.py, retry.py): what HostKeyed takes for   *)
(* the single calls of a signing round.  Every operation authenticates the *)
(* host; generate_csr then makes the host's stored CSR subject the one     *)
(* asked for and has it rotate its key, import_certificate installs a      *)
(* certificate and resets the host to serve it.                            *)
(*                                                                         *)
(* A call to the host is an action whose answer may be lost.  A kept       *)
(* connection is one whose machine has not changed since.  The host        *)
(* applies a config job in its own time, one attribute at a time, or       *)
(* never.                                                                  *)
(***************************************************************************)
EXTENDS Naturals, Sequences

CONSTANTS Values,       \* common names and SAN lists
          Subjects,     \* <<common name, SAN list>> of the specs there are
          Unset,        \* the host's subject before the first round
          Issued,       \* certificates signed for the host
          Factory,      \* its own, self-signed certificate
          Foreign,      \* the certificate of another machine at its address
          NoCert,
          Attempts,     \* RETRY_ATTEMPTS
          ApplyPolls    \* polls within _APPLY_TIMEOUT

Attributes == {1, 2}

ASSUME IDracAssumption == /\ Subjects \subseteq [Attributes -> Values]
                          /\ Unset \in [Attributes -> Values] \ Subjects
                          /\ {Factory, Foreign, NoCert} \cap Issued = {}
                          /\ Factory # Foreign /\ NoCert \notin {Factory, Foreign}
                          /\ Attempts \in Nat \ {0}
                          /\ ApplyPolls \in Nat

VARIABLES there,     \* the machine at the host's address
          current,   \* the stored attributes GenerateSSLCSR reads
          staged,    \* their pending values
          todo,      \* what accepted config jobs have still to apply
          loaded,    \* the certificate the host serves after its next reset
          serving,   \* the one it serves
          valid,     \* certificates that PKI validation accepts
          bootstrap, \* bootstrapThumbprint
          at,        \* what the operation does next
          asked,     \* the subject asked for
          cert,      \* the certificate to import
          tries,     \* failed attempts of the connection being made
          peer,      \* the authenticated certificate, which sessions are pinned to
          got,       \* the CurrentValues read so far
          left,      \* polls left before the deadline
          csr,       \* the subject of the CSR the host minted
          past       \* history, which no action of the code reads: how often this operation
                     \* rotated the host's key, and whether a job was under way when it began

hostVars == <<there, current, staged, todo, loaded, serving, valid, bootstrap>>
opVars == <<at, asked, cert, tries, peer, got, left, csr>>
vars == <<hostVars, opVars, past>>

IDracInit ==
  /\ there = "idrac"
  /\ current = Unset /\ staged = Unset /\ todo = {}
  /\ loaded = Factory /\ serving = Factory
  /\ valid = Issued
  /\ bootstrap \in {NoCert, Factory}
  /\ at = "idle" /\ asked = Unset /\ cert = NoCert
  /\ tries = 0 /\ peer = NoCert /\ got = <<>> /\ left = 0 /\ csr = Unset
  /\ past = [rotations |-> 0, leftover |-> FALSE]

-----------------------------------------------------------------------------
(* The operations begin. *)

\* reconcile.py asks one thing of the host at a time.
Begin(s, c) == /\ at = "idle"
               /\ at' = "verify" /\ asked' = s /\ cert' = c
               /\ tries' = 0 /\ peer' = NoCert /\ got' = <<>> /\ left' = 0 /\ csr' = Unset
               /\ past' = [rotations |-> 0, leftover |-> todo # {}]
               /\ UNCHANGED hostVars

GenerateCsr(s) == Begin(s, NoCert)
ImportCertificate(c) == Begin(Unset, c)
InstalledCertificate == Begin(Unset, NoCert)

\* An exception ends the operation: a refused connection or pin, a SOAP fault, a
\* ReturnValue that is not a success.
Fail == /\ at # "idle"
        /\ at' = "idle"
        /\ UNCHANGED <<hostVars, asked, cert, tries, peer, got, left, csr, past>>

-----------------------------------------------------------------------------
(* _authenticated_peer *)

Presented == IF there = "idrac" THEN serving ELSE Foreign

\* (Operators named Faulty... are bugs this code could have; they are part of no
\* specification and show that the properties would find them.)
\* One attempt too many.
FaultyRetryAgain == /\ at \in {"verify", "thumbprint"}
                    /\ tries < Attempts
                    /\ tries' = tries + 1
                    /\ UNCHANGED <<hostVars, at, asked, cert, peer, got, left, csr, past>>

\* with_retries: an OSError costs one of the attempts.
Retry == /\ at \in {"verify", "thumbprint"}
         /\ tries + 1 < Attempts
         /\ tries' = tries + 1
         /\ UNCHANGED <<hostVars, at, asked, cert, peer, got, left, csr, past>>

\* What the authenticated connection is for; installed_certificate needs no more.
Wanted == IF asked # Unset THEN "read" ELSE IF cert # NoCert THEN "import" ELSE "idle"

Accept == /\ peer' = Presented
          /\ at' = Wanted
          /\ UNCHANGED <<hostVars, asked, cert, tries, got, left, csr, past>>

PkiValid == /\ at = "verify" /\ Presented \in valid
            /\ Accept

\* Not valid (yet): without a thumbprint all that is left is to Fail.
NotPkiValid == /\ at = "verify" /\ Presented \notin valid /\ bootstrap # NoCert
               /\ at' = "thumbprint" /\ tries' = 0
               /\ UNCHANGED <<hostVars, asked, cert, peer, got, left, csr, past>>

Thumbprint == /\ at = "thumbprint" /\ Presented = bootstrap
              /\ Accept

-----------------------------------------------------------------------------
(* The WS-Man session. *)

\* The adapter checks nothing.
FaultyPinned == TRUE

\* PinnedHTTPAdapter: no byte is sent to a machine that presents another certificate.
Pinned == Presented = peer

\* A request the host carries out; when its answer is lost the operation fails.
Answered(next) == Pinned /\ at' \in {next, "idle"}

\* _attribute: one Get for each.
ReadAttribute == /\ at \in {"read", "poll"} /\ Len(got) < 2
                 /\ Answered(at)
                 /\ got' = Append(got, current[Len(got) + 1])
                 /\ UNCHANGED <<hostVars, asked, cert, tries, peer, left, csr, past>>

\* Only the common name is compared.
FaultyConfirmed == Len(got) = 2 /\ got[1] = asked[1]

Confirmed == Len(got) = 2 /\ \A a \in Attributes : got[a] = asked[a]
Different == Len(got) = 2 /\ ~Confirmed

SubjectMatches == /\ at \in {"read", "poll"} /\ Confirmed
                  /\ at' = "generate"
                  /\ UNCHANGED <<hostVars, asked, cert, tries, peer, got, left, csr, past>>

SubjectDiffers == /\ at = "read" /\ Different
                  /\ at' = "set"
                  /\ UNCHANGED <<hostVars, asked, cert, tries, peer, got, left, csr, past>>

SetAttributes == /\ at = "set"
                 /\ Answered("job")
                 /\ staged' = asked
                 /\ UNCHANGED <<there, current, todo, loaded, serving, valid, bootstrap, asked,
                                cert, tries, peer, got, left, csr, past>>

CreateTargetedConfigJob ==
  /\ at = "job"
  /\ Answered("poll")
  /\ todo' = todo \cup {<<a, staged[a]>> : a \in Attributes}
  /\ got' = <<>> /\ left' = ApplyPolls
  /\ UNCHANGED <<there, current, staged, loaded, serving, valid, bootstrap, asked, cert, tries,
                 peer, csr, past>>

\* The deadline is not looked at.
FaultyPollAgain == /\ at = "poll" /\ Different
                   /\ got' = <<>>
                   /\ UNCHANGED <<hostVars, at, asked, cert, tries, peer, left, csr, past>>

\* Not applied yet: sleep and look again, until the deadline has passed.
PollAgain == /\ at = "poll" /\ Different /\ left > 0
             /\ left' = left - 1 /\ got' = <<>>
             /\ UNCHANGED <<hostVars, at, asked, cert, tries, peer, csr, past>>

\* The host rotates its key and builds the CSR from its current attributes.
GenerateSSLCSR == /\ at = "generate"
                  /\ Answered("idle")
                  /\ csr' = current
                  /\ past' = [past EXCEPT !.rotations = @ + 1]
                  /\ UNCHANGED <<hostVars, asked, cert, tries, peer, got, left>>

\* The certificate waits for a reset, by others when spec.reset is off.
ImportSSLCertificate == /\ at = "import"
                        /\ Answered("reset")
                        /\ loaded' = cert
                        /\ UNCHANGED <<there, current, staged, todo, serving, valid, bootstrap,
                                       asked, cert, tries, peer, got, left, csr, past>>

IDracReset == /\ at = "reset"
              /\ Answered("idle")
              /\ serving' = loaded
              /\ UNCHANGED <<there, current, staged, todo, loaded, valid, bootstrap, asked, cert,
                             tries, peer, got, left, csr, past>>

-----------------------------------------------------------------------------
(* What others do. *)

\* A job applies one attribute; jobs left by earlier operations are no exception.
Apply == /\ \E t \in todo : /\ current' = [current EXCEPT ![t[1]] = t[2]]
                            /\ todo' = todo \ {t}
         /\ UNCHANGED <<there, staged, loaded, serving, valid, bootstrap, opVars, past>>

Reboot == /\ serving # loaded
          /\ serving' = loaded
          /\ UNCHANGED <<there, current, staged, todo, loaded, valid, bootstrap, opVars, past>>

\* The address leads to another machine, or back.
Reroute == /\ there' = IF there = "idrac" THEN "other" ELSE "idrac"
           /\ UNCHANGED <<current, staged, todo, loaded, serving, valid, bootstrap, opVars, past>>

Expire == /\ \E c \in valid : valid' = valid \ {c}
          /\ UNCHANGED <<there, current, staged, todo, loaded, serving, bootstrap, opVars, past>>

Operation == \/ Retry \/ PkiValid \/ NotPkiValid \/ Thumbprint
             \/ ReadAttribute \/ SubjectMatches \/ SubjectDiffers
             \/ SetAttributes \/ CreateTargetedConfigJob \/ PollAgain \/ GenerateSSLCSR
             \/ ImportSSLCertificate \/ IDracReset \/ Fail

IDracNext == \/ \E s \in Subjects : GenerateCsr(s)
             \/ \E c \in valid : ImportCertificate(c)
             \/ InstalledCertificate
             \/ Operation
             \/ Apply \/ Reboot \/ Reroute \/ Expire

\* Every call to the host returns or raises: each has a timeout, which ends it unless the
\* host keeps answering a few bytes at a time.
IDracSpec == IDracInit /\ [][IDracNext]_vars /\ WF_vars(Operation)

-----------------------------------------------------------------------------
Certs == Issued \cup {Factory, Foreign}
Session == {"read", "set", "job", "poll", "generate", "import", "reset"}

\* The variables have the types the code gives them.
IDracTypeOK ==
  /\ there \in {"idrac", "other"}
  /\ current \in [Attributes -> Values] /\ staged \in [Attributes -> Values]
  /\ todo \subseteq Attributes \X Values
  /\ loaded \in Issued \cup {Factory} /\ serving \in Issued \cup {Factory}
  /\ valid \subseteq Issued /\ bootstrap \in {NoCert, Factory}
  /\ at \in {"idle", "verify", "thumbprint"} \cup Session
  /\ asked \in Subjects \cup {Unset} /\ cert \in Issued \cup {NoCert}
  /\ tries \in 0 .. Attempts - 1 /\ peer \in Certs \cup {NoCert}
  /\ got \in Seq(Values) /\ Len(got) <= 2
  /\ left \in 0 .. ApplyPolls /\ csr \in [Attributes -> Values]
  /\ past \in [rotations : 0 .. 1, leftover : BOOLEAN]

\* generate_csr rotates the host's key at most once, and only when the CSR will carry the
\* subject asked for (idrac8.py:288-294), whatever answers are lost and however late
\* a job applies.  A config job an earlier operation left behind may still apply between
\* the check and the rotation: nothing in the code looks for one.
CsrAsAsked == /\ past.rotations <= 1
              /\ past.rotations = 1 => csr = asked \/ past.leftover

\* What a session sends.
Request == \/ ReadAttribute \/ SetAttributes \/ CreateTargetedConfigJob \/ GenerateSSLCSR
           \/ ImportSSLCertificate \/ IDracReset

\* What an operation sends reaches the machine it authenticated, which is the host
\* (idrac8.py:32-34), wherever the address leads by then.
RequestsReachHost == [][Request => there = "idrac"]_vars

\* Every operation ends: neither the retries nor the polls go on for ever.
OperationEnds == at # "idle" ~> at = "idle"
=============================================================================
