----------------------------- MODULE ClientAuth ------------------------------
(***************************************************************************)
(* Which client keys and certificates the proxy accepts (security.go), as  *)
(* pure functions of the files it reads.                                   *)
(*                                                                         *)
(* A file is Missing or the sequence of its lines that are not blank: keys,*)
(* and Junk for comments and whatever else is not a key.  A key is a       *)
(* record: "by" is the CA that a certificate names as its signer and NoCA  *)
(* for a plain key, "until" is when a certificate ends: "never", "later" or*)
(* "past".  A certificate is "genuine" if it is what ssh.CertChecker looks *)
(* for besides: signed by the CA it names, begun, for a client, and for    *)
(* the user who presents it.  The code looks at none of this.              *)
(***************************************************************************)
EXTENDS Naturals, Sequences, FiniteSetsExt, SequencesExt

CONSTANTS
  Missing, Junk, NoCA,
  Keys   \* the keys and certificates there are

ASSUME KeysAssumption ==
  /\ Junk \notin Keys
  /\ \A key \in Keys :
       key.until \in {"never", "later", "past"} /\ key.genuine \in BOOLEAN

\* What may be at the path of a file of keys.
Files == {Missing} \cup Seq(Keys \cup {Junk})

IsCertificate(key) == key.by # NoCA

\* ssh.ParseAuthorizedKey finds the next key of a file, past any junk.
KeysFrom(lines, i) == {j \in i .. Len(lines) : lines[j] # Junk}

\* Mutant: the scan ends at a line that is no key.
ScanToJunk(key, lines) ==
  LET scan[i \in 1 .. Len(lines) + 1] ==
        i <= Len(lines) /\ lines[i] # Junk /\ (lines[i] = key \/ scan[i + 1])
  IN  scan[1]

\* The loop of isAuthorizedClientKey; it gives up when no key is left.
Scan(key, lines) ==
  LET scan[i \in 1 .. Len(lines) + 1] ==
        /\ KeysFrom(lines, i) # {}
        /\ LET j == Min(KeysFrom(lines, i)) IN lines[j] = key \/ scan[j + 1]
  IN  scan[1]

IsAuthorizedClientKey(key, lines) == lines # Missing /\ Scan(key, lines)

\* cert.SignatureKey is compared, and the end of the validity.
NamesTrustedCA(key, trusted) == key.by \in trusted /\ key.until # "past"

IsAuthorizedClientKeyWithCA(key, lines, trusted, autoAccept) ==
  \/ autoAccept
  \/ /\ IsCertificate(key) /\ trusted # {}
     /\ NamesTrustedCA(key, trusted)
  \/ /\ ~(IsCertificate(key) /\ trusted # {})
     /\ IsAuthorizedClientKey(key, lines)

\* LoadTrustedCACerts: every file is there, and no junk follows its last key.
LoadsTrustedCACerts(files) ==
  \A i \in DOMAIN files :
    files[i] # Missing /\ (files[i] # <<>> => Last(files[i]) # Junk)

TrustedCACerts(files) == UNION {ToSet(files[i]) : i \in DOMAIN files} \ {Junk}

------------------------------------------------------------------------------
\* The reference: a key is welcome if the files vouch for it.  Once there are
\* trusted CAs a certificate needs to be a genuine one of them, and no line of
\* the authorized_keys file can replace that (security.go:59-73).
Welcome(key, lines, trusted, autoAccept) ==
  autoAccept \/
  IF IsCertificate(key) /\ trusted # {}
  THEN key.genuine /\ \E ca \in trusted : key.by = ca /\ key.until \in {"never", "later"}
  ELSE lines # Missing /\ key \in ToSet(lines)
==============================================================================
