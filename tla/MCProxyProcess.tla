---------------------------- MODULE MCProxyProcess ---------------------------
(* Three starts of the program, a key of two lines, and inputs that differ   *)
(* from an ordinary one in a setting or two, or in the client and the files. *)
EXTENDS ProxyProcess, TLC

CONSTANTS p1, p2, p3

Restarts == Permutations(Procs)

MCDefaults == [connect |-> 3, auth |-> 5, poll |-> 1, request |-> 2]

\* A duration of 8 bits: 22 seconds wrap to a negative one, 45 to a positive.
MCSecond == 6
MCMaxInt == 127

\* A key, and certificates that name the CAs a and b.
Key(name) == [name |-> name, by |-> NoCA, until |-> "never", genuine |-> TRUE]
Plain == Key("plain")
CA(a) == Key(a)
Certificate(a, end) == [name |-> "cert", by |-> CA(a), until |-> end, genuine |-> TRUE]
Claims(a, end) == [Certificate(a, end) EXCEPT !.genuine = FALSE]

MCKeys ==
  {Plain, CA("a"), CA("b")}
  \cup UNION {{Certificate(a, end), Claims(a, end)} :
               a \in {"a", "b"}, end \in {"never", "later", "past"}}

Ordinary ==
  [listen |-> "addr", key |-> "path", level |-> "blank",
   authorizedKeys |-> "path", autoAccept |-> Absent, format |-> "blank",
   retries |-> Absent, oldRetries |-> 0,
   seconds |-> [t \in Timeouts |-> Absent], oldConnect |-> 0,
   metrics |-> FALSE, path |-> "blank", provider |-> "blank",
   static |-> FALSE, mode |-> "blank", servers |-> <<>>, cas |-> <<>>, hostCAs |-> <<>>]

Raws ==
  {[Ordinary EXCEPT !.retries = n, !.oldRetries = m] :
     n \in {Absent, -1, 0, 2}, m \in {-1, 0, 3}}
  \cup {[Ordinary EXCEPT !.seconds["connect"] = n, !.oldConnect = m] :
     n \in {Absent, -1, 0, 2, 22, 45}, m \in {-1, 4}}
  \cup {[Ordinary EXCEPT !.seconds[t] = n] : t \in Timeouts, n \in {-1, 0, 21, 22, 45}}
  \cup {[Ordinary EXCEPT !.static = s, !.servers = v, !.mode = m] :
     s \in BOOLEAN, v \in {<<>>, <<"host:port">>, <<"host:port", "bad">>},
     m \in {"blank", "roundrobin", "other"}}
  \cup {[Ordinary EXCEPT !.format = f, !.metrics = TRUE, !.path = "bare"] :
     f \in {"script", "other"}}
  \cup {[Ordinary EXCEPT !.autoAccept = FALSE, !.authorizedKeys = "blank"],
        [Ordinary EXCEPT !.listen = "blank"], [Ordinary EXCEPT !.level = "loud"]}

\* Ordinary files, and no key is accepted without being looked up.
Start(r) == [raw |-> r, env |-> "blank", lines |-> Missing, client |-> Plain]

Guarded(r, l, k) == [raw |-> r, env |-> "false", lines |-> l, client |-> k]

AuthFiles ==
  {Missing, <<>>, <<Junk>>, <<Plain>>, <<Junk, Plain>>, <<CA("a"), Junk, Plain>>,
   <<Certificate("b", "later")>>}

CAFiles ==
  {<<>>, << <<>> >>, << <<CA("a")>> >>, << <<CA("a"), Junk>> >>, << <<Junk, CA("a")>>, <<CA("b")>> >>,
   << Missing >>}

MCInputs ==
  {Start(r) : r \in Raws}
  \cup {Guarded([Ordinary EXCEPT !.cas = f], l, k) :
     f \in CAFiles, l \in AuthFiles,
     k \in {Plain, Certificate("a", "past"), Certificate("a", "never"),
            Certificate("b", "later"), Claims("a", "never"), Claims("b", "past")}}
  \cup {Start([Ordinary EXCEPT !.hostCAs = f]) : f \in CAFiles}
==============================================================================
