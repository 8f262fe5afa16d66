---------------------------- MODULE ServerStart ----------------------------
(***************************************************************************)
(* How the signaling server comes up (main.rs main(), auth.rs, tls.rs,      *)
(* turn.rs): settings of the operator, the certificate it generates once    *)
(* and keeps, what it then lets in, and which address it charges for a       *)
(* request.                                                                *)
(*                                                                         *)
(* The process may be killed between any two writes.  A file is torn from   *)
(* its creation to the end of the write.  A generated pair is a number;     *)
(* a room token is the pair of the room and the secret it was made with.    *)
(***************************************************************************)
EXTENDS Integers, Sequences, FiniteSets

CONSTANTS
    TokenRoom,       \* rooms a token is minted for
    AuthSecret,      \* values of ROOM_AUTH_SECRET, beside none and the empty one
    BootScenario     \* bound: starts, kills, operator's changes, requests

ASSUME BootConstants ==
    /\ IsFiniteSet(TokenRoom) /\ IsFiniteSet(AuthSecret)
    /\ BootScenario \subseteq [starts : Nat, kills : Nat, edits : Nat, requests : Nat]

VARIABLES
    conf,       \* environment of the next start
    file,       \* TLS_CERT and TLS_KEY on disk
    proc,       \* the process
    minted,     \* room tokens handed out
    pins,       \* history: fingerprints printed since a file was last removed
    spoilt,     \* history: a kill tore a file, or the operator removed one
    stuck,      \* history: a start failed on the files
    served,     \* history: the last join let in, and the last request charged
    bootBudget

bootVars == <<conf, file, proc, minted, pins, spoilt, stuck, served, bootBudget>>

\* No file, a torn one; pairs are numbered from 1.
Absent == 0
Torn == -1

Flag == {"unset", "0", "1", " 1"}
Conf == [secret : AuthSecret \cup {"unset", ""}, allow_open : Flag,
         tls_disable : Flag, public_bind : Flag, turn_secret : {"unset", "", "t"},
         turn_urls : {"unset", "", "u"}]

\* flag_on(): blanks around the value do no harm.
FlagOn(v) == v \in {"1", " 1"}

\* Mutant: an empty secret is taken for a secret.
AuthEmptyKey(c) ==
    IF c.secret # "unset" THEN [mode |-> "hmac", key |-> c.secret]
    ELSE [mode |-> IF c.allow_open = "1" THEN "open" ELSE "refused", key |-> ""]

\* AuthConfig::from_values(): a secret, or open mode if asked for by "1".
Auth(c) ==
    IF c.secret \notin {"unset", ""} THEN [mode |-> "hmac", key |-> c.secret]
    ELSE [mode |-> IF c.allow_open = "1" THEN "open" ELSE "refused", key |-> ""]

\* TurnConfig::from_values(): both values, and neither empty.
TurnOn(c) == c.turn_secret = "t" /\ c.turn_urls = "u"

Down == [st |-> "down", auth |-> [mode |-> "refused", key |-> ""], turn |-> FALSE,
         plain |-> FALSE, bind |-> "none", pair |-> Absent]

NoGuest == [room |-> "none", token |-> <<>>, auth |-> Down.auth]
NoCharge == [from |-> "none", to |-> "none"]

BootInit ==
    /\ conf = [secret |-> "unset", allow_open |-> "unset", tls_disable |-> "unset",
               public_bind |-> "unset", turn_secret |-> "unset", turn_urls |-> "unset"]
    /\ file = [cert |-> Absent, key |-> Absent]
    /\ proc = Down
    /\ minted = {} /\ pins = {}
    /\ spoilt = FALSE /\ stuck = FALSE
    /\ served = [guest |-> NoGuest, charge |-> NoCharge]
    /\ bootBudget \in BootScenario

BootSpend(f) == bootBudget[f] > 0 /\ bootBudget' = [bootBudget EXCEPT ![f] = @ - 1]

-----------------------------------------------------------------------------
(***************************************************************************)
(* The operator, while the server is down.                                 *)
(***************************************************************************)
Configure ==
    /\ proc.st = "down" /\ BootSpend("edits")
    /\ \E field \in DOMAIN conf : \E c \in Conf :
         /\ c = [conf EXCEPT ![field] = c[field]] /\ c # conf
         /\ conf' = c
    /\ UNCHANGED <<file, proc, minted, pins, spoilt, stuck, served>>

RemoveFile(f) ==
    /\ proc.st = "down" /\ BootSpend("edits")
    /\ file[f] # Absent
    /\ file' = [file EXCEPT ![f] = Absent]
    /\ pins' = {} /\ spoilt' = TRUE
    /\ UNCHANGED <<conf, proc, minted, stuck, served>>

\* token_for(), by the helper "mint <room>" or for a new session: nothing in
\* open mode.
Mint(r) ==
    /\ BootSpend("requests")
    /\ LET auth == IF proc.st = "up" THEN proc.auth ELSE Auth(conf)
       IN minted' = IF auth.mode = "hmac" THEN minted \cup {<<r, auth.key>>} ELSE minted
    /\ UNCHANGED <<conf, file, proc, pins, spoilt, stuck, served>>

-----------------------------------------------------------------------------
(***************************************************************************)
(* Starting up.                                                            *)
(***************************************************************************)
\* ensure_with_sans(): the files are taken if both exist.
Reusable == file.cert # Absent /\ file.key # Absent

\* What is read is served if it is whole and one pair.
Loads == file.cert > 0 /\ file.key = file.cert

\* A number no file and no printed fingerprint has.
NewPair == CHOOSE i \in 1..Cardinality(pins) + 3 :
             i \notin pins \cup {file.cert, file.key} /\ \A j \in 1..i - 1 :
               j \in pins \cup {file.cert, file.key}

Reports(p, i) == pins' = pins \cup {i}

\* Plain ws for a proxy on this host, on every address only if asked for.
ServePlain(p) ==
    /\ proc' = [p EXCEPT !.st = "up", !.plain = TRUE,
                         !.bind = IF FlagOn(conf.public_bind) THEN "all" ELSE "loopback"]
    /\ UNCHANGED <<file, pins, stuck>>

\* The files are read; the fingerprint is printed before they are used.
ServeFiles(p) ==
    /\ stuck' = (stuck \/ ~Loads)
    /\ proc' = IF Loads THEN [p EXCEPT !.st = "up", !.bind = "all", !.pair = file.cert]
               ELSE Down
    /\ IF file.cert > 0 /\ file.key # Absent THEN Reports(p, file.cert) ELSE UNCHANGED pins
    /\ UNCHANGED file

\* Mutant: the fingerprint is printed before the pair is on disk.
AnnouncesAt(st) == st = "cert"

\* The fingerprint is printed once the pair is on disk.
Announces(st) == st = "up"

\* A pair is generated; the certificate is written first, then the key.
Generate(p) ==
    LET i == NewPair
    IN /\ proc' = [p EXCEPT !.st = "cert", !.pair = i]
       /\ file' = [file EXCEPT !.cert = Torn]
       /\ IF Announces("cert") THEN Reports(p, i) ELSE UNCHANGED pins
       /\ UNCHANGED stuck

\* The process that has read its settings.
Configured(c) == [Down EXCEPT !.auth = Auth(c), !.turn = TurnOn(c)]

StartServer ==
    /\ proc.st = "down" /\ BootSpend("starts")
    /\ LET p == Configured(conf)
       IN \/ p.auth.mode = "refused" /\ UNCHANGED <<proc, file, pins, stuck>>
          \/ /\ p.auth.mode # "refused"
             /\ \/ FlagOn(conf.tls_disable) /\ ServePlain(p)
                \/ ~FlagOn(conf.tls_disable) /\ Reusable /\ ServeFiles(p)
                \/ ~FlagOn(conf.tls_disable) /\ ~Reusable /\ Generate(p)
    /\ UNCHANGED <<conf, minted, spoilt, served>>

\* fs::write of the certificate ends; write_private() creates and truncates the
\* key file; its write ends and the server serves.
WriteFiles ==
    /\ \/ /\ proc.st = "cert"
          /\ proc' = [proc EXCEPT !.st = "between"]
          /\ file' = [file EXCEPT !.cert = proc.pair] /\ UNCHANGED pins
       \/ /\ proc.st = "between"
          /\ proc' = [proc EXCEPT !.st = "key"]
          /\ file' = [file EXCEPT !.key = Torn] /\ UNCHANGED pins
       \/ /\ proc.st = "key"
          /\ proc' = [proc EXCEPT !.st = "up", !.bind = "all"]
          /\ file' = [file EXCEPT !.key = proc.pair]
          /\ IF Announces("up") THEN Reports(proc, proc.pair) ELSE UNCHANGED pins
    /\ UNCHANGED <<conf, minted, spoilt, stuck, served, bootBudget>>

\* The process ends, for whatever reason.
Kill ==
    /\ proc.st # "down" /\ BootSpend("kills")
    /\ proc' = Down
    /\ spoilt' = (spoilt \/ Torn \in {file.cert, file.key})
    /\ UNCHANGED <<conf, file, minted, pins, stuck, served>>

-----------------------------------------------------------------------------
(***************************************************************************)
(* Letting in, and charging for requests.                                  *)
(***************************************************************************)
\* AuthConfig::check().
Check(auth, r, t) == auth.mode = "open" \/ t = <<r, auth.key>>

\* A Join with a token that was handed out, with none, or with one that anybody
\* can make.
JoinRoom(r) ==
    /\ proc.st = "up" /\ BootSpend("requests")
    /\ \E t \in minted \cup {<<>>} \cup {<<q, "">> : q \in TokenRoom} :
         /\ Check(proc.auth, r, t)
         /\ served' = [served EXCEPT !.guest = [room |-> r, token |-> t, auth |-> proc.auth]]
    /\ UNCHANGED <<conf, file, proc, minted, pins, spoilt, stuck>>

LastHop(xff) == xff[Len(xff)]

\* client_ip(): behind a proxy on this host the last hop of its header.
ClientIp(peer, xff) == IF peer = "loopback" /\ xff # <<>> THEN LastHop(xff) ELSE peer

\* A request of someone on another host, who fills in the header, directly or
\* through the proxy, which appends what it saw.
JoinFrom(from, forged) ==
    /\ proc.st = "up" /\ BootSpend("requests")
    /\ \/ /\ proc.bind = "all"
          /\ served' = [served EXCEPT !.charge = [from |-> from, to |-> ClientIp(from, forged)]]
       \/ served' = [served EXCEPT !.charge =
                       [from |-> from, to |-> ClientIp("loopback", Append(forged, from))]]
    /\ UNCHANGED <<conf, file, proc, minted, pins, spoilt, stuck>>

BootNext ==
    \/ Configure \/ StartServer \/ WriteFiles \/ Kill
    \/ \E f \in {"cert", "key"} : RemoveFile(f)
    \/ \E r \in TokenRoom : Mint(r) \/ JoinRoom(r)
    \/ \E from \in {"host1", "host2"}, forged \in {<<>>, <<"host1">>, <<"loopback">>} :
         JoinFrom(from, forged)

BootSpec == BootInit /\ [][BootNext]_bootVars

-----------------------------------------------------------------------------
\* A fingerprint that was printed stays the server's, through kills and
\* restarts, until the operator removes a file: what clients pin keeps working
\* (tls.rs: "so the pinned fingerprint stays stable across restarts").  And a
\* start fails on the files only if a kill tore one of them, or the operator
\* removed one: a kill between the two writes is made good by the next start.
PinsStayGood ==
    /\ Cardinality(pins) <= 1
    /\ proc.st = "up" /\ ~proc.plain => pins = {proc.pair}
    /\ stuck => spoilt

\* Whoever is in a room was given a token for that room, made with the secret
\* the server runs with, or the operator asked for open mode: neither a missing
\* nor an empty secret opens the rooms.
OnlyInvited ==
    served.guest.room # "none" =>
      \/ served.guest.auth.mode = "open"
      \/ /\ served.guest.token \in minted
         /\ served.guest.token = <<served.guest.room, served.guest.auth.key>>

\* A request is charged to the address it came from, whatever its header says,
\* directly or behind the proxy.
ChargedToSender == served.charge.to = served.charge.from

\* The server is open to whom the operator meant, and charges who asked: the two
\* decisions it takes about a request before it is let in.
ServedRight == OnlyInvited /\ ChargedToSender
=============================================================================
