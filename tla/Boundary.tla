------------------------------ MODULE Boundary ------------------------------
(***************************************************************************)
(* What users type, from the shell's guards to the limits of the server and *)
(* of the peers (desktop shell lib.rs, signaling.rs, server main.rs,        *)
(* mesh.rs, serverless.rs).  The guards are spread over three programs;     *)
(* what one lets through, the next one may drop without a word.             *)
(*                                                                         *)
(* A text is its number of characters, the bytes of one character, those of *)
(* one character in JSON (where quotes, backslashes and control characters  *)
(* are escaped), and whether its characters are allowed; a number is finite *)
(* or not, in thousandths.                                                 *)
(***************************************************************************)
EXTENDS Integers, Sequences

CONSTANTS
    Length,        \* numbers of characters tried
    Number         \* numbers tried

ASSUME BoundaryConstants == Length \subseteq Nat /\ Number \subseteq Int

VARIABLES
    call,      \* what the webview asks for
    got        \* how far it came: shell, refused, or what the far end does

boundaryVars == <<call, got>>

\* One byte is escaped to two (quote, backslash, line feed) or to six (another
\* control character, which no name may have); nothing longer is.
Text ==
    {t \in [n : Length, w : 1 .. 4, j : {1, 2, 3, 4, 6}, ok : BOOLEAN] :
       /\ t.j = t.w \/ (t.w = 1 /\ t.j \in {2, 6})
       /\ t.j = 6 => ~t.ok}
Bytes(t) == t.n * t.w
JsonBytes(t) == t.n * t.j

\* Limits of the server, of the peers and of the shell.
MAX_ID == 64
MAX_NAME == 64
MAX_TOKEN == 128
MAX_CHANNEL_LEN == 32
MAX_CHANNELS_SHARED == 64
MAX_CHAT_LEN == 2000
MAX_CHAT_CHARS == 2000
MAX_CHAT_BYTES == 4096
MAX_CTRL_BYTES == 8192
MAX_CODE_LEN == 32768

-----------------------------------------------------------------------------
(***************************************************************************)
(* connect(): one field varies, the others are fine.                       *)
(***************************************************************************)
\* server_url_ok(): wss:// to any host, ws:// to the loopback host only;
\* url_host() reads the host behind user info and before port and path.
ServerUrlOk(u) ==
    \/ u.scheme = "wss" /\ u.host # "none"
    \/ u.scheme = "ws" /\ u.host = "loopback"

\* valid_id() and valid_user_id(), bytes of a safe alphabet.
ValidId(t) == t.n > 0 /\ Bytes(t) <= MAX_ID /\ t.ok /\ t.w = 1

\* valid_name(), valid_channel(): characters are counted, not bytes.
ValidName(t) == t.n > 0 /\ t.n <= MAX_NAME /\ t.ok
ValidChannel(t) == t.n > 0 /\ t.n <= MAX_CHANNEL_LEN /\ t.ok

\* clean_token(), clean_cert(), clean_device(): empty means none.
ValidHex(t, max) == t.n > 0 /\ Bytes(t) <= max /\ t.ok /\ t.w = 1
CleanToken(t)  == t.n = 0 \/ ValidHex(t, MAX_TOKEN)
CleanCert(t)   == t.n = 0 \/ (t.n = 64 /\ ValidHex(t, 64))
CleanDevice(t) == t.n = 0 \/ Bytes(t) <= 256

\* valid_code(): base64, and blanks of any script.
ValidCode(t) == t.n > 0 /\ Bytes(t) <= MAX_CODE_LEN /\ t.ok

ConnectOk(f, t) ==
    CASE f \in {"room", "user_id"} -> ValidId(t)
      [] f = "name" -> ValidName(t)
      [] f = "token" -> CleanToken(t)
      [] f = "cert" -> CleanCert(t)
      [] f = "device" -> CleanDevice(t)

\* len_ok() and the check of a Join: bytes are counted.
LenOk(t, max) == t.n > 0 /\ Bytes(t) <= max
JoinOk(f, t) ==
    CASE f \in {"room", "user_id"} -> LenOk(t, MAX_ID)
      [] f = "name" -> LenOk(t, MAX_NAME)
      [] f = "token" -> Bytes(t) <= MAX_TOKEN
      [] OTHER -> TRUE

-----------------------------------------------------------------------------
(***************************************************************************)
(* Chat and channels on their way to a peer.                               *)
(***************************************************************************)
\* Bytes of the envelopes of a chat line (with the time in seconds), of a sealed
\* message and of a directory; of a line of the 1:1 mode.
CHAT_ENVELOPE == 38
ENC_ENVELOPE == 21
CHANNELS_ENVELOPE == 27
DIRECT_ENVELOPE == 27

\* The frame of a message: as it is, or with its number and tag in base64.
Framed(inner, sealed) ==
    IF sealed THEN 4 * ((inner + 24 + 2) \div 3) + ENC_ENVELOPE ELSE inner

\* bounded_chat(): cut to MAX_CHAT_LEN characters; blanks are not sent.
BoundedChat(t) == [t EXCEPT !.n = IF @ > MAX_CHAT_LEN THEN MAX_CHAT_LEN ELSE @]

\* Mutant: the frame limit is that of a chat line.
FrameTakenShort(bytes) == bytes <= MAX_CHAT_BYTES

\* on_message(): a frame over the limit is dropped before it is read.
FrameTaken(bytes) == bytes <= MAX_CTRL_BYTES

\* broadcast_chat(), dispatch_inner(): text over the limit is cut there.
ChatAtPeer(t, sealed) ==
    IF ~FrameTaken(Framed(JsonBytes(t) + CHAT_ENVELOPE, sealed)) THEN "dropped"
    ELSE IF t.n > MAX_CHAT_CHARS THEN "cut" ELSE "whole"

\* broadcast_channels(): k names, quoted and separated, in one frame.
DirectoryAtPeer(t, k) ==
    IF FrameTaken(Framed(k * (JsonBytes(t) + 3) - 1 + CHANNELS_ENVELOPE, FALSE))
      THEN "whole" ELSE "dropped"

\* The 1:1 mode: wire_chat() drops a line over its limit, and send_chat()
\* refuses it before it is sent.
DirectFits(t) == JsonBytes(t) + DIRECT_ENVELOPE <= MAX_CHAT_BYTES
WireChat(t) ==
    IF ~DirectFits(t) THEN "dropped" ELSE IF t.n > MAX_CHAT_CHARS THEN "cut" ELSE "whole"
ServerlessChat(t) == IF ~DirectFits(t) THEN "refused" ELSE WireChat(t)

-----------------------------------------------------------------------------
(***************************************************************************)
(* Numbers: norm_f32(), normalize_dsp(), normalize_radio(), clamp_vol().    *)
(***************************************************************************)
Num == [finite : BOOLEAN, v : Number]

KnobRange == [gate_threshold |-> <<0, 500, 15>>, comp_threshold |-> <<10, 1000, 150>>,
          comp_ratio |-> <<1000, 20000, 3000>>, comp_makeup |-> <<100, 4000, 1400>>,
          limiter_ceiling |-> <<50, 1000, 970>>,
          low_cut |-> <<50000, 1000000, 300000>>, high_cut |-> <<1200000, 12000000, 3400000>>,
          saturation |-> <<0, 1000, 350>>, destruction |-> <<0, 1000, 150>>,
          volume |-> <<0, 2000, 1000>>]

Norm(x, r) ==
    IF ~x.finite THEN r[3]
    ELSE IF x.v < r[1] THEN r[1] ELSE IF x.v > r[2] THEN r[2] ELSE x.v

-----------------------------------------------------------------------------
Call ==
    [kind : {"connect"}, field : {"room", "user_id", "name", "token", "cert", "device"}, t : Text]
    \cup [kind : {"server"}, url : [scheme : {"wss", "ws", "http"}, host : {"none", "loopback", "other"}]]
    \cup [kind : {"chat"}, t : Text, sealed : BOOLEAN]
    \cup [kind : {"serverless_chat", "code", "channel"}, t : Text]
    \cup [kind : {"directory"}, t : Text, k : {1, MAX_CHANNELS_SHARED}]
    \cup [kind : {"radio"}, low : Num, high : Num]
    \cup [kind : {"knob"}, knob : DOMAIN KnobRange, x : Num]

BoundaryInit == call \in Call /\ got = "asked"

\* The guards of the commands.
Guard ==
    /\ got = "asked"
    /\ got' = IF CASE call.kind = "connect" -> ConnectOk(call.field, call.t)
                   [] call.kind = "server" -> ServerUrlOk(call.url)
                   [] call.kind \in {"chat", "serverless_chat"} -> call.t.n > 0
                   [] call.kind = "code" -> ValidCode(call.t)
                   [] call.kind \in {"channel", "directory"} -> ValidChannel(call.t)
                   [] OTHER -> TRUE
                THEN "admitted" ELSE "refused"
    /\ UNCHANGED call

\* The far end.
Arrive ==
    /\ got = "admitted"
    /\ got' = CASE call.kind = "connect" -> IF JoinOk(call.field, call.t) THEN "whole" ELSE "bad_input"
                [] call.kind = "chat" -> ChatAtPeer(BoundedChat(call.t), call.sealed)
                [] call.kind = "serverless_chat" -> ServerlessChat(BoundedChat(call.t))
                [] call.kind = "directory" -> DirectoryAtPeer(call.t, call.k)
                [] OTHER -> "whole"
    /\ UNCHANGED call

BoundaryNext == Guard \/ Arrive

BoundarySpec == BoundaryInit /\ [][BoundaryNext]_boundaryVars

-----------------------------------------------------------------------------
\* The shell's own rule for a name is 1 to 64 characters without control
\* characters, and the frame limit is documented as one that a sealed chat line
\* keeps: what the shell admits would be taken at the far end.  It does not hold:
\* the server counts the bytes of a name, and a long line of characters that
\* take four bytes or more in JSON exceeds the frame.
AdmittedIsTaken == got \notin {"bad_input", "dropped"}

\* Every field of a join the shell admits is one the server takes, a name as
\* long as it has no more bytes than it may have characters.
FieldsAreTaken ==
    call.kind = "connect" /\ (call.field = "name" => Bytes(call.t) <= MAX_NAME)
      => got # "bad_input"

\* A full line, sealed, and a full directory of full names fit into a frame, if
\* their characters take up to three bytes in JSON.
FullFramesFit ==
    call.kind \in {"chat", "directory"} /\ call.t.j <= 3 => got # "dropped"

\* The 1:1 mode loses no line, whatever it is made of: one that the other end
\* would drop is refused, and the user told.
NoSilentLoss == call.kind = "serverless_chat" => got # "dropped"

\* The pass band of the radio effect never closes, and every setting reaches
\* the audio threads in its range, whatever number arrives.
SettingsStayUsable ==
    /\ call.kind = "radio" => Norm(call.low, KnobRange.low_cut) < Norm(call.high, KnobRange.high_cut)
    /\ call.kind = "knob" =>
         LET r == KnobRange[call.knob] IN Norm(call.x, r) \in r[1] .. r[2]

\* How far the guards of the shell and the limits of the far end agree, for
\* fields of a join, full frames, lines of the 1:1 mode and numbers.
GuardsSuffice ==
    FieldsAreTaken /\ FullFramesFit /\ NoSilentLoss /\ SettingsStayUsable
=============================================================================
