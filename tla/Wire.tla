-------------------------------- MODULE Wire --------------------------------
(***************************************************************************)
(* A packet on the broadcast: the two builders (build_mqtt_publish of the  *)
(* C firmware, make_publish_packet of engine.py, which the MicroPython     *)
(* firmware uses too) and the reader of the server (parse_packet of        *)
(* engine.py).                                                             *)
(*                                                                         *)
(* What a packet says does not matter here, only how long its parts are:   *)
(* a slice of the packet's body is the set of the byte positions in it.    *)
(* The body is everything after the length digits: two bytes of topic      *)
(* length, the topic, the payload.                                         *)
(***************************************************************************)
EXTENDS Integers, Sequences

CONSTANTS
    FromC,          \* the packets the C firmware builds: [topic, payload],
                    \* the lengths of the two in bytes
    FromPython,     \* the packets built by engine.py
    BUF_SIZE        \* the buffer of publish (512 in the code)

ASSUME WireAssumption ==
    /\ FromC \cup FromPython \subseteq [topic : Nat, payload : Nat]
    /\ BUF_SIZE \in Nat

VARIABLES
    datagram,       \* the packet on its way: [digits, topic, payload]
    parsed          \* what parse_packet made of it

wirevars == <<datagram, parsed>>

None == [kind |-> "none"]

-----------------------------------------------------------------------------
(* pack_remaining_length and the loop of build_mqtt_publish: seven bits a  *)
(* digit, the lowest first, the top bit on all digits but the last.        *)
Digits[n \in Nat] ==
    IF n < 128 THEN <<n>> ELSE <<128 + (n % 128)>> \o Digits[n \div 128]

BodyLen(p) == 2 + p.topic + p.payload

(* Mutant: the two bytes of the topic length are not counted. *)
Bug_Build(p) ==
    [digits |-> Digits[p.topic + p.payload], topic |-> p.topic,
     payload |-> p.payload]

Build(p) ==
    [digits |-> Digits[BodyLen(p)], topic |-> p.topic, payload |-> p.payload]

(* publish gives up on a packet that does not fit its buffer. *)
Fits(p) == 1 + Len(Digits[BodyLen(p)]) + BodyLen(p) <= BUF_SIZE

-----------------------------------------------------------------------------
(* unpack_remaining_length takes the first digit for the highest.          *)
unpack_remaining_length(digits) ==
    LET total[i \in 0 .. Len(digits)] == IF i = 0 THEN 0 ELSE (128 * total[i - 1]) + (digits[i] % 128)
    IN  total[Len(digits)]

(* body[from:to] of a body of len bytes. *)
Slice(from, to, len) == {i \in from .. to - 1 : i < len}

(* The topic length of a body: its high byte is shifted out of the mask.   *)
topic_len(p) == p.topic % 256

(* parse_packet on a PUBLISH.  Bytes beyond the length it has read are     *)
(* taken for tagged records.  They are text, and which text decides:       *)
(* parse_ttrs comes to an end, or raises, or finds a request for a reply,  *)
(* on which listen raises (max_qos is not defined anywhere).  A single     *)
(* byte always makes it raise.                                             *)
parse_packet(p) ==
    LET len   == BodyLen(p)
        total == unpack_remaining_length(p.digits)
        out   == [kind  |-> "publish",
                  topic |-> Slice(2, topic_len(p) + 2, len),
                  value |-> Slice(topic_len(p) + 2, total, len)]
    IN CASE len <= total     -> {out}
         [] len = total + 1  -> {[kind |-> "raises"]}
         [] OTHER            -> {out, [kind |-> "raises"]}

-----------------------------------------------------------------------------
WireInit == datagram = None /\ parsed = None

Quiet == datagram = None

(* mqttudp_send_sensor_data, mqttudp_send_config *)
PublishFromC(p) ==
    /\ Quiet
    /\ Fits(p)
    /\ datagram' = Build(p)
    /\ parsed' = None

(* send_publish: run of the MicroPython firmware, or any user of engine.py *)
PublishFromPython(p) ==
    /\ Quiet
    /\ datagram' = Build(p)
    /\ parsed' = None

(* listen: the next datagram, parsed before any handler sees it. *)
Listen ==
    /\ ~Quiet /\ parsed = None
    /\ parsed' \in parse_packet(datagram)
    /\ UNCHANGED datagram

(* The next round. *)
Done ==
    /\ parsed # None
    /\ datagram' = None
    /\ parsed' = None

WireNext ==
    \/ \E p \in FromC : PublishFromC(p)
    \/ \E p \in FromPython : PublishFromPython(p)
    \/ Listen
    \/ Done

WireSpec == WireInit /\ [][WireNext]_wirevars

-----------------------------------------------------------------------------
(* What a reader should make of a packet. *)
Whole(p) ==
    [kind  |-> "publish",
     topic |-> 2 .. p.topic + 1,
     value |-> p.topic + 2 .. BodyLen(p) - 1]

(* What was sent is what parse_packet gives to recv_packet: the topic and  *)
(* the payload, whole, and never an exception, which would end the         *)
(* listener.  The digits are read in the wrong order; the property says    *)
(* that this does no harm to the packets in question (engine.py).          *)
ReadBack == parsed # None => parsed = Whole(datagram)
=============================================================================
