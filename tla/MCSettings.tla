----------------------------- MODULE MCSettings -----------------------------
(***************************************************************************)
(* Two documents with the same sum (digits swapped), one with nothing but  *)
(* a port, one without a port and with an item nobody asks for, one with a *)
(* port and with a number for the stop bits; a text without a comma where  *)
(* one belongs, with a key twice and with a last literal that is open and  *)
(* stands for a number, so that it may parse or not, one that is no hash,  *)
(* an empty file.  Memory that is not a value of a field gives a value     *)
(* that is not its default.                                                *)
(***************************************************************************)
EXTENDS Settings, Json

CONSTANTS swap48, swap84, short, noPort, digit, loose, list, com1, com2

L(s) == [t |-> "literal", v |-> s]
N(n) == [t |-> "number", v |-> n]
B(b) == [t |-> "boolean", v |-> b]
Pair(key, node) == <<L(key), Mark(":"), node>>

Swap(port) == [t |-> "{", v |->
    [com_mode |-> B(TRUE), serial_port |-> L(com1), stop_bits |-> L("1.5"),
     udp_in |-> N(port), expiry_hours |-> N(48)]]

MCDocuments ==
    (swap48 :> Swap(4800)) @@ (swap84 :> Swap(8400)) @@
    (short :> [t |-> "{", v |-> [serial_port |-> L(com2)]]) @@
    (noPort :> [t |-> "{", v |->
        [com_mode |-> B(FALSE), udp_in |-> N(4800),
         outputs |-> [t |-> "[", v |-> <<N(1), L(com2)>>]]]) @@
    (digit :> [t |-> "{", v |->
        [serial_port |-> L(com2), stop_bits |-> N(1), forward |-> B(TRUE)]])

MCOddTexts ==
    (loose :> <<Mark("{")>> \o Pair("serial_port", L(com2))
              \o Pair("serial_port", L(com1)) \o <<Mark(",")>>
              \o Pair("udp_in", [t |-> "open", v |-> com2])) @@
    (list :> <<Mark("["), N(4800), Mark("]")>>)

\* What loadFile finds in a file.
Text == [f \in DOMAIN MCDocuments |-> serialize(MCDocuments[f])]
        @@ MCOddTexts @@ (Empty :> <<>>)

\* What json::parse makes of it, by what lies behind it in the memory.
Results == [f \in DOMAIN Text |-> {parse(Text[f], past) : past \in Junk}]

MCParsed == Results

MCSum ==
    (swap48 :> 7) @@ (swap84 :> 7) @@ (short :> 4) @@ (noPort :> 5) @@
    (digit :> 8) @@ (loose :> 3) @@ (list :> 6) @@ (Missing :> 0)

MCAddresses == {"127.0.0.1"}

MCDefault == [useSerial |-> TRUE, serialPort |-> com1, baud |-> 4800,
              byteSize |-> 8, parity |-> Parities["None"],
              stopBits |-> StopBits["1"], forward |-> FALSE, inPort |-> 0,
              outPort |-> 0, useNativeProtocol |-> FALSE, expiryHours |-> 0,
              bindAddr |-> "INADDR_ANY"]

MCMisread == [f \in Field |->
    {CASE Type[f] = "boolean" -> ~Default[f]
       [] f = "serialPort" -> com2
       [] f = "bindAddr" -> "INADDR_NONE"
       [] OTHER -> 1}]
=============================================================================
