--------------------------- MODULE AccessControl ----------------------------
(***************************************************************************)
(* access_ornot() of src/secure_access.c: may the client at address `peer' *)
(* use the server?  The value of `mask' in config.ini, ADDRESS/MASK, is    *)
(* taken apart by two copying loops, one pointer p and one counter of dots *)
(* that serves both; then the two parts and the peer's address become      *)
(* integers.                                                               *)
(*                                                                         *)
(* Characters are integers: an octet (its digits are one character here),  *)
(* or one of the three below.  An octet has OctetBits bits instead of      *)
(* eight, and an int has four times as many.                               *)
(***************************************************************************)
EXTENDS Integers, Sequences, FiniteSets

CONSTANTS
  OctetBits,   \* width of an octet
  Octets       \* octets that addresses and masks are made of

Dot == -1
Slash == -2
Nul == -3

\* x << n and x >> n, bit by bit: Shl[n][x] and Shr[n][x].
Shl[n \in Nat] ==
  IF n = 0 THEN [x \in Int |-> x] ELSE [x \in Int |-> Shl[n - 1][2 * x]]
Shr[n \in Nat] ==
  IF n = 0 THEN [x \in Int |-> x] ELSE [x \in Int |-> Shr[n - 1][x \div 2]]

ASSUME AccessAssumption ==
  /\ OctetBits \in Nat \ {0}
  /\ Octets \subseteq Nat
  /\ \A o \in Octets : o < Shl[OctetBits][1]

VARIABLES
  pc,        \* where access_ornot() is
  parts,     \* ghost: the octets of the two halves of the value, and whether
             \* there is a slash between them
  text,      \* what GetConfig("mask") returned
  p,         \* index of the next character of text
  count,     \* dots seen or written so far
  ipinfo,    \* the address as copied
  maskinfo,  \* the mask as copied
  peer,      \* the client's address, four octets
  verdict    \* what access_ornot() returned

vars == <<pc, parts, text, p, count, ipinfo, maskinfo, peer, verdict>>
input == <<parts, text, peer>>

Tuples(m, n) == UNION {[1..k -> Octets] : k \in m..n}

\* "1.2.3" as characters.
Dotted(octets) ==
  [i \in 1..(IF octets = <<>> THEN 0 ELSE 2 * Len(octets) - 1) |->
     IF i % 2 = 1 THEN octets[(i + 1) \div 2] ELSE Dot]

\* The values a `mask' line may have: nothing, an address alone, or an
\* address of one to four octets, a slash and a mask of up to four.
Written(h) ==
  (IF h.slash THEN Dotted(h.addr) \o <<Slash>> \o Dotted(h.mask)
              ELSE Dotted(h.addr)) \o <<Nul>>

Halves ==
  [slash : {TRUE}, addr : Tuples(1, 4), mask : Tuples(0, 4)]
    \cup [slash : {FALSE}, addr : Tuples(0, 4), mask : {<<>>}]

Init ==
  /\ parts \in Halves
  /\ text = Written(parts)
  /\ pc = "start" /\ p = 1 /\ count = 0
  /\ ipinfo = <<>> /\ maskinfo = <<>>
  /\ peer = <<>> /\ verdict = "none"

-----------------------------------------------------------------------------
(* ipadd_to_longlong().                                                    *)

Dots(s) == {i \in 1..Len(s) : s[i] = Dot}

\* atoi(): the number at position i of s, 0 where there is none.
Atoi(s, i) == IF i <= Len(s) /\ s[i] >= 0 THEN s[i] ELSE 0

\* The position after the k-th dot: strchr(p, '.') + 1, k times.
AfterDot(s, k) ==
  IF k = 0 THEN 1
  ELSE 1 + CHOOSE i \in Dots(s) : Cardinality({j \in Dots(s) : j <= i}) = k

\* The third strchr() finds a dot; otherwise it returns a null pointer.
Convertible(s) == Cardinality(Dots(s)) >= 3

\* The sum of the shifted octets in an int, whose top bit is its sign, and
\* which keeps its value as a long long.
Width == 4 * OctetBits
ToLongLong(s) ==
  LET sum == Shl[3 * OctetBits][Atoi(s, AfterDot(s, 0))]
             + Shl[2 * OctetBits][Atoi(s, AfterDot(s, 1))]
             + Shl[OctetBits][Atoi(s, AfterDot(s, 2))]
             + Atoi(s, AfterDot(s, 3))
  IN IF sum >= Shl[Width - 1][1] THEN sum - Shl[Width][1] ELSE sum

\* Bit i of the two's complement of x.
Bit(x, i) == Shr[i][x] % 2

Ints == -Shl[Width - 1][1] .. (Shl[Width - 1][1] - 1)

\* x & y for long longs that fit an int.
BitAnd(x, y) ==
  CHOOSE z \in Ints : \A i \in 0..(Width - 1) : Bit(z, i) = Bit(x, i) * Bit(y, i)

-----------------------------------------------------------------------------
(* access_ornot().                                                         *)

GoTo(loc) == pc' = loc /\ UNCHANGED <<input, verdict>>

\* An empty value permits everybody.
Start ==
  /\ pc = "start"
  /\ IF text[1] = Nul
     THEN pc' = "done" /\ verdict' = "permit" /\ UNCHANGED input
     ELSE GoTo("address")
  /\ UNCHANGED <<p, count, ipinfo, maskinfo>>

\* Both loops count dots with the same counter.
Counted == IF text[p] = Dot THEN count + 1 ELSE count

\* while (*p != '/'): the copy of the address, which does not look for the
\* end of the text and runs out of it when there is no slash.
CopyAddress ==
  /\ pc = "address"
  /\ \/ /\ text[p] \notin {Slash, Nul}
        /\ ipinfo' = Append(ipinfo, text[p]) /\ count' = Counted
        /\ p' = p + 1
        /\ GoTo("address")
     \/ /\ text[p] = Slash
        /\ GoTo("padaddress") /\ UNCHANGED <<p, count, ipinfo>>
     \/ /\ text[p] = Nul
        /\ GoTo("overrun") /\ UNCHANGED <<p, count, ipinfo>>
  /\ UNCHANGED maskinfo

\* Mutant of PadAddress: the counter is not counted up, and the loop goes on
\* (here as long as there is room).
PadAddress_NoCount ==
  /\ pc = "padaddress"
  /\ IF count < 3
     THEN /\ Len(ipinfo) < 12
          /\ ipinfo' = ipinfo \o <<Dot, 0>> /\ GoTo("padaddress")
          /\ UNCHANGED <<p, count>>
     ELSE p' = p + 1 /\ GoTo("mask") /\ UNCHANGED <<count, ipinfo>>
  /\ UNCHANGED maskinfo

\* Mutant of PadAddress: the counter starts again for the mask.
PadAddress_Resets ==
  /\ pc = "padaddress"
  /\ IF count < 3
     THEN /\ ipinfo' = ipinfo \o <<Dot, 0>> /\ count' = count + 1
          /\ GoTo("padaddress") /\ UNCHANGED p
     ELSE p' = p + 1 /\ count' = 0 /\ GoTo("mask") /\ UNCHANGED ipinfo
  /\ UNCHANGED maskinfo

\* while (count < 3): `.0' for each octet that is missing; then over the
\* slash.  The counter keeps its value.
PadAddress ==
  /\ pc = "padaddress"
  /\ IF count < 3
     THEN /\ ipinfo' = ipinfo \o <<Dot, 0>> /\ count' = count + 1
          /\ GoTo("padaddress") /\ UNCHANGED p
     ELSE p' = p + 1 /\ GoTo("mask") /\ UNCHANGED <<count, ipinfo>>
  /\ UNCHANGED maskinfo

\* while (*p != '\0'): the copy of the mask.
CopyMask ==
  /\ pc = "mask"
  /\ IF text[p] # Nul
     THEN /\ maskinfo' = Append(maskinfo, text[p]) /\ count' = Counted
          /\ p' = p + 1
          /\ GoTo("mask")
     ELSE GoTo("padmask") /\ UNCHANGED <<p, count, maskinfo>>
  /\ UNCHANGED ipinfo

PadMask ==
  /\ pc = "padmask"
  /\ IF count < 3
     THEN /\ maskinfo' = maskinfo \o <<Dot, 0>> /\ count' = count + 1
          /\ GoTo("padmask")
     ELSE GoTo("compare") /\ UNCHANGED <<count, maskinfo>>
  /\ UNCHANGED <<p, ipinfo>>

\* Mutant of Compare: the masked peer is compared as an int of its own.
Compare_Unsigned ==
  /\ pc = "compare"
  /\ IF Convertible(ipinfo) /\ Convertible(maskinfo)
     THEN \E a \in [1..4 -> Octets] :
            LET masked == BitAnd(ToLongLong(maskinfo), ToLongLong(Dotted(a)))
            IN /\ peer' = a /\ pc' = "done"
               /\ verdict' =
                    IF ToLongLong(ipinfo)
                         = IF masked < 0 THEN masked + Shl[Width][1] ELSE masked
                    THEN "permit" ELSE "deny"
     ELSE pc' = "fault" /\ UNCHANGED <<peer, verdict>>
  /\ UNCHANGED <<parts, text, p, count, ipinfo, maskinfo>>

\* The comparison, with a peer of any address.  A part without three dots
\* makes atoi() follow a null pointer: the listener faults.
Compare ==
  /\ pc = "compare"
  /\ IF Convertible(ipinfo) /\ Convertible(maskinfo)
     THEN \E a \in [1..4 -> Octets] :
            /\ peer' = a /\ pc' = "done"
            /\ verdict' =
                 IF ToLongLong(ipinfo)
                      = BitAnd(ToLongLong(maskinfo), ToLongLong(Dotted(a)))
                 THEN "permit" ELSE "deny"
     ELSE pc' = "fault" /\ UNCHANGED <<peer, verdict>>
  /\ UNCHANGED <<parts, text, p, count, ipinfo, maskinfo>>

Next ==
  Start \/ CopyAddress \/ PadAddress \/ CopyMask \/ PadMask \/ Compare

Spec == Init /\ [][Next]_vars /\ WF_vars(Next)

-----------------------------------------------------------------------------
Characters == Octets \cup {0, Dot, Slash, Nul}
Locations == {"start", "address", "padaddress", "mask", "padmask", "compare",
              "done", "fault", "overrun"}

TypeOK ==
  /\ pc \in Locations
  /\ text \in Seq(Characters)
  /\ p \in 1..Len(text)
  /\ count \in 0..6
  /\ ipinfo \in Seq(Octets \cup {0, Dot}) /\ Len(ipinfo) <= 7
  /\ maskinfo \in Seq(Octets \cup {0, Dot})
  /\ verdict \in {"none", "permit", "deny"}

\* The rule of the comment at secure_access.c:10-14, octet by octet and bit
\* by bit: the peer's address under the mask is the address, in which
\* missing octets are 0.
Matches(addr, mask, a) ==
  \A k \in 1..4, i \in 0..(OctetBits - 1) :
    Bit(IF k <= Len(addr) THEN addr[k] ELSE 0, i) = Bit(mask[k], i) * Bit(a[k], i)

\* The verdict is that rule's, whatever the address leaves out and although
\* addresses from 128.0.0.0 on are negative numbers (secure_access.c:24-40).
VerdictExact ==
  pc = "done" /\ text[1] # Nul =>
    (verdict = "permit" <=> Matches(parts.addr, parts.mask, peer))

\* A verdict comes from a mask of four octets, as written: a shorter one is
\* never completed, for the dots of the address are still counted
\* (secure_access.c:53-92), and ends in a fault instead.
WholeMask ==
  /\ pc \in {"done", "fault"} /\ text[1] # Nul =>
       maskinfo = Dotted(parts.mask)
  /\ pc = "done" => text[1] = Nul \/ Len(parts.mask) = 4

\* access_ornot() comes to an end: each loop moves its pointer or its
\* counter (secure_access.c:62-66, 69-74, 81-94).
CheckEnds == <>(pc \in {"done", "fault", "overrun"})
=============================================================================
