------------------------ MODULE AccessControlProofs -------------------------
(***************************************************************************)
(* Theorems about AccessControl: for octets of any width, where the        *)
(* pointer and the counter of access_ornot() are, which masks reach the    *)
(* comparison, what is compared, and that it is the documented rule.       *)
(***************************************************************************)
EXTENDS AccessControl, FiniteSetTheorems, SequenceTheorems, WellFoundedInduction,
        TLAPS

-----------------------------------------------------------------------------
(* The text.                                                               *)

\* Length of the dotted form of n octets.
Size(n) == IF n = 0 THEN 0 ELSE 2 * n - 1

A == Size(Len(parts.addr))
B == Size(Len(parts.mask))

LEMMA TupleType ==
  ASSUME NEW s \in Tuples(0, 4)
  PROVE  s \in Seq(Octets) /\ Len(s) \in 0..4
<1>1. PICK k \in 0..4 : s \in [1..k -> Octets]
  BY DEF Tuples
<1>2. k \in Nat
  BY <1>1
<1> QED BY <1>1, <1>2

LEMMA DottedIs ==
  ASSUME NEW s \in Tuples(0, 4)
  PROVE  /\ Len(Dotted(s)) = Size(Len(s)) /\ Size(Len(s)) \in 0..7
         /\ Dotted(s) \in Seq(Octets \cup {Dot})
         /\ \A i \in 1..Size(Len(s)) :
              /\ Dotted(s)[i] \in Octets \cup {Dot}
              /\ Dotted(s)[i] \notin {Slash, Nul}
              /\ Dotted(s)[i] = Dot <=> i % 2 = 0
<1>1. s \in Seq(Octets) /\ Len(s) \in 0..4
  BY TupleType
<1>2. Size(Len(s)) \in 0..7 /\ Size(Len(s)) = IF s = <<>> THEN 0 ELSE 2 * Len(s) - 1
  <2>1. s = <<>> <=> Len(s) = 0
    BY <1>1, EmptySeq
  <2>2. \A n \in 0..4 : Size(n) \in 0..7
    BY DEF Size
  <2> QED BY <1>1, <2>1, <2>2 DEF Size
<1>3. \A i \in 1..Size(Len(s)) : i % 2 = 1 => s[(i + 1) \div 2] \in Octets
  <2> SUFFICES ASSUME NEW i \in 1..Size(Len(s)), i % 2 = 1
      PROVE s[(i + 1) \div 2] \in Octets
    OBVIOUS
  <2>1. (i + 1) \div 2 \in 1..Len(s)
    BY <1>1, <1>2 DEF Size
  <2> QED BY <1>1, <2>1
<1>4. Dotted(s) = [i \in 1..Size(Len(s)) |->
                     IF i % 2 = 1 THEN s[(i + 1) \div 2] ELSE Dot]
  BY <1>2 DEF Dotted
<1>5. \A i \in 1..Size(Len(s)) : Dotted(s)[i] \in Octets \cup {Dot}
  BY <1>3, <1>4
<1>6. Dotted(s) \in Seq(Octets \cup {Dot}) /\ Len(Dotted(s)) = Size(Len(s))
  BY <1>2, <1>3, <1>4
<1>7. \A o \in Octets : o \notin {Dot, Slash, Nul}
  BY AccessAssumption DEF Dot, Slash, Nul
<1>8. Dot \notin {Slash, Nul}
  BY DEF Dot, Slash, Nul
<1>9. \A i \in 1..Size(Len(s)) : Dotted(s)[i] = Dot <=> i % 2 = 0
  <2> SUFFICES ASSUME NEW i \in 1..Size(Len(s))
      PROVE Dotted(s)[i] = Dot <=> i % 2 = 0
    OBVIOUS
  <2>1. i % 2 = 1 \/ i % 2 = 0
    BY <1>2
  <2> QED BY <1>3, <1>4, <1>7, <2>1
<1> QED BY <1>2, <1>5, <1>6, <1>7, <1>8, <1>9

InputRight == parts \in Halves /\ text = Written(parts)

LEMMA PartsType ==
  ASSUME InputRight
  PROVE  /\ parts.addr \in Tuples(0, 4) /\ parts.mask \in Tuples(0, 4)
         /\ parts.slash \in BOOLEAN /\ (parts.slash => Len(parts.addr) >= 1)
         /\ A \in 0..7 /\ B \in 0..7 /\ (parts.slash => A = 2 * Len(parts.addr) - 1)
<1>1. /\ parts.addr \in Tuples(0, 4) /\ parts.mask \in Tuples(0, 4)
      /\ parts.slash \in BOOLEAN /\ (parts.slash => Len(parts.addr) >= 1)
  <2>1. CASE parts \in [slash : {TRUE}, addr : Tuples(1, 4), mask : Tuples(0, 4)]
    <3>1. /\ parts.addr \in Tuples(1, 4) /\ parts.mask \in Tuples(0, 4)
          /\ parts.slash = TRUE
      BY <2>1
    <3>2. PICK k \in 1..4 : parts.addr \in [1..k -> Octets]
      BY <3>1 DEF Tuples
    <3>3. k \in 0..4 /\ Len(parts.addr) = k
      BY <3>2
    <3>4. parts.addr \in Tuples(0, 4)
      BY <3>2, <3>3 DEF Tuples
    <3>5. Len(parts.addr) >= 1
      BY <3>3
    <3>6. parts.slash \in BOOLEAN
      BY <3>1
    <3> QED BY <3>1, <3>4, <3>5, <3>6
  <2>2. CASE parts \in [slash : {FALSE}, addr : Tuples(0, 4), mask : {<<>>}]
    <3>1. <<>> \in [1..0 -> Octets]
      OBVIOUS
    <3>2. <<>> \in Tuples(0, 4)
      BY <3>1 DEF Tuples
    <3> QED BY <2>2, <3>2
  <2> QED BY <2>1, <2>2 DEF InputRight, Halves
<1>2. A \in 0..7 /\ B \in 0..7
  BY <1>1, DottedIs DEF A, B
<1>3. parts.slash => A = 2 * Len(parts.addr) - 1
  BY <1>1, TupleType DEF A, Size
<1> QED BY <1>1, <1>2, <1>3

\* Where what is in the text.
LEMMA TextIs ==
  ASSUME InputRight
  PROVE  /\ text \in Seq(Characters)
         /\ \A i \in 1..A : text[i] = Dotted(parts.addr)[i]
         /\ parts.slash => /\ Len(text) = A + B + 2 /\ text[A + 1] = Slash
                           /\ \A j \in 1..B : text[A + 1 + j] = Dotted(parts.mask)[j]
                           /\ text[A + B + 2] = Nul
         /\ ~parts.slash => Len(text) = A + 1 /\ text[A + 1] = Nul
<1> DEFINE a == Dotted(parts.addr)
           m == Dotted(parts.mask)
<1>1. /\ a \in Seq(Octets \cup {Dot}) /\ Len(a) = A /\ A \in 0..7
      /\ m \in Seq(Octets \cup {Dot}) /\ Len(m) = B /\ B \in 0..7
  BY PartsType, DottedIs DEF A, B
<1>2. text = (IF parts.slash THEN a \o <<Slash>> \o m ELSE a) \o <<Nul>>
  BY DEF InputRight, Written
<1> HIDE DEF a, m
<1>3. /\ a \in Seq(Characters) /\ m \in Seq(Characters)
      /\ <<Slash>> \in Seq(Characters) /\ <<Nul>> \in Seq(Characters)
  <2>1. Octets \cup {Dot} \subseteq Characters
    BY DEF Characters
  <2>2. Slash \in Characters /\ Nul \in Characters
    BY DEF Characters
  <2> QED BY <1>1, <2>1, <2>2
<1>4. CASE parts.slash
  <2>1. a \o <<Slash>> \in Seq(Characters) /\ Len(a \o <<Slash>>) = A + 1
    BY <1>1, <1>3
  <2>2. /\ \A i \in 1..A : (a \o <<Slash>>)[i] = a[i]
        /\ (a \o <<Slash>>)[A + 1] = Slash
    BY <1>1, <1>3
  <2> DEFINE t == a \o <<Slash>>
  <2> HIDE DEF t
  <2>3. /\ t \o m \in Seq(Characters) /\ Len(t \o m) = A + 1 + B
        /\ \A i \in 1..(A + 1) : (t \o m)[i] = t[i]
        /\ \A j \in 1..B : (t \o m)[A + 1 + j] = m[j]
    BY <1>1, <1>3, <2>1 DEF t
  <2> DEFINE u == t \o m
  <2> HIDE DEF u
  <2>4. /\ u \o <<Nul>> \in Seq(Characters) /\ Len(u \o <<Nul>>) = A + B + 2
        /\ \A i \in 1..(A + 1 + B) : (u \o <<Nul>>)[i] = u[i]
        /\ (u \o <<Nul>>)[A + B + 2] = Nul
    BY <1>1, <1>3, <2>3 DEF u
  <2>5. text = u \o <<Nul>>
    BY <1>2, <1>4 DEF u, t
  <2>6. \A i \in 1..A : text[i] = a[i]
    BY <1>1, <2>2, <2>3, <2>4, <2>5 DEF u, t
  <2>7. text[A + 1] = Slash
    BY <1>1, <2>2, <2>3, <2>4, <2>5 DEF u, t
  <2>8. \A j \in 1..B : text[A + 1 + j] = m[j]
    BY <1>1, <2>3, <2>4, <2>5 DEF u
  <2> QED BY <1>4, <2>4, <2>5, <2>6, <2>7, <2>8 DEF a, m
<1>5. CASE ~parts.slash
  <2>1. text = a \o <<Nul>>
    BY <1>2, <1>5
  <2>2. /\ a \o <<Nul>> \in Seq(Characters) /\ Len(a \o <<Nul>>) = A + 1
        /\ \A i \in 1..A : (a \o <<Nul>>)[i] = a[i]
        /\ (a \o <<Nul>>)[A + 1] = Nul
    BY <1>1, <1>3
  <2> QED BY <1>5, <2>1, <2>2 DEF a
<1> QED BY <1>4, <1>5, PartsType

-----------------------------------------------------------------------------
(* The inductive invariant.                                                *)

Copied == Seq(Octets \cup {0, Dot})

IType ==
  /\ pc \in Locations /\ InputRight
  /\ p \in 1..Len(text) /\ count \in 0..6
  /\ ipinfo \in Copied /\ Len(ipinfo) <= 7 /\ maskinfo \in Copied
  /\ verdict \in {"none", "permit", "deny"}

\* The address: every second character copied was a dot.
AddressInv ==
  /\ pc = "start" => p = 1 /\ count = 0 /\ ipinfo = <<>>
  /\ pc = "address" => p <= A + 1 /\ Len(ipinfo) = p - 1 /\ count = (p - 1) \div 2
  /\ pc = "padaddress" => /\ parts.slash /\ p = A + 1 /\ count <= 3
                          /\ Len(ipinfo) = 2 * count + 1
  /\ pc \in {"start", "address", "padaddress"} => maskinfo = <<>>

\* The mask: the counter goes on from the address.
MaskInv ==
  pc = "mask" =>
    /\ parts.slash /\ Len(maskinfo) <= B /\ p = A + 2 + Len(maskinfo)
    /\ count = 3 + (Len(maskinfo) \div 2)
    /\ \A i \in 1..Len(maskinfo) : maskinfo[i] = Dotted(parts.mask)[i]

Compared == pc \in {"padmask", "compare", "fault"} \/ (pc = "done" /\ text[1] # Nul)

EndInv ==
  /\ Compared => count >= 3 /\ maskinfo = Dotted(parts.mask)
  /\ pc = "done" => text[1] = Nul \/ Len(parts.mask) = 4

IInv == IType /\ AddressInv /\ MaskInv /\ EndInv

LEMMA Initial == Init => IInv
<1> SUFFICES ASSUME Init PROVE IInv OBVIOUS
<1>1. InputRight
  BY DEF Init, InputRight
<1>2. Len(text) \in Nat /\ 1 <= Len(text)
  BY <1>1, TextIs, PartsType
<1>3. IType
  BY <1>1, <1>2 DEF Init, IType, Locations, Copied
<1>4. AddressInv /\ MaskInv /\ EndInv
  BY DEF Init, AddressInv, MaskInv, EndInv, Compared
<1> QED BY <1>3, <1>4 DEF IInv

LEMMA StartStep ==
  ASSUME IInv, Start
  PROVE  IInv'
<1>1. /\ pc = "start" /\ UNCHANGED <<parts, text, p, count, ipinfo, maskinfo>>
      /\ \/ pc' = "done" /\ text[1] = Nul /\ verdict' = "permit"
         \/ pc' = "address" /\ UNCHANGED verdict
  BY DEF Start, GoTo, input
<1>2. IType'
  BY <1>1 DEF IInv, IType, InputRight, Locations
<1>3. p = 1 /\ count = 0 /\ ipinfo = <<>> /\ maskinfo = <<>>
  BY <1>1 DEF IInv, AddressInv
<1>4. A' = A /\ A \in 0..7
  BY <1>1, PartsType DEF A, IInv, IType
<1>5. AddressInv'
  BY <1>1, <1>3, <1>4 DEF AddressInv
<1>6. MaskInv' /\ EndInv'
  BY <1>1 DEF MaskInv, EndInv, Compared
<1> QED BY <1>2, <1>5, <1>6 DEF IInv

\* A character that is copied is one of an octet or a dot.
LEMMA Appended ==
  ASSUME NEW s \in Copied, NEW c \in Octets \cup {Dot}
  PROVE  Append(s, c) \in Copied /\ Len(Append(s, c)) = Len(s) + 1
BY DEF Copied

\* `.0' is added.
LEMMA Padded ==
  ASSUME NEW s \in Copied
  PROVE  s \o <<Dot, 0>> \in Copied /\ Len(s \o <<Dot, 0>>) = Len(s) + 2
<1>1. <<Dot, 0>> \in Copied /\ Len(<<Dot, 0>>) = 2
  BY DEF Copied
<1> QED BY <1>1, ConcatProperties DEF Copied

\* n octets have n - 1 dots between them.
LEMMA Halved ==
  ASSUME NEW n \in 1..4
  PROVE  (2 * n - 1) \div 2 = n - 1
<1>1. /\ (2 * 1 - 1) \div 2 = 0 /\ (2 * 2 - 1) \div 2 = 1
      /\ (2 * 3 - 1) \div 2 = 2 /\ (2 * 4 - 1) \div 2 = 3
  OBVIOUS
<1>2. n = 1 \/ n = 2 \/ n = 3 \/ n = 4
  OBVIOUS
<1> QED BY <1>1, <1>2

LEMMA CopyAddressStep ==
  ASSUME IInv, CopyAddress
  PROVE  IInv'
<1>1. /\ pc = "address" /\ InputRight /\ p \in Nat /\ p >= 1 /\ p <= A + 1
      /\ Len(ipinfo) = p - 1 /\ count = (p - 1) \div 2 /\ maskinfo = <<>>
      /\ ipinfo \in Copied /\ verdict \in {"none", "permit", "deny"}
  BY TextIs DEF CopyAddress, IInv, IType, AddressInv
<1>2. UNCHANGED <<parts, text, maskinfo, verdict>>
  BY DEF CopyAddress, GoTo, input
<1>3. /\ A' = A /\ A \in 0..7 /\ InputRight' /\ Len(text') >= A + 1 /\ Len(text') \in Nat
      /\ A = 2 * Len(parts.addr) - 1 \/ ~parts.slash
  <2>1. /\ A \in 0..7 /\ B \in 0..7 /\ parts.slash \in BOOLEAN
        /\ parts.slash => A = 2 * Len(parts.addr) - 1
    BY <1>1, PartsType
  <2>2. Len(text) \in Nat /\ (Len(text) = A + B + 2 \/ Len(text) = A + 1)
    BY <1>1, <2>1, TextIs
  <2>3. Len(text) >= A + 1
    BY <2>1, <2>2
  <2>4. A' = A /\ InputRight' /\ text' = text
    BY <1>1, <1>2 DEF A, InputRight
  <2> QED BY <2>1, <2>2, <2>3, <2>4
<1>4. /\ p <= A => text[p] \in Octets \cup {Dot} /\ text[p] \notin {Slash, Nul}
      /\ p <= A => (text[p] = Dot <=> p % 2 = 0)
  <2>0. p <= A => p \in 1..A
    BY <1>1, <1>3
  <2>1. p <= A => p \in 1..A /\ text[p] = Dotted(parts.addr)[p]
    BY <1>1, <2>0, TextIs
  <2> QED BY <1>1, <2>1, PartsType, DottedIs DEF A
<1>5. p = A + 1 => text[p] = IF parts.slash THEN Slash ELSE Nul
  BY <1>1, TextIs
<1>6. CASE text[p] \notin {Slash, Nul} /\ ipinfo' = Append(ipinfo, text[p])
           /\ count' = Counted /\ p' = p + 1 /\ pc' = "address"
  <2>1. p \in 1..A
    BY <1>1, <1>3, <1>5, <1>6
  <2>2. ipinfo' \in Copied /\ Len(ipinfo') = p
    BY <1>1, <1>4, <1>6, <2>1, Appended
  <2>3. count' = p \div 2
    BY <1>1, <1>4, <1>6, <2>1 DEF Counted
  <2>4. p' \in 1..Len(text') /\ count' \in 0..6 /\ Len(ipinfo') <= 7
    BY <1>3, <1>6, <2>1, <2>2, <2>3
  <2>5. IType'
    BY <1>1, <1>2, <1>3, <1>6, <2>2, <2>4, EmptySeq DEF IType, Locations, Copied
  <2>6. AddressInv'
    BY <1>1, <1>2, <1>3, <1>6, <2>1, <2>2, <2>3 DEF AddressInv
  <2> QED BY <1>6, <2>5, <2>6 DEF IInv, MaskInv, EndInv, Compared
<1>7. CASE text[p] = Slash /\ pc' = "padaddress" /\ UNCHANGED <<p, count, ipinfo>>
  <2>1. p = A + 1
    BY <1>1, <1>3, <1>4, <1>7
  <2>2. parts.slash
    BY <1>5, <1>7, <2>1, PartsType, <1>1 DEF Slash, Nul
  <2>3. count <= 3 /\ Len(ipinfo) = 2 * count + 1
    <3> DEFINE k == Len(parts.addr)
    <3>1. k \in 0..4 /\ k >= 1 /\ A = 2 * k - 1
      BY <1>1, <2>2, PartsType, TupleType
    <3>2. count = A \div 2 /\ Len(ipinfo) = A
      BY <1>1, <1>3, <2>1
    <3> HIDE DEF k
    <3>3. k \in 1..4
      BY <3>1
    <3>4. (2 * k - 1) \div 2 = k - 1
      BY <3>3, Halved
    <3>5. count = k - 1
      BY <3>1, <3>2, <3>4
    <3> QED BY <3>1, <3>2, <3>3, <3>5
  <2>4. IType'
    BY <1>1, <1>2, <1>3, <1>7, <2>1 DEF IInv, IType, Locations
  <2>5. AddressInv'
    BY <1>1, <1>2, <1>3, <1>7, <2>1, <2>2, <2>3 DEF AddressInv
  <2> QED BY <1>7, <2>4, <2>5 DEF IInv, MaskInv, EndInv, Compared
<1>8. CASE pc' = "overrun" /\ UNCHANGED <<p, count, ipinfo>>
  <2>1. IType'
    BY <1>1, <1>2, <1>3, <1>8 DEF IInv, IType, Locations
  <2> QED BY <1>8, <2>1 DEF IInv, AddressInv, MaskInv, EndInv, Compared
<1> QED BY <1>6, <1>7, <1>8 DEF CopyAddress, GoTo

LEMMA PadAddressStep ==
  ASSUME IInv, PadAddress
  PROVE  IInv'
<1>1. /\ pc = "padaddress" /\ InputRight /\ parts.slash /\ p = A + 1 /\ count \in 0..3
      /\ Len(ipinfo) = 2 * count + 1 /\ maskinfo = <<>> /\ ipinfo \in Copied
  BY DEF PadAddress, IInv, IType, AddressInv
<1>2. UNCHANGED <<parts, text, maskinfo, verdict>>
  BY DEF PadAddress, GoTo, input
<1>3. /\ A' = A /\ B' = B /\ A \in 0..7 /\ B \in 0..7 /\ InputRight'
      /\ Len(text') = A + B + 2
  BY <1>1, <1>2, PartsType, TextIs DEF A, B, InputRight
<1>4. CASE count < 3 /\ ipinfo' = ipinfo \o <<Dot, 0>> /\ count' = count + 1
           /\ pc' = "padaddress" /\ UNCHANGED p
  <2>1. ipinfo' \in Copied /\ Len(ipinfo') = 2 * count' + 1
    BY <1>1, <1>4, Padded
  <2>2. count' \in 0..3 /\ Len(ipinfo') <= 7
    BY <1>1, <1>4, <2>1
  <2>3. IType'
    BY <1>2, <1>3, <1>4, <2>1, <2>2 DEF IInv, IType, Locations
  <2>4. AddressInv'
    BY <1>1, <1>2, <1>3, <1>4, <2>1, <2>2 DEF AddressInv
  <2> QED BY <1>4, <2>3, <2>4 DEF IInv, MaskInv, EndInv, Compared
<1>5. CASE ~(count < 3) /\ p' = p + 1 /\ pc' = "mask" /\ UNCHANGED <<count, ipinfo>>
  <2>1. p' = A + 2 /\ p' \in 1..Len(text') /\ count' = 3
    BY <1>1, <1>3, <1>5
  <2>2. IType'
    BY <1>2, <1>3, <1>5, <2>1 DEF IInv, IType, Locations
  <2>3. MaskInv'
    BY <1>1, <1>2, <1>3, <1>5, <2>1 DEF MaskInv
  <2> QED BY <1>5, <2>2, <2>3 DEF IInv, AddressInv, EndInv, Compared
<1> QED BY <1>4, <1>5 DEF PadAddress, GoTo

LEMMA CopyMaskStep ==
  ASSUME IInv, CopyMask
  PROVE  IInv'
<1> DEFINE m == Dotted(parts.mask)
           n == Len(maskinfo)
<1>1. /\ pc = "mask" /\ InputRight /\ parts.slash /\ n \in Nat /\ n <= B
      /\ p = A + 2 + n /\ count = 3 + (n \div 2) /\ maskinfo \in Copied
      /\ \A i \in 1..n : maskinfo[i] = m[i]
  BY DEF CopyMask, IInv, IType, MaskInv, Copied
<1>2. UNCHANGED <<parts, text, ipinfo, verdict>>
  BY DEF CopyMask, GoTo, input
<1>3. /\ A' = A /\ B' = B /\ m' = m /\ A \in 0..7 /\ B \in 0..7 /\ InputRight'
      /\ Len(text') = A + B + 2 /\ m \in Copied /\ Len(m) = B
  <2>1. Seq(Octets \cup {Dot}) \subseteq Copied
    BY DEF Copied
  <2> QED BY <1>1, <1>2, <2>1, PartsType, TextIs, DottedIs DEF A, B, InputRight
<1>4. /\ n < B => /\ text[p] = m[n + 1] /\ text[p] \in Octets \cup {Dot}
                  /\ text[p] # Nul /\ (text[p] = Dot <=> (n + 1) % 2 = 0)
      /\ n = B => text[p] = Nul
  <2>1. n < B => n + 1 \in 1..B /\ text[A + 1 + (n + 1)] = m[n + 1]
    BY <1>1, <1>3, TextIs
  <2>2. p = A + 1 + (n + 1) /\ (n = B => p = A + B + 2)
    BY <1>1, <1>3
  <2>3. n < B => /\ m[n + 1] \in Octets \cup {Dot} /\ m[n + 1] # Nul
                 /\ (m[n + 1] = Dot <=> (n + 1) % 2 = 0)
    BY <1>1, <2>1, PartsType, DottedIs DEF B
  <2> QED BY <1>1, <2>1, <2>2, <2>3, TextIs
<1>5. CASE text[p] # Nul /\ maskinfo' = Append(maskinfo, text[p]) /\ count' = Counted
           /\ p' = p + 1 /\ pc' = "mask"
  <2>1. n < B
    BY <1>1, <1>3, <1>4, <1>5
  <2>2. maskinfo' \in Copied /\ Len(maskinfo') = n + 1
    BY <1>1, <1>4, <1>5, <2>1, Appended
  <2>3. \A i \in 1..(n + 1) : maskinfo'[i] = m[i]
    <3>1. \A i \in 1..n : maskinfo'[i] = maskinfo[i]
      BY <1>1, <1>5 DEF Copied
    <3>2. maskinfo'[n + 1] = text[p]
      BY <1>1, <1>5 DEF Copied
    <3> QED BY <1>1, <1>4, <2>1, <3>1, <3>2
  <2>4. count' = 3 + ((n + 1) \div 2)
    BY <1>1, <1>4, <1>5, <2>1 DEF Counted
  <2>5. count' \in 0..6 /\ p' = A + 2 + (n + 1) /\ p' \in 1..Len(text') /\ n + 1 <= B
    BY <1>1, <1>3, <1>5, <2>1, <2>4
  <2>6. IType'
    BY <1>2, <1>3, <1>5, <2>2, <2>5 DEF IInv, IType, Locations
  <2>7. MaskInv'
    BY <1>1, <1>2, <1>3, <1>5, <2>2, <2>3, <2>4, <2>5 DEF MaskInv
  <2> QED BY <1>5, <2>6, <2>7 DEF IInv, AddressInv, EndInv, Compared
<1>6. CASE text[p] = Nul /\ pc' = "padmask" /\ UNCHANGED <<p, count, maskinfo>>
  <2>1. n = B
    BY <1>1, <1>3, <1>4, <1>6
  <2>2. maskinfo = m
    BY <1>1, <1>3, <2>1 DEF Copied
  <2>3. IType'
    BY <1>2, <1>3, <1>6 DEF IInv, IType, Locations
  <2>4. EndInv'
    <3>1. count \in Nat /\ count >= 3
      BY <1>1
    <3> QED BY <1>3, <1>6, <2>2, <3>1 DEF EndInv, Compared
  <2> QED BY <1>6, <2>3, <2>4 DEF IInv, AddressInv, MaskInv
<1> QED BY <1>5, <1>6 DEF CopyMask, GoTo

LEMMA PadMaskStep ==
  ASSUME IInv, PadMask
  PROVE  IInv'
<1>1. /\ pc = "padmask" /\ count \in Nat /\ count >= 3 /\ maskinfo = Dotted(parts.mask)
  BY DEF PadMask, IInv, IType, EndInv, Compared
<1>2. /\ pc' = "compare"
      /\ UNCHANGED <<parts, text, p, ipinfo, verdict, count, maskinfo>>
  BY <1>1 DEF PadMask, GoTo, input
<1>3. IType'
  BY <1>2 DEF IInv, IType, InputRight, Locations
<1>4. EndInv'
  BY <1>1, <1>2 DEF EndInv, Compared
<1> QED BY <1>2, <1>3, <1>4 DEF IInv, AddressInv, MaskInv

\* A mask with three dots has four octets.
LEMMA WholeConverts ==
  ASSUME InputRight, Convertible(Dotted(parts.mask))
  PROVE  Len(parts.mask) = 4
<1> SUFFICES ASSUME Len(parts.mask) # 4 PROVE FALSE
  OBVIOUS
<1>1. parts.mask \in Tuples(0, 4) /\ Len(parts.mask) \in 0..3
  BY PartsType, TupleType
<1>2. Len(Dotted(parts.mask)) \in 0..5
  <2>1. \A n \in 0..3 : Size(n) \in 0..5
    BY DEF Size
  <2> QED BY <1>1, <2>1, DottedIs
<1>3. Dots(Dotted(parts.mask)) \subseteq {2, 4}
  <2> SUFFICES ASSUME NEW i \in 1..Len(Dotted(parts.mask)), Dotted(parts.mask)[i] = Dot
      PROVE i \in {2, 4}
    BY DEF Dots
  <2>1. i % 2 = 0
    BY <1>1, DottedIs
  <2> QED BY <1>2, <2>1
<1>4. IsFiniteSet({2, 4}) /\ Cardinality({2, 4}) = 2
  <2>1. IsFiniteSet({2}) /\ Cardinality({2}) = 1
    BY FS_Singleton
  <2>2. {2, 4} = {2} \cup {4} /\ 4 \notin {2}
    OBVIOUS
  <2> QED BY <2>1, <2>2, FS_AddElement
<1>5. Cardinality(Dots(Dotted(parts.mask))) <= 2
  BY <1>3, <1>4, FS_Subset
<1>6. Cardinality(Dots(Dotted(parts.mask))) \in Nat
  BY <1>3, <1>4, FS_Subset, FS_CardinalityType
<1> QED BY <1>5, <1>6 DEF Convertible

LEMMA CompareStep ==
  ASSUME IInv, Compare
  PROVE  IInv'
<1>1. /\ pc = "compare" /\ count >= 3 /\ maskinfo = Dotted(parts.mask) /\ InputRight
      /\ UNCHANGED <<parts, text, p, count, ipinfo, maskinfo>>
  BY DEF Compare, IInv, IType, EndInv, Compared
<1>2. /\ pc' \in {"done", "fault"} /\ verdict' \in {"permit", "deny", verdict}
      /\ pc' = "done" => Convertible(maskinfo)
  BY DEF Compare
<1>3. IType'
  BY <1>1, <1>2 DEF IInv, IType, InputRight, Locations
<1>4. EndInv'
  BY <1>1, <1>2, WholeConverts DEF EndInv, Compared
<1> QED BY <1>2, <1>3, <1>4 DEF IInv, AddressInv, MaskInv

-----------------------------------------------------------------------------
\* The inductive invariant: where the pointer and the counter are in the text.
THEOREM Invariance == Spec => []IInv
<1>1. Init => IInv
  BY Initial
<1>2. IInv /\ [Next]_vars => IInv'
  <2> SUFFICES ASSUME IInv, [Next]_vars PROVE IInv'
    OBVIOUS
  <2>1. CASE UNCHANGED vars
    BY <2>1 DEF vars, IInv, IType, InputRight, AddressInv, MaskInv, EndInv, Compared, A, B
  <2> QED BY <2>1, StartStep, CopyAddressStep, PadAddressStep, CopyMaskStep,
             PadMaskStep, CompareStep DEF Next
<1> QED BY <1>1, <1>2, PTL DEF Spec

\* Every variable keeps its type: the pointer stays in the text, and neither
\* copy has more than four octets and three dots, whatever the address leaves
\* out (secure_access.c:60-97).
THEOREM TypeCorrect == Spec => []TypeOK
<1>1. IInv => TypeOK
  BY TextIs DEF IInv, IType, Copied, TypeOK
<1> QED BY <1>1, Invariance, PTL

\* A verdict comes from a mask of four octets, as it was written: a shorter
\* one is never completed and ends in a fault (secure_access.c:53-92).
THEOREM MaskIsWhole == Spec => []WholeMask
<1>1. IInv => WholeMask
  BY DEF IInv, EndInv, Compared, WholeMask
<1> QED BY <1>1, Invariance, PTL

-----------------------------------------------------------------------------
(* What is compared.                                                       *)

\* The address, with a zero for every octet it leaves out.
Full(addr) == [k \in 1..4 |-> IF k <= Len(addr) THEN addr[k] ELSE 0]

\* The number four octets make, and what an int makes of it.
Number(t) ==
  Shl[3 * OctetBits][t[1]] + Shl[2 * OctetBits][t[2]] + Shl[OctetBits][t[3]] + t[4]

Signed(n) == IF n >= Shl[Width - 1][1] THEN n - Shl[Width][1] ELSE n

\* What has been copied of the address is a beginning of the full one, and all
\* of it once the address is behind.
CopyInv ==
  /\ pc \in {"address", "padaddress"} =>
       \A i \in 1..Len(ipinfo) : ipinfo[i] = Dotted(Full(parts.addr))[i]
  /\ pc = "padaddress" => count + 1 >= Len(parts.addr)
  /\ pc = "mask" \/ Compared => ipinfo = Dotted(Full(parts.addr))

JudgeInv ==
  pc = "done" /\ text[1] # Nul =>
    /\ peer \in [1..4 -> Octets]
    /\ verdict = "permit" <=>
         ToLongLong(ipinfo) = BitAnd(ToLongLong(maskinfo), ToLongLong(Dotted(peer)))

\* The octets of the address, with zeros where it leaves some out, of the mask
\* and of the peer, as numbers: the verdict is one comparison of the three.
VerdictCompares ==
  pc = "done" /\ text[1] # Nul =>
    (verdict = "permit" <=>
       Signed(Number(Full(parts.addr)))
         = BitAnd(Signed(Number(parts.mask)), Signed(Number(peer))))

LEMMA RowIs ==
  ASSUME NEW S, NEW n \in Nat, NEW f \in [1..n -> S]
  PROVE  f \in Seq(S) /\ Len(f) = n
OBVIOUS

\* Four octets and the dots between them.
LEMMA FourDotted ==
  ASSUME NEW t \in [1..4 -> Nat]
  PROVE  /\ Dotted(t) \in Seq(Nat \cup {Dot}) /\ Len(Dotted(t)) = 7
         /\ Dotted(t)[1] = t[1] /\ Dotted(t)[3] = t[2]
         /\ Dotted(t)[5] = t[3] /\ Dotted(t)[7] = t[4]
         /\ Dotted(t)[2] = Dot /\ Dotted(t)[4] = Dot /\ Dotted(t)[6] = Dot
<1>1. t \in Seq(Nat) /\ Len(t) = 4
  <2>1. 4 \in Nat
    OBVIOUS
  <2> QED BY <2>1, RowIs
<1>2. t # <<>>
  <2>1. t = <<>> <=> Len(t) = 0
    BY <1>1, EmptySeq
  <2> QED BY <1>1, <2>1
<1>3. Dotted(t) = [i \in 1..7 |-> IF i % 2 = 1 THEN t[(i + 1) \div 2] ELSE Dot]
  BY <1>1, <1>2 DEF Dotted
<1>4. \A i \in 1..7 : i % 2 = 1 => (i + 1) \div 2 \in 1..4
  OBVIOUS
<1>5. \A i \in 1..7 : (IF i % 2 = 1 THEN t[(i + 1) \div 2] ELSE Dot) \in Nat \cup {Dot}
  BY <1>4
<1>6. Dotted(t) \in [1..7 -> Nat \cup {Dot}]
  BY <1>3, <1>5
<1>7. Dotted(t) \in Seq(Nat \cup {Dot}) /\ Len(Dotted(t)) = 7
  <2>1. 7 \in Nat
    OBVIOUS
  <2> QED BY <1>6, <2>1, RowIs
<1>8. /\ Dotted(t)[1] = t[1] /\ Dotted(t)[3] = t[2]
      /\ Dotted(t)[5] = t[3] /\ Dotted(t)[7] = t[4]
      /\ Dotted(t)[2] = Dot /\ Dotted(t)[4] = Dot /\ Dotted(t)[6] = Dot
  BY <1>3
<1> QED BY <1>7, <1>8

LEMMA ThreeDots ==
  ASSUME NEW t \in [1..4 -> Nat]
  PROVE  Dots(Dotted(t)) = {2, 4, 6}
<1>1. \A i \in 1..7 : i \in {1, 3, 5, 7} \/ i \in {2, 4, 6}
  OBVIOUS
<1>2. \A k \in 1..4 : t[k] \in Nat /\ t[k] # Dot
  BY DEF Dot
<1>3. \A i \in 1..7 : Dotted(t)[i] = Dot <=> i \in {2, 4, 6}
  BY <1>1, <1>2, FourDotted
<1> QED BY <1>3, FourDotted DEF Dots

\* How many dots there are up to each of them.
LEMMA DotsCounted ==
  /\ Cardinality({2}) = 1 /\ Cardinality({2, 4}) = 2 /\ Cardinality({2, 4, 6}) = 3
<1>1. IsFiniteSet({2}) /\ Cardinality({2}) = 1
  BY FS_Singleton
<1>2. IsFiniteSet({2, 4}) /\ Cardinality({2, 4}) = 2
  <2>1. {2, 4} = {2} \cup {4} /\ 4 \notin {2}
    OBVIOUS
  <2> QED BY <1>1, <2>1, FS_AddElement
<1>3. Cardinality({2, 4, 6}) = 3
  <2>1. {2, 4, 6} = {2, 4} \cup {6} /\ 6 \notin {2, 4}
    OBVIOUS
  <2> QED BY <1>2, <2>1, FS_AddElement
<1> QED BY <1>1, <1>2, <1>3

LEMMA AfterEachDot ==
  ASSUME NEW s, Dots(s) = {2, 4, 6}
  PROVE  /\ AfterDot(s, 0) = 1 /\ AfterDot(s, 1) = 3
         /\ AfterDot(s, 2) = 5 /\ AfterDot(s, 3) = 7
<1> DEFINE UpTo(i) == {j \in Dots(s) : j <= i}
<1>1. UpTo(2) = {2} /\ UpTo(4) = {2, 4} /\ UpTo(6) = {2, 4, 6}
  OBVIOUS
<1>2. /\ Cardinality(UpTo(2)) = 1 /\ Cardinality(UpTo(4)) = 2
      /\ Cardinality(UpTo(6)) = 3
  BY <1>1, DotsCounted
<1>3. \A i \in Dots(s) : i = 2 \/ i = 4 \/ i = 6
  OBVIOUS
<1> HIDE DEF UpTo
<1> DEFINE At(k) == CHOOSE i \in Dots(s) : Cardinality(UpTo(i)) = k
<1>4. At(1) = 2 /\ At(2) = 4 /\ At(3) = 6
  BY <1>2, <1>3
<1>5. \A k \in 1..3 : AfterDot(s, k) = 1 + At(k)
  BY DEF AfterDot, UpTo
<1> HIDE DEF At
<1>6. AfterDot(s, 0) = 1
  BY DEF AfterDot
<1> QED BY <1>4, <1>5, <1>6

\* strchr() and atoi() find the four octets of a dotted address.
LEMMA OctetsAreRead ==
  ASSUME NEW t \in [1..4 -> Nat]
  PROVE  ToLongLong(Dotted(t)) = Signed(Number(t))
<1> DEFINE s == Dotted(t)
<1>1. /\ AfterDot(s, 0) = 1 /\ AfterDot(s, 1) = 3
      /\ AfterDot(s, 2) = 5 /\ AfterDot(s, 3) = 7
  BY ThreeDots, AfterEachDot
<1>2. /\ s[1] = t[1] /\ s[3] = t[2] /\ s[5] = t[3] /\ s[7] = t[4] /\ Len(s) = 7
  BY FourDotted
<1>3. /\ t[1] >= 0 /\ t[2] >= 0 /\ t[3] >= 0 /\ t[4] >= 0
  OBVIOUS
<1> HIDE DEF s
<1>4. Atoi(s, 1) = t[1] /\ Atoi(s, 3) = t[2] /\ Atoi(s, 5) = t[3] /\ Atoi(s, 7) = t[4]
  BY <1>2, <1>3 DEF Atoi
<1>5. ToLongLong(s) = Signed(Number(t))
  BY <1>1, <1>4, Zenon DEF ToLongLong, Signed, Number
<1> QED BY <1>5 DEF s

-----------------------------------------------------------------------------
(* The address is completed.                                               *)

LEMMA FullIs ==
  ASSUME InputRight
  PROVE  /\ Full(parts.addr) \in [1..4 -> Nat]
         /\ \A k \in 1..4 : k > Len(parts.addr) => Full(parts.addr)[k] = 0
         /\ \A i \in 1..A : Dotted(parts.addr)[i] = Dotted(Full(parts.addr))[i]
<1> DEFINE a == parts.addr
           f == Full(a)
<1>1. a \in Seq(Octets) /\ Len(a) \in 0..4 /\ A \in 0..7 /\ A = Size(Len(a))
  BY PartsType, TupleType DEF A
<1>2. \A k \in 1..4 : k <= Len(a) => f[k] = a[k] /\ a[k] \in Nat
  <2>1. \A k \in 1..4 : k <= Len(a) => k \in 1..Len(a)
    BY <1>1
  <2>2. \A k \in 1..Len(a) : a[k] \in Nat
    <3>1. \A k \in 1..Len(a) : a[k] \in Octets
      <4>1. a \in Seq(Octets)
        BY <1>1
      <4> HIDE DEF a
      <4> QED BY <4>1
    <3> QED BY <3>1, AccessAssumption
  <2>3. \A k \in 1..4 : k <= Len(a) => f[k] = a[k]
    BY DEF Full
  <2> QED BY <2>1, <2>2, <2>3
<1>3. \A k \in 1..4 : k > Len(a) => f[k] = 0
  BY <1>1 DEF Full
<1>4. f \in [1..4 -> Nat]
  <2>1. \A k \in 1..4 : k <= Len(a) \/ k > Len(a)
    BY <1>1
  <2>2. \A k \in 1..4 : f[k] \in Nat
    BY <1>2, <1>3, <2>1
  <2> QED BY <2>2 DEF Full
<1>5. \A i \in 1..A : Dotted(a)[i] = Dotted(f)[i]
  <2> SUFFICES ASSUME NEW i \in 1..A
      PROVE  Dotted(a)[i] = Dotted(f)[i]
    OBVIOUS
  <2>1. Len(f) = 4 /\ f # <<>>
    <3>1. 4 \in Nat
      OBVIOUS
    <3>2. f \in Seq(Nat) /\ Len(f) = 4
      BY <1>4, <3>1, RowIs
    <3>3. f = <<>> <=> Len(f) = 0
      BY <3>2, EmptySeq
    <3> QED BY <3>2, <3>3
  <2>2. a # <<>> /\ A = 2 * Len(a) - 1 /\ i \in 1..7
    <3>1. a = <<>> <=> Len(a) = 0
      BY <1>1, EmptySeq
    <3> QED BY <1>1, <3>1 DEF Size
  <2> HIDE DEF f, a
  <2>3. Dotted(a)[i] = IF i % 2 = 1 THEN a[(i + 1) \div 2] ELSE Dot
    BY <2>2 DEF Dotted
  <2>4. Dotted(f)[i] = IF i % 2 = 1 THEN f[(i + 1) \div 2] ELSE Dot
    BY <2>1, <2>2 DEF Dotted
  <2>5. (i + 1) \div 2 \in 1..4 /\ (i + 1) \div 2 <= Len(a)
    BY <1>1, <2>2
  <2> QED BY <1>2, <2>3, <2>4, <2>5
<1> QED BY <1>3, <1>4, <1>5

LEMMA CopyInit == Init => CopyInv
BY DEF Init, CopyInv, Compared

\* `.0' is what the full address has there.
LEMMA PadIs ==
  ASSUME NEW f \in [1..4 -> Nat], NEW c \in 0..2, f[c + 2] = 0
  PROVE  Dotted(f)[2 * c + 2] = Dot /\ Dotted(f)[2 * c + 3] = 0
<1>1. c = 0 \/ c = 1 \/ c = 2
  OBVIOUS
<1>2. CASE c = 0
  BY <1>2, FourDotted
<1>3. CASE c = 1
  BY <1>3, FourDotted
<1>4. CASE c = 2
  BY <1>4, FourDotted
<1> QED BY <1>1, <1>2, <1>3, <1>4

LEMMA CopyStep ==
  ASSUME IInv, CopyInv, IInv', [Next]_vars
  PROVE  CopyInv'
<1> DEFINE d == Dotted(Full(parts.addr))
           k == Len(parts.addr)
<1>1. UNCHANGED <<parts, text>>
  BY DEF Next, Start, CopyAddress, PadAddress, CopyMask, PadMask, Compare, GoTo,
     input, vars
<1>2. /\ d' = d /\ k' = k /\ A' = A
  BY <1>1 DEF A
<1>3. InputRight /\ ipinfo \in Copied /\ count \in 0..6 /\ p \in Nat
  BY TextIs DEF IInv, IType
<1>4. /\ d \in Seq(Nat \cup {Dot}) /\ Len(d) = 7
  BY <1>3, FullIs, FourDotted
<1>5. \A i \in 1..A : text[i] = d[i]
  BY <1>3, FullIs, TextIs
<1>6. A \in 0..7 /\ k \in 0..4
  BY <1>3, PartsType, TupleType
<1> HIDE DEF d, k
<1>7. CASE Start \/ CopyMask \/ PadMask \/ Compare \/ UNCHANGED vars
  <2>1. CASE Start
    BY <1>1, <2>1 DEF Start, GoTo, IInv, AddressInv, CopyInv, Compared
  <2>2. CASE CopyMask \/ PadMask \/ Compare
    <3>1. /\ ipinfo' = ipinfo /\ pc \in {"mask", "padmask", "compare"}
          /\ pc' \notin {"address", "padaddress"}
      BY <2>2 DEF CopyMask, PadMask, Compare, GoTo
    <3>2. ipinfo = d
      BY <3>1 DEF CopyInv, Compared, d
    <3> QED BY <1>2, <3>1, <3>2 DEF CopyInv, d
  <2>3. CASE UNCHANGED vars
    BY <2>3 DEF vars, CopyInv, Compared
  <2> QED BY <1>7, <2>1, <2>2, <2>3
<1>8. CASE CopyAddress
  <2>1. /\ pc = "address" /\ p <= A + 1 /\ Len(ipinfo) = p - 1
        /\ \A i \in 1..Len(ipinfo) : ipinfo[i] = d[i]
    BY <1>8 DEF CopyAddress, IInv, AddressInv, CopyInv, d
  <2>2. CASE ipinfo' = Append(ipinfo, text[p]) /\ pc' = "address" /\ text[p] \notin {Slash, Nul}
    <3>1. p # A + 1
      BY <1>3, <2>2, TextIs, PartsType
    <3>2. p \in 1..A
      BY <1>3, <1>6, <2>1, <3>1 DEF Copied
    <3>3. /\ Len(ipinfo') = p /\ \A i \in 1..(p - 1) : ipinfo'[i] = ipinfo[i]
          /\ ipinfo'[p] = text[p]
      BY <1>3, <2>1, <2>2 DEF Copied
    <3>4. \A i \in 1..p : ipinfo'[i] = d[i]
      <4>1. \A i \in 1..p : i \in 1..(p - 1) \/ i = p
        BY <1>3
      <4> QED BY <1>5, <2>1, <3>2, <3>3, <4>1
    <3>5. \A i \in 1..Len(ipinfo') : ipinfo'[i] = d'[i]
      BY <1>2, <3>3, <3>4
    <3> QED BY <2>2, <3>5 DEF CopyInv, Compared, d
  <2>3. CASE UNCHANGED <<p, count, ipinfo>> /\ pc' = "padaddress"
    <3>1. parts.slash /\ p = A + 1 /\ Len(ipinfo) = 2 * count + 1
      BY <1>1, <1>2, <2>3 DEF IInv, AddressInv
    <3>2. A = 2 * k - 1
      BY <1>3, <3>1, PartsType DEF k
    <3>3. count + 1 >= k
      BY <1>3, <1>6, <2>1, <3>1, <3>2
    <3> QED BY <1>2, <2>1, <2>3, <3>3 DEF CopyInv, Compared, d, k
  <2>4. CASE pc' = "overrun"
    BY <2>4 DEF CopyInv, Compared
  <2> QED BY <1>8, <2>2, <2>3, <2>4 DEF CopyAddress, GoTo
<1>9. CASE PadAddress
  <2>1. /\ pc = "padaddress" /\ Len(ipinfo) = 2 * count + 1 /\ count <= 3
        /\ count + 1 >= k /\ \A i \in 1..Len(ipinfo) : ipinfo[i] = d[i]
    BY <1>9 DEF PadAddress, IInv, AddressInv, CopyInv, d, k
  <2>2. CASE count < 3 /\ ipinfo' = ipinfo \o <<Dot, 0>> /\ count' = count + 1
             /\ pc' = "padaddress"
    <3>1. count \in 0..2 /\ count + 2 \in 1..4 /\ count + 2 > k
      BY <1>3, <1>6, <2>1, <2>2
    <3>2. d[2 * count + 2] = Dot /\ d[2 * count + 3] = 0
      BY <1>3, <3>1, FullIs, PadIs DEF d, k
    <3>3. /\ Len(ipinfo') = 2 * count + 3
          /\ \A i \in 1..(2 * count + 1) : ipinfo'[i] = ipinfo[i]
          /\ ipinfo'[2 * count + 2] = Dot /\ ipinfo'[2 * count + 3] = 0
      <4>1. <<Dot, 0>> \in Copied /\ Len(<<Dot, 0>>) = 2
        BY DEF Copied
      <4>2. \A i \in 1..(2 * count + 3) : ipinfo'[i] =
              IF i <= 2 * count + 1 THEN ipinfo[i] ELSE <<Dot, 0>>[i - (2 * count + 1)]
        BY <1>3, <2>1, <2>2, <3>1, <4>1, ConcatProperties DEF Copied
      <4>3. Len(ipinfo') = 2 * count + 3
        BY <1>3, <2>1, <2>2, <3>1, <4>1, ConcatProperties DEF Copied
      <4> QED BY <3>1, <4>2, <4>3
    <3>4. \A i \in 1..(2 * count + 3) : ipinfo'[i] = d[i]
      <4>1. \A i \in 1..(2 * count + 3) :
              i \in 1..(2 * count + 1) \/ i = 2 * count + 2 \/ i = 2 * count + 3
        BY <3>1
      <4> QED BY <2>1, <3>2, <3>3, <4>1
    <3>5. /\ \A i \in 1..Len(ipinfo') : ipinfo'[i] = d'[i]
          /\ count' + 1 >= k'
      BY <1>2, <1>6, <2>1, <2>2, <3>1, <3>3, <3>4
    <3> QED BY <2>2, <3>5 DEF CopyInv, Compared, d, k
  <2>3. CASE ~(count < 3) /\ pc' = "mask" /\ UNCHANGED <<count, ipinfo>>
    <3>1. Len(ipinfo) = 7
      BY <1>3, <2>1, <2>3
    <3>2. ipinfo = d
      <4>1. \A i \in 1..7 : ipinfo[i] = d[i]
        BY <2>1, <3>1
      <4>2. ipinfo \in Seq(Octets \cup {0, Dot})
        BY <1>3 DEF Copied
      <4> QED BY <1>4, <3>1, <4>1, <4>2
    <3> QED BY <1>2, <2>3, <3>2 DEF CopyInv, Compared, d
  <2> QED BY <1>9, <2>2, <2>3 DEF PadAddress, GoTo
<1> QED BY <1>7, <1>8, <1>9 DEF Next

\* A verdict is the comparison's, or there was nothing to compare.
LEMMA JudgeStep ==
  ASSUME JudgeInv, [Next]_vars
  PROVE  JudgeInv'
<1>1. CASE Compare
  BY <1>1 DEF Compare, JudgeInv
<1>2. CASE Start \/ CopyAddress \/ PadAddress \/ CopyMask \/ PadMask
  BY <1>2 DEF Start, CopyAddress, PadAddress, CopyMask, PadMask, GoTo, input, JudgeInv
<1>3. CASE UNCHANGED vars
  BY <1>3 DEF vars, JudgeInv
<1> QED BY <1>1, <1>2, <1>3 DEF Next

\* A verdict compares three numbers: the address with zeros for the octets it
\* leaves out, the mask as written, and the peer (secure_access.c:60-115).
THEOREM VerdictIsComparison == Spec => []VerdictCompares
<1>1. Init => CopyInv /\ JudgeInv
  BY CopyInit DEF Init, JudgeInv
<1>2. IInv /\ IInv' /\ CopyInv /\ JudgeInv /\ [Next]_vars => CopyInv' /\ JudgeInv'
  BY CopyStep, JudgeStep
<1>3. IInv /\ CopyInv /\ JudgeInv => VerdictCompares
  <2> SUFFICES ASSUME IInv, CopyInv, JudgeInv, pc = "done", text[1] # Nul
      PROVE  verdict = "permit" <=>
               Signed(Number(Full(parts.addr)))
                 = BitAnd(Signed(Number(parts.mask)), Signed(Number(peer)))
    BY DEF VerdictCompares
  <2>1. /\ InputRight /\ ipinfo = Dotted(Full(parts.addr))
        /\ maskinfo = Dotted(parts.mask) /\ Len(parts.mask) = 4
    BY DEF IInv, IType, EndInv, Compared, CopyInv
  <2>2. Full(parts.addr) \in [1..4 -> Nat]
    BY <2>1, FullIs
  <2>3. parts.mask \in [1..4 -> Nat]
    <3>1. parts.mask \in Seq(Octets)
      BY <2>1, PartsType, TupleType
    <3>2. parts.mask \in [1..4 -> Octets]
      BY <2>1, <3>1
    <3> QED BY <3>2, AccessAssumption
  <2>4. peer \in [1..4 -> Nat]
    BY AccessAssumption DEF JudgeInv
  <2>5. /\ ToLongLong(ipinfo) = Signed(Number(Full(parts.addr)))
        /\ ToLongLong(maskinfo) = Signed(Number(parts.mask))
        /\ ToLongLong(Dotted(peer)) = Signed(Number(peer))
    BY <2>1, <2>2, <2>3, <2>4, OctetsAreRead
  <2> QED BY <2>5 DEF JudgeInv
<1> QED BY <1>1, <1>2, <1>3, Invariance, PTL DEF Spec

-----------------------------------------------------------------------------
(* Shifts.                                                                 *)

\* What holds of zero and of the next number holds of all: the least number
\* it does not hold of would be neither.
LEMMA Counting ==
  ASSUME NEW T, 0 \in T, \A n \in Nat : n \in T => n + 1 \in T
  PROVE  Nat \subseteq T
<1> DEFINE F == Nat \ T
<1> SUFFICES ASSUME F # {} PROVE FALSE
  OBVIOUS
<1>1. PICK m \in F : \A k \in F : ~(<<k, m>> \in OpToRel(<, Nat))
  BY NatLessThanWellFounded, WFMin
<1>2. m \in Nat /\ m # 0
  OBVIOUS
<1>3. m - 1 \in Nat /\ m - 1 < m
  BY <1>2
<1>4. m - 1 \notin F
  BY <1>1, <1>2, <1>3 DEF OpToRel
<1>5. (m - 1) + 1 \in T
  BY <1>3, <1>4
<1> QED BY <1>2, <1>5

\* A function that a recurrence describes exists: the runs of the recurrence
\* up to n agree, for every n, and the function is what they agree on.
Runs(S, base, step, n) ==
  {g \in [0..n -> S] : g[0] = base /\ \A i \in 1..n : g[i] = step[g[i - 1]]}

LEMMA RunsExist ==
  ASSUME NEW S, NEW base \in S, NEW step \in [S -> S]
  PROVE  \A n \in Nat : Runs(S, base, step, n) # {}
<1> DEFINE T == {n \in Nat : Runs(S, base, step, n) # {}}
<1>1. 0 \in T
  <2>1. [i \in 0..0 |-> base] \in Runs(S, base, step, 0)
    BY DEF Runs
  <2> QED BY <2>1
<1>2. ASSUME NEW n \in Nat, n \in T
      PROVE  n + 1 \in T
  <2>1. PICK g \in [0..n -> S] : g[0] = base /\ \A i \in 1..n : g[i] = step[g[i - 1]]
    BY <1>2 DEF Runs
  <2> DEFINE h == [i \in 0..(n + 1) |-> IF i <= n THEN g[i] ELSE step[g[n]]]
  <2>2. g[n] \in S /\ \A i \in 0..(n + 1) : i <= n => i \in 0..n
    OBVIOUS
  <2>3. h \in [0..(n + 1) -> S]
    BY <2>2
  <2>4. h[0] = base
    BY <2>1
  <2>5. ASSUME NEW i \in 1..(n + 1)
        PROVE  h[i] = step[h[i - 1]]
    <3>1. CASE i <= n
      <4>1. i \in 1..n /\ i \in 0..(n + 1) /\ i - 1 \in 0..(n + 1) /\ i - 1 <= n
        BY <3>1
      <4>2. h[i] = g[i] /\ h[i - 1] = g[i - 1]
        BY <4>1
      <4> QED BY <2>1, <4>1, <4>2
    <3>2. CASE i = n + 1
      <4>1. i \in 0..(n + 1) /\ ~(i <= n) /\ i - 1 = n /\ n \in 0..(n + 1)
        BY <3>2
      <4> QED BY <4>1
    <3> QED BY <3>1, <3>2
  <2> HIDE DEF h
  <2>6. h \in Runs(S, base, step, n + 1)
    BY <2>3, <2>4, <2>5 DEF Runs
  <2> QED BY <2>6
<1> HIDE DEF T
<1>3. Nat \subseteq T
  BY <1>1, <1>2, Counting
<1> QED BY <1>3 DEF T

LEMMA RunsAgree ==
  ASSUME NEW S, NEW base \in S, NEW step \in [S -> S],
         NEW m \in Nat, NEW n \in Nat,
         NEW g \in Runs(S, base, step, m), NEW h \in Runs(S, base, step, n)
  PROVE  \A i \in Nat : i <= m /\ i <= n => g[i] = h[i]
<1> DEFINE T == {i \in Nat : i <= m /\ i <= n => g[i] = h[i]}
<1>1. 0 \in T
  BY DEF Runs
<1>2. ASSUME NEW i \in Nat, i \in T
      PROVE  i + 1 \in T
  <2> SUFFICES ASSUME i + 1 <= m, i + 1 <= n
      PROVE  g[i + 1] = h[i + 1]
    OBVIOUS
  <2>1. i + 1 \in 1..m /\ i + 1 \in 1..n /\ (i + 1) - 1 = i
    OBVIOUS
  <2>2. g[i] = h[i]
    BY <1>2
  <2>3. g[i + 1] = step[g[i]] /\ h[i + 1] = step[h[i]]
    BY <2>1 DEF Runs
  <2> QED BY <2>2, <2>3
<1> HIDE DEF T
<1>3. Nat \subseteq T
  BY <1>1, <1>2, Counting
<1> QED BY <1>3 DEF T

LEMMA Recurrence ==
  ASSUME NEW S, NEW base \in S, NEW step \in [S -> S]
  PROVE  \E f \in [Nat -> S] :
           f[0] = base /\ \A n \in Nat \ {0} : f[n] = step[f[n - 1]]
<1> DEFINE run(n) == CHOOSE g \in Runs(S, base, step, n) : TRUE
           f == [n \in Nat |-> run(n)[n]]
<1>1. \A n \in Nat : run(n) \in Runs(S, base, step, n)
  BY RunsExist
<1> HIDE DEF run
<1>2. \A n \in Nat : run(n)[n] \in S
  BY <1>1 DEF Runs
<1>3. f \in [Nat -> S]
  BY <1>2
<1>4. f[0] = base
  BY <1>1 DEF Runs
<1>5. ASSUME NEW n \in Nat \ {0}
      PROVE  f[n] = step[f[n - 1]]
  <2>1. n - 1 \in Nat /\ n \in 1..n /\ n - 1 <= n
    BY <1>5
  <2>2. run(n)[n] = step[run(n)[n - 1]]
    BY <1>1, <2>1 DEF Runs
  <2>3. run(n)[n - 1] = run(n - 1)[n - 1]
    BY <1>1, <2>1, RunsAgree
  <2> QED BY <2>1, <2>2, <2>3
<1> HIDE DEF f
<1> QED BY <1>3, <1>4, <1>5

LEMMA ShlIs ==
  Shl = [n \in Nat |-> IF n = 0 THEN [x \in Int |-> x]
                       ELSE [x \in Int |-> Shl[n - 1][2 * x]]]
<1> DEFINE S == [Int -> Int]
           base == [x \in Int |-> x]
           step == [g \in S |-> [x \in Int |-> g[2 * x]]]
<1>1. base \in S /\ step \in [S -> S]
  OBVIOUS
<1>2. PICK f \in [Nat -> S] :
        f[0] = base /\ \A n \in Nat \ {0} : f[n] = step[f[n - 1]]
  <2> HIDE DEF S, base, step
  <2> QED BY <1>1, Recurrence
<1> DEFINE e == [n \in Nat |-> IF n = 0 THEN [x \in Int |-> x]
                               ELSE [x \in Int |-> f[n - 1][2 * x]]]
<1>3. \A n \in Nat : f[n] = e[n]
  <2>1. f[0] = e[0]
    BY <1>2
  <2>2. ASSUME NEW n \in Nat \ {0}
        PROVE  f[n] = e[n]
    <3>1. n - 1 \in Nat /\ f[n - 1] \in S
      BY <1>2
    <3>2. step[f[n - 1]] = [x \in Int |-> f[n - 1][2 * x]]
      BY <3>1
    <3>3. e[n] = [x \in Int |-> f[n - 1][2 * x]]
      OBVIOUS
    <3> QED BY <1>2, <3>2, <3>3
  <2> QED BY <2>1, <2>2
<1>4. f = e
  <2>1. f = [n \in Nat |-> f[n]] /\ e = [n \in Nat |-> e[n]]
    OBVIOUS
  <2> HIDE DEF e
  <2> QED BY <1>3, <2>1
<1> QED BY <1>4, Zenon DEF Shl

LEMMA ShlType ==
  /\ \A n \in Nat : Shl[n] \in [Int -> Int]
  /\ \A x \in Int : Shl[0][x] = x
  /\ \A n \in Nat, x \in Int : Shl[n + 1][x] = Shl[n][2 * x]
<1>1. Shl[0] = [x \in Int |-> x]
  BY ShlIs
<1>2. ASSUME NEW n \in Nat
      PROVE  Shl[n + 1] = [x \in Int |-> Shl[n][2 * x]]
  <2>1. n + 1 \in Nat /\ n + 1 # 0 /\ (n + 1) - 1 = n
    OBVIOUS
  <2> QED BY <2>1, ShlIs
<1> DEFINE T == {n \in Nat : Shl[n] \in [Int -> Int]}
<1>3. 0 \in T
  BY <1>1
<1>4. ASSUME NEW n \in Nat, n \in T
      PROVE  n + 1 \in T
  <2>1. \A x \in Int : Shl[n][2 * x] \in Int
    BY <1>4
  <2>2. [x \in Int |-> Shl[n][2 * x]] \in [Int -> Int]
    BY <2>1
  <2>3. Shl[n + 1] \in [Int -> Int]
    BY <1>2, <2>2
  <2> QED BY <2>3
<1> HIDE DEF T
<1>5. Nat \subseteq T
  BY <1>3, <1>4, Counting
<1>6. \A n \in Nat : Shl[n] \in [Int -> Int]
  BY <1>5 DEF T
<1>7. \A n \in Nat, x \in Int : Shl[n + 1][x] = Shl[n][2 * x]
  BY <1>2
<1> QED BY <1>1, <1>6, <1>7

LEMMA ShrIs ==
  Shr = [n \in Nat |-> IF n = 0 THEN [x \in Int |-> x]
                       ELSE [x \in Int |-> Shr[n - 1][x \div 2]]]
<1> DEFINE S == [Int -> Int]
           base == [x \in Int |-> x]
           step == [g \in S |-> [x \in Int |-> g[x \div 2]]]
<1>1. base \in S /\ step \in [S -> S]
  OBVIOUS
<1>2. PICK f \in [Nat -> S] :
        f[0] = base /\ \A n \in Nat \ {0} : f[n] = step[f[n - 1]]
  <2> HIDE DEF S, base, step
  <2> QED BY <1>1, Recurrence
<1> DEFINE e == [n \in Nat |-> IF n = 0 THEN [x \in Int |-> x]
                               ELSE [x \in Int |-> f[n - 1][x \div 2]]]
<1>3. \A n \in Nat : f[n] = e[n]
  <2>1. f[0] = e[0]
    BY <1>2
  <2>2. ASSUME NEW n \in Nat \ {0}
        PROVE  f[n] = e[n]
    <3>1. n - 1 \in Nat /\ f[n - 1] \in S
      BY <1>2
    <3>2. step[f[n - 1]] = [x \in Int |-> f[n - 1][x \div 2]]
      BY <3>1
    <3>3. e[n] = [x \in Int |-> f[n - 1][x \div 2]]
      OBVIOUS
    <3> QED BY <1>2, <3>2, <3>3
  <2> QED BY <2>1, <2>2
<1>4. f = e
  <2>1. f = [n \in Nat |-> f[n]] /\ e = [n \in Nat |-> e[n]]
    OBVIOUS
  <2> HIDE DEF e
  <2> QED BY <1>3, <2>1
<1> QED BY <1>4, Zenon DEF Shr

LEMMA ShrType ==
  /\ \A n \in Nat : Shr[n] \in [Int -> Int]
  /\ \A x \in Int : Shr[0][x] = x
  /\ \A n \in Nat, x \in Int : Shr[n + 1][x] = Shr[n][x \div 2]
<1>1. Shr[0] = [x \in Int |-> x]
  BY ShrIs
<1>2. ASSUME NEW n \in Nat
      PROVE  Shr[n + 1] = [x \in Int |-> Shr[n][x \div 2]]
  <2>1. n + 1 \in Nat /\ n + 1 # 0 /\ (n + 1) - 1 = n
    OBVIOUS
  <2> QED BY <2>1, ShrIs
<1> DEFINE T == {n \in Nat : Shr[n] \in [Int -> Int]}
<1>3. 0 \in T
  BY <1>1
<1>4. ASSUME NEW n \in Nat, n \in T
      PROVE  n + 1 \in T
  <2>1. \A x \in Int : Shr[n][x \div 2] \in Int
    BY <1>4
  <2>2. [x \in Int |-> Shr[n][x \div 2]] \in [Int -> Int]
    BY <2>1
  <2>3. Shr[n + 1] \in [Int -> Int]
    BY <1>2, <2>2
  <2> QED BY <2>3
<1> HIDE DEF T
<1>5. Nat \subseteq T
  BY <1>3, <1>4, Counting
<1>6. \A n \in Nat : Shr[n] \in [Int -> Int]
  BY <1>5 DEF T
<1>7. \A n \in Nat, x \in Int : Shr[n + 1][x] = Shr[n][x \div 2]
  BY <1>2
<1> QED BY <1>1, <1>6, <1>7

-----------------------------------------------------------------------------
(* Shifts and numbers.                                                     *)

LEMMA ShlDoubles ==
  \A n \in Nat, x \in Int : Shl[n][x] \in Int /\ Shl[n + 1][x] = 2 * Shl[n][x]
<1>1. \A n \in Nat, x \in Int : Shl[n][x] \in Int
  BY ShlType
<1> DEFINE T == {n \in Nat : \A x \in Int : Shl[n + 1][x] = 2 * Shl[n][x]}
<1>2. 0 \in T
  BY ShlType
<1>3. ASSUME NEW n \in Nat, n \in T
      PROVE  n + 1 \in T
  <2> SUFFICES ASSUME NEW x \in Int
      PROVE  Shl[(n + 1) + 1][x] = 2 * Shl[n + 1][x]
    OBVIOUS
  <2>1. n + 1 \in Nat /\ 2 * x \in Int
    OBVIOUS
  <2>2. Shl[(n + 1) + 1][x] = Shl[n + 1][2 * x]
    BY <2>1, ShlType
  <2>3. Shl[n + 1][2 * x] = 2 * Shl[n][2 * x]
    BY <1>3, <2>1
  <2>4. Shl[n + 1][x] = Shl[n][2 * x]
    BY ShlType
  <2> QED BY <2>2, <2>3, <2>4
<1> HIDE DEF T
<1>4. Nat \subseteq T
  BY <1>2, <1>3, Counting
<1> QED BY <1>1, <1>4 DEF T

\* Shifts of sums are sums of shifts.
LEMMA ShlAdds ==
  \A n \in Nat, x, y \in Int : Shl[n][x + y] = Shl[n][x] + Shl[n][y]
<1> DEFINE Adds(n) == \A x, y \in Int : Shl[n][x + y] = Shl[n][x] + Shl[n][y]
           T == {n \in Nat : Adds(n)}
<1>1. Adds(0)
  <2> SUFFICES ASSUME NEW x \in Int, NEW y \in Int
      PROVE  Shl[0][x + y] = Shl[0][x] + Shl[0][y]
    OBVIOUS
  <2>1. x + y \in Int
    OBVIOUS
  <2> QED BY <2>1, ShlType
<1>2. ASSUME NEW n \in Nat, Adds(n)
      PROVE  Adds(n + 1)
  <2> SUFFICES ASSUME NEW x \in Int, NEW y \in Int
      PROVE  Shl[n + 1][x + y] = Shl[n + 1][x] + Shl[n + 1][y]
    OBVIOUS
  <2>1. x + y \in Int
    OBVIOUS
  <2>2. /\ Shl[n + 1][x + y] = 2 * Shl[n][x + y]
        /\ Shl[n + 1][x] = 2 * Shl[n][x] /\ Shl[n + 1][y] = 2 * Shl[n][y]
        /\ Shl[n][x] \in Int /\ Shl[n][y] \in Int
    BY <2>1, ShlDoubles
  <2>3. Shl[n][x + y] = Shl[n][x] + Shl[n][y]
    BY <1>2
  <2> QED BY <2>2, <2>3
<1> HIDE DEF Adds
<1>3. 0 \in T /\ \A n \in Nat : n \in T => n + 1 \in T
  BY <1>1, <1>2
<1> HIDE DEF T
<1>4. Nat \subseteq T
  BY <1>3, Counting
<1> QED BY <1>4 DEF T, Adds

\* A shift of a shift is a shift.
LEMMA ShlJoins ==
  \A m, n \in Nat, x \in Int : Shl[m + n][x] = Shl[m][Shl[n][x]]
<1> SUFFICES ASSUME NEW m \in Nat
    PROVE  \A n \in Nat, x \in Int : Shl[m + n][x] = Shl[m][Shl[n][x]]
  OBVIOUS
<1> DEFINE T == {n \in Nat : \A x \in Int : Shl[m + n][x] = Shl[m][Shl[n][x]]}
<1>1. 0 \in T
  <2>1. m + 0 = m /\ \A x \in Int : Shl[0][x] = x
    BY ShlType
  <2> QED BY <2>1
<1>2. ASSUME NEW n \in Nat, n \in T
      PROVE  n + 1 \in T
  <2> SUFFICES ASSUME NEW x \in Int
      PROVE  Shl[m + (n + 1)][x] = Shl[m][Shl[n + 1][x]]
    OBVIOUS
  <2>1. m + n \in Nat /\ m + (n + 1) = (m + n) + 1 /\ 2 * x \in Int
    <3> HIDE DEF T
    <3> QED OBVIOUS
  <2>2. Shl[(m + n) + 1][x] = Shl[m + n][2 * x] /\ Shl[n + 1][x] = Shl[n][2 * x]
    BY <2>1, ShlType
  <2>3. Shl[m + n][2 * x] = Shl[m][Shl[n][2 * x]]
    BY <1>2, <2>1
  <2> QED BY <2>1, <2>2, <2>3
<1> HIDE DEF T
<1>3. Nat \subseteq T
  BY <1>1, <1>2, Counting
<1> QED BY <1>3 DEF T

LEMMA ShlSigns ==
  \A n \in Nat : /\ \A x \in Int : x >= 0 => Shl[n][x] >= 0
                 /\ Shl[n][1] >= 1 /\ Shl[n][0] = 0 /\ Shl[n][-1] = -Shl[n][1]
<1> DEFINE T == {n \in Nat : /\ \A x \in Int : x >= 0 => Shl[n][x] >= 0
                             /\ Shl[n][1] >= 1 /\ Shl[n][0] = 0
                             /\ Shl[n][-1] = -Shl[n][1]}
<1>1. 0 \in T
  BY ShlType
<1>2. ASSUME NEW n \in Nat, n \in T
      PROVE  n + 1 \in T
  <2>1. \A x \in Int : Shl[n + 1][x] = 2 * Shl[n][x] /\ Shl[n][x] \in Int
    BY ShlDoubles
  <2> QED BY <1>2, <2>1
<1> HIDE DEF T
<1>3. Nat \subseteq T
  BY <1>1, <1>2, Counting
<1> QED BY <1>3 DEF T

LEMMA ShrJoins ==
  \A m, n \in Nat, x \in Int : Shr[n + m][x] = Shr[m][Shr[n][x]]
<1> SUFFICES ASSUME NEW m \in Nat
    PROVE  \A n \in Nat, x \in Int : Shr[n + m][x] = Shr[m][Shr[n][x]]
  OBVIOUS
<1> DEFINE T == {n \in Nat : \A x \in Int : Shr[n + m][x] = Shr[m][Shr[n][x]]}
<1>1. 0 \in T
  BY ShrType
<1>2. ASSUME NEW n \in Nat, n \in T
      PROVE  n + 1 \in T
  <2> SUFFICES ASSUME NEW x \in Int
      PROVE  Shr[(n + 1) + m][x] = Shr[m][Shr[n + 1][x]]
    OBVIOUS
  <2>1. n + m \in Nat /\ (n + 1) + m = (n + m) + 1 /\ x \div 2 \in Int
    OBVIOUS
  <2>2. /\ Shr[(n + m) + 1][x] = Shr[n + m][x \div 2]
        /\ Shr[n + 1][x] = Shr[n][x \div 2]
    BY <2>1, ShrType
  <2>3. Shr[n + m][x \div 2] = Shr[m][Shr[n][x \div 2]]
    BY <1>2, <2>1
  <2> QED BY <2>1, <2>2, <2>3
<1> HIDE DEF T
<1>3. Nat \subseteq T
  BY <1>1, <1>2, Counting
<1> QED BY <1>3 DEF T

\* The high part of a number: what was shifted comes back.
LEMMA HighPart ==
  \A n \in Nat, x, o \in Int :
    0 <= o /\ o < Shl[n][1] => Shr[n][Shl[n][x] + o] = x
<1> DEFINE T == {n \in Nat : \A x, o \in Int :
                   0 <= o /\ o < Shl[n][1] => Shr[n][Shl[n][x] + o] = x}
<1>1. 0 \in T
  <2> SUFFICES ASSUME NEW x \in Int, NEW o \in Int, 0 <= o, o < Shl[0][1]
      PROVE  Shr[0][Shl[0][x] + o] = x
    OBVIOUS
  <2>1. Shl[0][1] = 1 /\ Shl[0][x] = x /\ Shr[0][x] = x
    BY ShlType, ShrType
  <2>2. o = 0 /\ x + o = x
    BY <2>1
  <2> QED BY <2>1, <2>2
<1>2. ASSUME NEW n \in Nat, n \in T
      PROVE  n + 1 \in T
  <2> SUFFICES ASSUME NEW x \in Int, NEW o \in Int, 0 <= o, o < Shl[n + 1][1]
      PROVE  Shr[n + 1][Shl[n + 1][x] + o] = x
    OBVIOUS
  <2> DEFINE h == o \div 2
             y == Shl[n][x]
  <2>1. y \in Int /\ Shl[n + 1][x] = 2 * y /\ Shl[n + 1][1] = 2 * Shl[n][1]
        /\ Shl[n][1] \in Int
    BY ShlDoubles
  <2>2. h \in Int /\ 0 <= h /\ h < Shl[n][1]
    BY <2>1
  <2> HIDE DEF y
  <2>3. (2 * y + o) \div 2 = y + h /\ 2 * y + o \in Int
    BY <2>1
  <2>4. Shr[n + 1][2 * y + o] = Shr[n][y + h]
    BY <2>3, ShrType
  <2>5. Shr[n][y + h] = x
    BY <1>2, <2>2 DEF y
  <2> QED BY <2>1, <2>4, <2>5
<1> HIDE DEF T
<1>3. Nat \subseteq T
  BY <1>1, <1>2, Counting
<1> QED BY <1>3 DEF T

\* The low part of a number: what was shifted does not reach it.
LEMMA LowPart ==
  \A i, n \in Nat, x, o \in Int :
    i < n => Shr[i][Shl[n][x] + o] % 2 = Shr[i][o] % 2
<1> DEFINE T == {i \in Nat : \A n \in Nat, x, o \in Int :
                   i < n => Shr[i][Shl[n][x] + o] % 2 = Shr[i][o] % 2}
<1>0. ASSUME NEW n \in Nat, n > 0, NEW x \in Int, NEW o \in Int
      PROVE  /\ n - 1 \in Nat /\ Shl[n - 1][x] \in Int
             /\ Shl[n][x] = 2 * Shl[n - 1][x]
  <2>1. n - 1 \in Nat /\ (n - 1) + 1 = n
    BY <1>0
  <2> QED BY <2>1, ShlDoubles
<1>1. 0 \in T
  <2> SUFFICES ASSUME NEW n \in Nat, NEW x \in Int, NEW o \in Int, 0 < n
      PROVE  Shr[0][Shl[n][x] + o] % 2 = Shr[0][o] % 2
    OBVIOUS
  <2> DEFINE y == Shl[n - 1][x]
  <2>1. y \in Int /\ Shl[n][x] = 2 * y
    BY <1>0
  <2> HIDE DEF y
  <2>2. Shr[0][2 * y + o] = 2 * y + o /\ Shr[0][o] = o
    BY <2>1, ShrType
  <2>3. (2 * y + o) % 2 = o % 2
    BY <2>1
  <2> QED BY <2>1, <2>2, <2>3
<1>2. ASSUME NEW i \in Nat, i \in T
      PROVE  i + 1 \in T
  <2> SUFFICES ASSUME NEW n \in Nat, NEW x \in Int, NEW o \in Int, i + 1 < n
      PROVE  Shr[i + 1][Shl[n][x] + o] % 2 = Shr[i + 1][o] % 2
    OBVIOUS
  <2> DEFINE y == Shl[n - 1][x]
             h == o \div 2
  <2>1. y \in Int /\ Shl[n][x] = 2 * y /\ n - 1 \in Nat /\ i < n - 1
    BY <1>0
  <2>2. h \in Int
    OBVIOUS
  <2>3. (2 * y + o) \div 2 = y + h /\ 2 * y + o \in Int
    <3> HIDE DEF y
    <3> QED BY <2>1
  <2>4. Shr[i + 1][2 * y + o] = Shr[i][y + h] /\ Shr[i + 1][o] = Shr[i][h]
    <3> HIDE DEF y
    <3> QED BY <2>1, <2>3, ShrType
  <2>5. Shr[i][y + h] % 2 = Shr[i][h] % 2
    BY <1>2, <2>1, <2>2
  <2> QED BY <2>1, <2>4, <2>5
<1> HIDE DEF T
<1>3. Nat \subseteq T
  BY <1>1, <1>2, Counting
<1> QED BY <1>3 DEF T

-----------------------------------------------------------------------------
(* Integers and their bits.                                                *)

\* The integers of n + 1 bits.
Within(n) == -Shl[n][1] .. (Shl[n][1] - 1)

LEMMA HalfWithin ==
  ASSUME NEW n \in Nat, NEW x \in Within(n + 1)
  PROVE  x \in Int /\ x \div 2 \in Within(n)
<1>1. Shl[n + 1][1] = 2 * Shl[n][1] /\ Shl[n][1] \in Int
  BY ShlDoubles
<1> DEFINE s == Shl[n][1]
<1>2. x \in -(2 * s) .. (2 * s - 1) /\ s \in Int
  BY <1>1 DEF Within
<1> HIDE DEF s
<1>3. x \div 2 \in -s .. (s - 1)
  BY <1>2
<1> QED BY <1>2, <1>3 DEF Within, s

LEMMA HalfAndBit ==
  ASSUME NEW x \in Int, NEW y \in Int, x \div 2 = y \div 2, x % 2 = y % 2
  PROVE  x = y
OBVIOUS

\* Two of them with the same bits are the same.
LEMMA SameBits ==
  \A n \in Nat : \A x, y \in Within(n) :
    (\A i \in 0..n : Shr[i][x] % 2 = Shr[i][y] % 2) => x = y
<1> DEFINE Same(n) == \A x, y \in Within(n) :
             (\A i \in 0..n : Shr[i][x] % 2 = Shr[i][y] % 2) => x = y
           T == {n \in Nat : Same(n)}
<1>1. Same(0)
  <2>1. Within(0) = {-1, 0}
    <3>1. Shl[0][1] = 1
      BY ShlType
    <3> QED BY <3>1 DEF Within
  <2> SUFFICES ASSUME NEW x \in {-1, 0}, NEW y \in {-1, 0},
                      Shr[0][x] % 2 = Shr[0][y] % 2
      PROVE  x = y
    BY <2>1
  <2>2. Shr[0][x] = x /\ Shr[0][y] = y
    BY ShrType
  <2> QED BY <2>2
<1>2. ASSUME NEW n \in Nat, Same(n)
      PROVE  Same(n + 1)
  <2> SUFFICES ASSUME NEW x \in Within(n + 1), NEW y \in Within(n + 1),
                      \A i \in 0..(n + 1) : Shr[i][x] % 2 = Shr[i][y] % 2
      PROVE  x = y
    OBVIOUS
  <2> DEFINE u == x \div 2
             v == y \div 2
  <2>1. x \in Int /\ y \in Int /\ u \in Within(n) /\ v \in Within(n)
    BY HalfWithin
  <2>2. \A i \in 0..n : Shr[i][u] % 2 = Shr[i][v] % 2
    <3> SUFFICES ASSUME NEW i \in 0..n
        PROVE  Shr[i][u] % 2 = Shr[i][v] % 2
      OBVIOUS
    <3>1. i \in Nat /\ i + 1 \in 0..(n + 1)
      OBVIOUS
    <3>2. Shr[i + 1][x] = Shr[i][u] /\ Shr[i + 1][y] = Shr[i][v]
      BY <2>1, <3>1, ShrType
    <3> QED BY <3>1, <3>2
  <2>3. u = v
    BY <1>2, <2>1, <2>2
  <2>4. Shr[0][x] = x /\ Shr[0][y] = y /\ 0 \in 0..(n + 1)
    BY <2>1, ShrType
  <2>5. x % 2 = y % 2
    BY <2>4
  <2> QED BY <2>1, <2>3, <2>5, HalfAndBit
<1> HIDE DEF Same
<1>3. 0 \in T /\ \A n \in Nat : n \in T => n + 1 \in T
  BY <1>1, <1>2
<1> HIDE DEF T
<1>4. Nat \subseteq T
  BY <1>3, Counting
<1> QED BY <1>4 DEF T, Same

\* There is one for any bits.
LEMMA BitsMake ==
  \A n \in Nat : \A b \in [Nat -> {0, 1}] :
    \E z \in Within(n) : \A i \in 0..n : Shr[i][z] % 2 = b[i]
<1> DEFINE Makes(n) == \A b \in [Nat -> {0, 1}] :
             \E z \in Within(n) : \A i \in 0..n : Shr[i][z] % 2 = b[i]
           T == {n \in Nat : Makes(n)}
<1>1. Makes(0)
  <2> SUFFICES ASSUME NEW b \in [Nat -> {0, 1}]
      PROVE  \E z \in Within(0) : \A i \in 0..0 : Shr[i][z] % 2 = b[i]
    OBVIOUS
  <2>1. b[0] \in {0, 1} /\ -b[0] \in Int
    OBVIOUS
  <2>2. -b[0] \in Within(0)
    <3>1. Shl[0][1] = 1
      BY ShlType
    <3> QED BY <2>1, <3>1 DEF Within
  <2>3. Shr[0][-b[0]] % 2 = b[0]
    <3>1. Shr[0][-b[0]] = -b[0]
      BY <2>1, ShrType
    <3> QED BY <2>1, <3>1
  <2>4. \A i \in 0..0 : i = 0
    OBVIOUS
  <2> QED BY <2>2, <2>3, <2>4
<1>2. ASSUME NEW n \in Nat, Makes(n)
      PROVE  Makes(n + 1)
  <2> SUFFICES ASSUME NEW b \in [Nat -> {0, 1}]
      PROVE  \E z \in Within(n + 1) : \A i \in 0..(n + 1) : Shr[i][z] % 2 = b[i]
    OBVIOUS
  <2> DEFINE c == [i \in Nat |-> b[i + 1]]
  <2>1. c \in [Nat -> {0, 1}]
    <3>1. \A i \in Nat : i + 1 \in Nat
      OBVIOUS
    <3> QED BY <3>1
  <2>2. PICK y \in Within(n) : \A i \in 0..n : Shr[i][y] % 2 = c[i]
    BY <1>2, <2>1
  <2> DEFINE z == 2 * y + b[0]
  <2>3. b[0] \in {0, 1} /\ y \in Int
    BY DEF Within
  <2>4. z \in Int /\ z \div 2 = y /\ z % 2 = b[0]
    BY <2>3
  <2>5. z \in Within(n + 1)
    <3>1. Shl[n + 1][1] = 2 * Shl[n][1] /\ Shl[n][1] \in Int
      BY ShlDoubles
    <3> QED BY <2>3, <3>1 DEF Within
  <2> HIDE DEF z
  <2>6. \A i \in 0..(n + 1) : Shr[i][z] % 2 = b[i]
    <3> SUFFICES ASSUME NEW i \in 0..(n + 1)
        PROVE  Shr[i][z] % 2 = b[i]
      OBVIOUS
    <3>1. CASE i = 0
      <4>1. Shr[0][z] = z
        BY <2>4, ShrType
      <4> QED BY <2>4, <3>1, <4>1
    <3>2. CASE i # 0
      <4> DEFINE j == i - 1
      <4>1. j \in Nat /\ j \in 0..n /\ i = j + 1
        BY <3>2
      <4> HIDE DEF j
      <4>2. Shr[j + 1][z] = Shr[j][y]
        BY <2>4, <4>1, ShrType
      <4>3. Shr[j][y] % 2 = b[j + 1]
        BY <2>2, <4>1
      <4> QED BY <4>1, <4>2, <4>3
    <3> QED BY <3>1, <3>2
  <2> QED BY <2>5, <2>6
<1> HIDE DEF Makes
<1>3. 0 \in T /\ \A n \in Nat : n \in T => n + 1 \in T
  BY <1>1, <1>2
<1> HIDE DEF T
<1>4. Nat \subseteq T
  BY <1>3, Counting
<1> QED BY <1>4 DEF T, Makes

LEMMA WidthIs ==
  /\ OctetBits \in Nat /\ Width \in Nat /\ Width - 1 \in Nat /\ Width > OctetBits
  /\ Ints = Within(Width - 1)
BY AccessAssumption DEF Width, Ints, Within

LEMMA BitIs ==
  ASSUME NEW i \in Nat, NEW x \in Int
  PROVE  Shr[i][x] \in Int /\ Bit(x, i) \in {0, 1}
<1>1. Shr[i][x] \in Int
  BY ShrType
<1> QED BY <1>1 DEF Bit

\* The bits of x & y are the products of theirs.
LEMMA BitAndIs ==
  ASSUME NEW x \in Int, NEW y \in Int
  PROVE  /\ BitAnd(x, y) \in Ints
         /\ \A i \in 0..(Width - 1) : Bit(BitAnd(x, y), i) = Bit(x, i) * Bit(y, i)
<1> DEFINE b == [i \in Nat |-> Bit(x, i) * Bit(y, i)]
<1>1. b \in [Nat -> {0, 1}]
  <2>1. ASSUME NEW i \in Nat
        PROVE  Bit(x, i) * Bit(y, i) \in {0, 1}
    <3>1. Bit(x, i) \in {0, 1} /\ Bit(y, i) \in {0, 1}
      BY BitIs
    <3> QED BY <3>1
  <2> QED BY <2>1
<1>2. \A i \in 0..(Width - 1) : i \in Nat
  OBVIOUS
<1>3. \E z \in Ints : \A i \in 0..(Width - 1) : Bit(z, i) = Bit(x, i) * Bit(y, i)
  <2>1. PICK z \in Ints : \A i \in 0..(Width - 1) : Shr[i][z] % 2 = b[i]
    <3> HIDE DEF b
    <3> QED BY <1>1, WidthIs, BitsMake
  <2> QED BY <1>2, <2>1 DEF Bit
<1> QED BY <1>3, Zenon DEF BitAnd

-----------------------------------------------------------------------------
(* Four octets in an int.                                                  *)

Fits(t) ==
  t \in [1..4 -> Nat] /\ \A k \in 1..4 : t[k] < Shl[OctetBits][1]

\* One octet more: what is above it keeps its bits and so does the octet.
LEMMA Joined ==
  ASSUME NEW m \in Nat, NEW x \in Nat, x < Shl[m][1],
         NEW o \in Nat, o < Shl[OctetBits][1]
  PROVE  /\ Shl[OctetBits][x] + o \in Nat
         /\ Shl[OctetBits][x] + o < Shl[OctetBits + m][1]
         /\ \A i \in 0..(OctetBits - 1) : Bit(Shl[OctetBits][x] + o, i) = Bit(o, i)
         /\ \A i \in Nat : Bit(Shl[OctetBits][x] + o, OctetBits + i) = Bit(x, i)
<1> DEFINE ob == OctetBits
           y == Shl[ob][x]
           one == Shl[ob][1]
           top == Shl[ob][Shl[m][1]]
<1>1. ob \in Nat /\ x \in Int /\ o \in Int /\ x + 1 \in Int
  BY WidthIs
<1>2. y \in Int /\ one \in Int /\ Shl[m][1] \in Int /\ top \in Int
  BY <1>1, ShlDoubles
<1>3. y >= 0
  BY <1>1, ShlSigns
<1>4. y + one <= top
  <2> DEFINE rest == Shl[m][1] - (x + 1)
  <2>1. rest \in Int /\ rest >= 0 /\ (x + 1) + rest = Shl[m][1]
    BY <1>2
  <2>2. Shl[ob][x + 1] = y + one
    BY <1>1, ShlAdds
  <2> HIDE DEF rest
  <2>3. Shl[ob][(x + 1) + rest] = Shl[ob][x + 1] + Shl[ob][rest]
    BY <1>1, <2>1, ShlAdds
  <2>4. Shl[ob][rest] >= 0 /\ Shl[ob][rest] \in Int
    BY <1>1, <2>1, ShlSigns, ShlDoubles
  <2> QED BY <1>2, <2>1, <2>2, <2>3, <2>4
<1>5. Shl[ob + m][1] = top
  BY <1>1, ShlJoins
<1>6. y + o \in Nat /\ y + o < Shl[ob + m][1]
  <2> HIDE DEF y, one, top
  <2>1. o < one
    BY DEF one
  <2> QED BY <1>1, <1>2, <1>3, <1>4, <1>5, <2>1
<1>7. \A i \in 0..(ob - 1) : Bit(y + o, i) = Bit(o, i)
  <2>1. \A i \in 0..(ob - 1) : i \in Nat /\ i < ob
    BY <1>1
  <2> QED BY <1>1, <2>1, LowPart DEF Bit
<1>8. \A i \in Nat : Bit(y + o, ob + i) = Bit(x, i)
  <2>1. Shr[ob][y + o] = x
    BY <1>1, HighPart
  <2> DEFINE z == y + o
  <2>2. z \in Int /\ ob \in Nat
    BY <1>1, <1>2
  <2> HIDE DEF z, y
  <2>3. \A i \in Nat : Shr[ob + i][z] = Shr[i][Shr[ob][z]]
    BY <2>2, ShrJoins
  <2>4. Shr[ob][z] = x
    BY <2>1 DEF z
  <2>5. \A i \in Nat : Bit(z, ob + i) = Bit(x, i)
    BY <2>3, <2>4 DEF Bit
  <2> QED BY <2>5 DEF z
<1> QED BY <1>6, <1>7, <1>8

\* An int has the bits of its number.
LEMMA SignedIs ==
  ASSUME NEW n \in Nat, n < Shl[Width][1]
  PROVE  /\ Signed(n) \in Ints
         /\ \A i \in 0..(Width - 1) : Bit(Signed(n), i) = Bit(n, i)
<1> DEFINE half == Shl[Width - 1][1]
<1>1. half \in Int /\ Shl[Width][1] = 2 * half
  <2>1. Width - 1 \in Nat /\ (Width - 1) + 1 = Width
    BY WidthIs
  <2> QED BY <2>1, ShlDoubles
<1> HIDE DEF half
<1>2. Signed(n) = IF n >= half THEN n - 2 * half ELSE n
  BY <1>1 DEF Signed, half
<1>3. Signed(n) \in -half .. (half - 1)
  BY <1>1, <1>2
<1>4. ASSUME NEW i \in 0..(Width - 1)
      PROVE  Bit(Signed(n), i) = Bit(n, i)
  <2>1. i \in Nat /\ i < Width /\ Width \in Nat
    BY WidthIs
  <2>2. Shl[Width][-1] + n = n - 2 * half
    <3>1. Shl[Width][-1] = -Shl[Width][1]
      BY <2>1, ShlSigns
    <3> QED BY <1>1, <3>1
  <2>3. Shr[i][Shl[Width][-1] + n] % 2 = Shr[i][n] % 2
    <3>1. i \in Nat /\ Width \in Nat /\ -1 \in Int /\ n \in Int
      BY <2>1
    <3> QED BY <2>1, <3>1, LowPart
  <2> QED BY <1>2, <2>2, <2>3 DEF Bit
<1> QED BY <1>3, <1>4 DEF Ints, half

\* The bits of the number are those of the octets.
LEMMA NumberIs ==
  ASSUME NEW t, Fits(t)
  PROVE  /\ Number(t) \in Nat /\ Number(t) < Shl[Width][1]
         /\ \A i \in 0..(OctetBits - 1) :
              /\ Bit(Number(t), i) = Bit(t[4], i)
              /\ Bit(Number(t), OctetBits + i) = Bit(t[3], i)
              /\ Bit(Number(t), 2 * OctetBits + i) = Bit(t[2], i)
              /\ Bit(Number(t), 3 * OctetBits + i) = Bit(t[1], i)
<1> DEFINE ob == OctetBits
           n2 == Shl[ob][t[1]] + t[2]
           n3 == Shl[ob][n2] + t[3]
           n4 == Shl[ob][n3] + t[4]
<1>1. ob \in Nat /\ 2 * ob \in Nat /\ 3 * ob \in Nat /\ ob + ob = 2 * ob
      /\ ob + 2 * ob = 3 * ob /\ ob + 3 * ob = Width
  BY WidthIs DEF Width
<1>2. /\ t[1] \in Nat /\ t[1] < Shl[ob][1] /\ t[2] \in Nat /\ t[2] < Shl[ob][1]
      /\ t[3] \in Nat /\ t[3] < Shl[ob][1] /\ t[4] \in Nat /\ t[4] < Shl[ob][1]
  BY DEF Fits
<1>3. /\ n2 \in Nat /\ n2 < Shl[2 * ob][1]
      /\ \A i \in 0..(ob - 1) : Bit(n2, i) = Bit(t[2], i)
      /\ \A i \in Nat : Bit(n2, ob + i) = Bit(t[1], i)
  <2>1. ob \in Nat /\ t[1] \in Nat /\ t[1] < Shl[ob][1] /\ t[2] \in Nat /\ t[2] < Shl[ob][1]
    BY <1>1, <1>2
  <2>2. /\ n2 \in Nat /\ n2 < Shl[ob + ob][1]
        /\ \A i \in 0..(ob - 1) : Bit(n2, i) = Bit(t[2], i)
        /\ \A i \in Nat : Bit(n2, ob + i) = Bit(t[1], i)
    BY <2>1, Joined
  <2> HIDE DEF n2
  <2> QED BY <1>1, <2>2
<1>4. /\ n3 \in Nat /\ n3 < Shl[3 * ob][1]
      /\ \A i \in 0..(ob - 1) : Bit(n3, i) = Bit(t[3], i)
      /\ \A i \in Nat : Bit(n3, ob + i) = Bit(n2, i)
  <2> HIDE DEF n2
  <2>1. 2 * ob \in Nat /\ n2 \in Nat /\ n2 < Shl[2 * ob][1]
        /\ t[3] \in Nat /\ t[3] < Shl[ob][1]
    BY <1>1, <1>2, <1>3
  <2>2. /\ n3 \in Nat /\ n3 < Shl[ob + 2 * ob][1]
        /\ \A i \in 0..(ob - 1) : Bit(n3, i) = Bit(t[3], i)
        /\ \A i \in Nat : Bit(n3, ob + i) = Bit(n2, i)
    BY <2>1, Joined
  <2> HIDE DEF n3
  <2> QED BY <1>1, <2>2
<1>5. /\ n4 \in Nat /\ n4 < Shl[Width][1]
      /\ \A i \in 0..(ob - 1) : Bit(n4, i) = Bit(t[4], i)
      /\ \A i \in Nat : Bit(n4, ob + i) = Bit(n3, i)
  <2> HIDE DEF n3
  <2> QED BY <1>1, <1>2, <1>4, Joined
<1>6. Number(t) = n4
  <2>1. t[1] \in Int /\ t[2] \in Int /\ t[3] \in Int /\ t[4] \in Int
    BY <1>2
  <2> DEFINE a == Shl[ob][t[1]]
             b == Shl[ob][a]
  <2>2. /\ a \in Int /\ b \in Int /\ Shl[ob][b] \in Int
        /\ Shl[ob][t[2]] \in Int /\ Shl[ob][Shl[ob][t[2]]] \in Int /\ Shl[ob][t[3]] \in Int
    BY <1>1, <2>1, ShlDoubles
  <2>3. Shl[2 * ob][t[2]] = Shl[ob][Shl[ob][t[2]]]
    <3>1. Shl[ob + ob][t[2]] = Shl[ob][Shl[ob][t[2]]]
      BY <1>1, <2>1, ShlJoins
    <3> QED BY <1>1, <3>1
  <2>4. Shl[2 * ob][t[1]] = b
    <3>1. Shl[ob + ob][t[1]] = Shl[ob][Shl[ob][t[1]]]
      BY <1>1, <2>1, ShlJoins
    <3> QED BY <1>1, <3>1
  <2>5. Shl[3 * ob][t[1]] = Shl[ob][b]
    <3>1. Shl[ob + 2 * ob][t[1]] = Shl[ob][Shl[2 * ob][t[1]]]
      BY <1>1, <2>1, ShlJoins
    <3> QED BY <1>1, <2>4, <3>1
  <2>6. Shl[ob][n2] = b + Shl[ob][t[2]]
    BY <1>1, <2>1, <2>2, ShlAdds
  <2>7. Shl[ob][n3] = Shl[ob][b + Shl[ob][t[2]]] + Shl[ob][t[3]]
    <3>1. b + Shl[ob][t[2]] \in Int
      BY <2>2
    <3>2. n3 = (b + Shl[ob][t[2]]) + t[3]
      BY <2>6
    <3> HIDE DEF b, n3
    <3> QED BY <1>1, <2>1, <3>1, <3>2, ShlAdds
  <2>8. Shl[ob][b + Shl[ob][t[2]]] = Shl[ob][b] + Shl[ob][Shl[ob][t[2]]]
    BY <1>1, <2>2, ShlAdds
  <2>9. n4 = Shl[ob][n3] + t[4]
    OBVIOUS
  <2> HIDE DEF a, b, n2, n3, n4
  <2> QED BY <2>1, <2>2, <2>3, <2>5, <2>7, <2>8, <2>9 DEF Number
<1> HIDE DEF n2, n3, n4
<1>7. ASSUME NEW i \in 0..(ob - 1)
      PROVE  /\ Bit(n4, i) = Bit(t[4], i) /\ Bit(n4, ob + i) = Bit(t[3], i)
             /\ Bit(n4, 2 * ob + i) = Bit(t[2], i) /\ Bit(n4, 3 * ob + i) = Bit(t[1], i)
  <2>1. /\ i \in Nat /\ ob + i \in Nat /\ ob + (ob + i) \in Nat
        /\ 2 * ob + i = ob + (ob + i) /\ 3 * ob + i = ob + (ob + (ob + i))
    BY <1>1
  <2>2. Bit(n4, ob + i) = Bit(n3, i) /\ Bit(n3, i) = Bit(t[3], i)
    BY <1>4, <1>5, <2>1
  <2>3. Bit(n4, ob + (ob + i)) = Bit(n3, ob + i) /\ Bit(n3, ob + i) = Bit(n2, i)
        /\ Bit(n2, i) = Bit(t[2], i)
    BY <1>3, <1>4, <1>5, <2>1
  <2>4. Bit(n4, ob + (ob + (ob + i))) = Bit(n3, ob + (ob + i))
        /\ Bit(n3, ob + (ob + i)) = Bit(n2, ob + i) /\ Bit(n2, ob + i) = Bit(t[1], i)
    BY <1>3, <1>4, <1>5, <2>1
  <2> QED BY <1>5, <2>1, <2>2, <2>3, <2>4
<1> QED BY <1>5, <1>6, <1>7

\* Where bit i of octet k is.
At(k, i) ==
  (IF k = 1 THEN 3 * OctetBits
   ELSE IF k = 2 THEN 2 * OctetBits ELSE IF k = 3 THEN OctetBits ELSE 0) + i

LEMMA EveryBit ==
  /\ \A k \in 1..4, i \in 0..(OctetBits - 1) : At(k, i) \in 0..(Width - 1)
  /\ \A j \in 0..(Width - 1) : \E k \in 1..4, i \in 0..(OctetBits - 1) : j = At(k, i)
<1>1. OctetBits \in Nat /\ Width = 4 * OctetBits
  BY WidthIs DEF Width
<1>2. ASSUME NEW k \in 1..4, NEW i \in 0..(OctetBits - 1)
      PROVE  At(k, i) \in 0..(Width - 1)
  BY <1>1 DEF At
<1>3. ASSUME NEW j \in 0..(Width - 1)
      PROVE  \E k \in 1..4, i \in 0..(OctetBits - 1) : j = At(k, i)
  <2>1. CASE j < OctetBits
    <3>1. j \in 0..(OctetBits - 1) /\ j = At(4, j)
      BY <1>1, <2>1 DEF At
    <3> QED BY <3>1
  <2>2. CASE j >= OctetBits /\ j < 2 * OctetBits
    <3>1. j - OctetBits \in 0..(OctetBits - 1) /\ j = At(3, j - OctetBits)
      BY <1>1, <2>2 DEF At
    <3> QED BY <3>1
  <2>3. CASE j >= 2 * OctetBits /\ j < 3 * OctetBits
    <3>1. j - 2 * OctetBits \in 0..(OctetBits - 1) /\ j = At(2, j - 2 * OctetBits)
      BY <1>1, <2>3 DEF At
    <3> QED BY <3>1
  <2>4. CASE j >= 3 * OctetBits
    <3>1. j - 3 * OctetBits \in 0..(OctetBits - 1) /\ j = At(1, j - 3 * OctetBits)
      BY <1>1, <2>4 DEF At
    <3> QED BY <3>1
  <2> QED BY <1>1, <2>1, <2>2, <2>3, <2>4
<1> QED BY <1>2, <1>3

\* The int that four octets make has their bits.
LEMMA IntIs ==
  ASSUME NEW t, Fits(t)
  PROVE  /\ Signed(Number(t)) \in Ints
         /\ \A k \in 1..4, i \in 0..(OctetBits - 1) :
              Bit(Signed(Number(t)), At(k, i)) = Bit(t[k], i)
<1> DEFINE n == Number(t)
           ob == OctetBits
<1>1. /\ n \in Nat /\ n < Shl[Width][1]
      /\ \A i \in 0..(ob - 1) :
           /\ Bit(n, i) = Bit(t[4], i) /\ Bit(n, ob + i) = Bit(t[3], i)
           /\ Bit(n, 2 * ob + i) = Bit(t[2], i) /\ Bit(n, 3 * ob + i) = Bit(t[1], i)
  BY NumberIs
<1> HIDE DEF n
<1>2. /\ Signed(n) \in Ints
      /\ \A j \in 0..(Width - 1) : Bit(Signed(n), j) = Bit(n, j)
  BY <1>1, SignedIs
<1>3. ASSUME NEW k \in 1..4, NEW i \in 0..(ob - 1)
      PROVE  Bit(Signed(n), At(k, i)) = Bit(t[k], i)
  <2>1. Bit(Signed(n), At(k, i)) = Bit(n, At(k, i))
    BY <1>2, EveryBit
  <2>2. Bit(n, At(k, i)) = Bit(t[k], i)
    <3>1. CASE k = 1
      <4>1. At(k, i) = 3 * ob + i
        BY <3>1 DEF At
      <4> QED BY <1>1, <3>1, <4>1
    <3>2. CASE k = 2
      <4>1. At(k, i) = 2 * ob + i
        BY <3>2 DEF At
      <4> QED BY <1>1, <3>2, <4>1
    <3>3. CASE k = 3
      <4>1. At(k, i) = ob + i
        BY <3>3 DEF At
      <4> QED BY <1>1, <3>3, <4>1
    <3>4. CASE k = 4
      <4>1. At(k, i) = i
        BY <3>4, WidthIs DEF At
      <4> QED BY <1>1, <3>4, <4>1
    <3> QED BY <3>1, <3>2, <3>3, <3>4
  <2> QED BY <2>1, <2>2
<1> QED BY <1>2, <1>3 DEF n

\* Ints of the same bits are the same.
LEMMA SameInts ==
  ASSUME NEW x \in Ints, NEW y \in Ints,
         \A j \in 0..(Width - 1) : Bit(x, j) = Bit(y, j)
  PROVE  x = y
<1>1. Width - 1 \in Nat /\ x \in Within(Width - 1) /\ y \in Within(Width - 1)
  BY WidthIs
<1>2. \A j \in 0..(Width - 1) : Shr[j][x] % 2 = Shr[j][y] % 2
  BY DEF Bit
<1> QED BY <1>1, <1>2, SameBits

\* f is a & m as ints if and only if it is bit by bit of each octet.
LEMMA RuleIs ==
  ASSUME NEW f, Fits(f), NEW m, Fits(m), NEW a, Fits(a)
  PROVE  Signed(Number(f)) = BitAnd(Signed(Number(m)), Signed(Number(a)))
           <=> \A k \in 1..4, i \in 0..(OctetBits - 1) :
                 Bit(f[k], i) = Bit(m[k], i) * Bit(a[k], i)
<1> DEFINE x == Signed(Number(f))
           y == Signed(Number(m))
           z == Signed(Number(a))
           w == BitAnd(y, z)
<1>1. /\ x \in Ints /\ y \in Ints /\ z \in Ints
      /\ \A k \in 1..4, i \in 0..(OctetBits - 1) :
           /\ Bit(x, At(k, i)) = Bit(f[k], i)
           /\ Bit(y, At(k, i)) = Bit(m[k], i)
           /\ Bit(z, At(k, i)) = Bit(a[k], i)
  BY IntIs
<1> HIDE DEF x, y, z
<1>2. /\ w \in Ints
      /\ \A j \in 0..(Width - 1) : Bit(w, j) = Bit(y, j) * Bit(z, j)
  <2>1. y \in Int /\ z \in Int
    <3>1. \A v \in Ints : v \in Int
      BY DEF Ints
    <3> QED BY <1>1, <3>1
  <2> QED BY <2>1, BitAndIs
<1> HIDE DEF w
<1>3. \A k \in 1..4, i \in 0..(OctetBits - 1) :
        Bit(w, At(k, i)) = Bit(m[k], i) * Bit(a[k], i)
  <2> SUFFICES ASSUME NEW k \in 1..4, NEW i \in 0..(OctetBits - 1)
      PROVE  Bit(w, At(k, i)) = Bit(m[k], i) * Bit(a[k], i)
    OBVIOUS
  <2>1. At(k, i) \in 0..(Width - 1)
    BY EveryBit
  <2> QED BY <1>1, <1>2, <2>1
<1>4. ASSUME x = w
      PROVE  \A k \in 1..4, i \in 0..(OctetBits - 1) :
               Bit(f[k], i) = Bit(m[k], i) * Bit(a[k], i)
  BY <1>1, <1>3, <1>4
<1>5. ASSUME \A k \in 1..4, i \in 0..(OctetBits - 1) :
               Bit(f[k], i) = Bit(m[k], i) * Bit(a[k], i)
      PROVE  x = w
  <2>1. ASSUME NEW j \in 0..(Width - 1)
        PROVE  Bit(x, j) = Bit(w, j)
    <3>1. PICK k \in 1..4, i \in 0..(OctetBits - 1) : j = At(k, i)
      BY EveryBit
    <3>2. Bit(x, At(k, i)) = Bit(f[k], i) /\ Bit(w, At(k, i)) = Bit(m[k], i) * Bit(a[k], i)
      BY <1>1, <1>3
    <3> QED BY <1>5, <3>1, <3>2
  <2> QED BY <1>1, <1>2, <2>1, SameInts
<1>6. x = w <=> \A k \in 1..4, i \in 0..(OctetBits - 1) :
                  Bit(f[k], i) = Bit(m[k], i) * Bit(a[k], i)
  BY <1>4, <1>5
<1> QED BY <1>6 DEF x, y, z, w

-----------------------------------------------------------------------------
(* The rule.                                                               *)

\* The octets of the value, of the peer and of the full address fit.
LEMMA OctetsFit ==
  ASSUME NEW t \in [1..4 -> Octets]
  PROVE  Fits(t)
BY AccessAssumption DEF Fits

LEMMA FullFits ==
  ASSUME InputRight
  PROVE  Fits(Full(parts.addr))
<1> DEFINE addr == parts.addr
<1>1. addr \in Seq(Octets) /\ Len(addr) \in 0..4
  BY PartsType, TupleType
<1>2. Full(addr) \in [1..4 -> Nat]
  BY FullIs
<1>3. ASSUME NEW k \in 1..4
      PROVE  Full(addr)[k] < Shl[OctetBits][1]
  <2> HIDE DEF addr
  <2>1. Full(addr)[k] = IF k <= Len(addr) THEN addr[k] ELSE 0
    BY DEF Full
  <2>2. CASE k <= Len(addr)
    <3>1. addr[k] \in Octets
      BY <1>1, <2>2
    <3> QED BY <2>1, <2>2, <3>1, AccessAssumption
  <2>3. CASE ~(k <= Len(addr))
    <3>1. OctetBits \in Nat /\ Shl[OctetBits][1] \in Int /\ Shl[OctetBits][1] >= 1
      BY WidthIs, ShlDoubles, ShlSigns
    <3> QED BY <2>1, <2>3, <3>1
  <2> QED BY <2>2, <2>3
<1> QED BY <1>2, <1>3 DEF Fits

\* The comparison of the ints is the rule of secure_access.c:10-14: each bit
\* of each octet of the peer, under the mask, is the address's, although a
\* number may be negative (secure_access.c:24-40, 96-111).
THEOREM VerdictIsExact == Spec => []VerdictExact
<1>1. IInv /\ JudgeInv /\ VerdictCompares => VerdictExact
  <2> SUFFICES ASSUME IInv, JudgeInv, VerdictCompares, pc = "done", text[1] # Nul
      PROVE  verdict = "permit" <=> Matches(parts.addr, parts.mask, peer)
    BY DEF VerdictExact
  <2> DEFINE f == Full(parts.addr)
  <2>1. InputRight /\ Len(parts.mask) = 4
    BY DEF IInv, IType, EndInv, Compared
  <2>2. Fits(f)
    BY <2>1, FullFits
  <2>3. Fits(parts.mask)
    <3>1. parts.mask \in Seq(Octets)
      BY <2>1, PartsType, TupleType
    <3>2. parts.mask \in [1..4 -> Octets]
      BY <2>1, <3>1
    <3> QED BY <3>2, OctetsFit
  <2>4. Fits(peer)
    BY OctetsFit DEF JudgeInv
  <2>5. verdict = "permit" <=>
          Signed(Number(f)) = BitAnd(Signed(Number(parts.mask)), Signed(Number(peer)))
    BY DEF VerdictCompares
  <2>6. Signed(Number(f)) = BitAnd(Signed(Number(parts.mask)), Signed(Number(peer)))
          <=> \A k \in 1..4, i \in 0..(OctetBits - 1) :
                Bit(f[k], i) = Bit(parts.mask[k], i) * Bit(peer[k], i)
    BY <2>2, <2>3, <2>4, RuleIs
  <2>7. \A k \in 1..4 : f[k] = IF k <= Len(parts.addr) THEN parts.addr[k] ELSE 0
    BY DEF Full
  <2>8. Matches(parts.addr, parts.mask, peer)
          <=> \A k \in 1..4, i \in 0..(OctetBits - 1) :
                Bit(f[k], i) = Bit(parts.mask[k], i) * Bit(peer[k], i)
    <3> HIDE DEF f
    <3> QED BY <2>7 DEF Matches
  <2> HIDE DEF f
  <2> QED BY <2>5, <2>6, <2>8
<1>2. Spec => []JudgeInv
  <2>1. Init => JudgeInv
    BY DEF Init, JudgeInv
  <2> QED BY <2>1, JudgeStep, PTL DEF Spec
<1> QED BY <1>1, <1>2, Invariance, VerdictIsComparison, PTL

-----------------------------------------------------------------------------
(***************************************************************************)
(* access_ornot() comes nearer to its end with every step.                 *)
(***************************************************************************)

\* How often the program point can still change without a loop.
Rank == CASE pc = "start" -> 6
          [] pc = "address" -> 5
          [] pc = "padaddress" -> 4
          [] pc = "mask" -> 3
          [] pc = "padmask" -> 2
          [] pc = "compare" -> 1
          [] OTHER -> 0

\* What is left of the text, of the dots the counter can count, and of the
\* program.
Left == (Len(text) - p) + (6 - count) + Rank

\* No loop runs without moving its pointer or its counter, and neither has
\* room for ever: a step uses up a natural number that is the length of the
\* text and 11 at first (secure_access.c:62-66, 69-74, 81-94).  CheckEnds
\* adds to this that the code before its end always has a next step.
Advances ==
  /\ Left = Len(text) + 11
  /\ [](Left \in Nat)
  /\ [][Left' < Left]_vars

\* Whatever text, octets and peer: access_ornot() takes no more steps than its
\* text has characters, and eleven (secure_access.c:62-94).
THEOREM StepsAreBounded == Spec => Advances
<1>1. Init => Left = Len(text) + 11
  <2> SUFFICES ASSUME Init PROVE Left = Len(text) + 11
    OBVIOUS
  <2>1. Len(text) \in Nat
    BY Initial DEF IInv, TypeOK
  <2> QED BY <2>1 DEF Init, Left, Rank
<1>2. TypeOK => Left \in Nat
  <2> SUFFICES ASSUME TypeOK PROVE Left \in Nat
    OBVIOUS
  <2>1. Rank \in Nat
    BY DEF Rank
  <2>2. Len(text) - p \in Nat /\ 6 - count \in Nat
    BY DEF TypeOK
  <2> HIDE DEF Rank
  <2> QED BY <2>1, <2>2 DEF Left
<1>3. TypeOK /\ TypeOK' /\ Next => Left' < Left
  <2> SUFFICES ASSUME TypeOK, TypeOK', Next PROVE Left' < Left
    OBVIOUS
  <2>1. /\ text' = text /\ Len(text) \in Nat
        /\ p \in Nat /\ p' \in Nat /\ count \in Nat /\ count' \in Nat
        /\ Rank \in Nat /\ Rank' \in Nat
    BY DEF TypeOK, Next, Start, CopyAddress, PadAddress, CopyMask, PadMask,
           Compare, GoTo, input, Rank
  <2>2. \/ p' = p /\ count' = count /\ Rank' < Rank
        \/ p' = p + 1 /\ count' >= count /\ Rank' <= Rank
        \/ p' = p /\ count' = count + 1 /\ Rank' <= Rank
    <3> USE <2>1 DEF GoTo, Rank, Counted
    <3>1. CASE Start
      BY <3>1 DEF Start
    <3>2. CASE CopyAddress
      BY <3>2 DEF CopyAddress
    <3>3. CASE PadAddress
      BY <3>3 DEF PadAddress
    <3>4. CASE CopyMask
      BY <3>4 DEF CopyMask
    <3>5. CASE PadMask
      BY <3>5 DEF PadMask
    <3>6. CASE Compare
      BY <3>6 DEF Compare
    <3> QED BY <3>1, <3>2, <3>3, <3>4, <3>5, <3>6 DEF Next
  <2> HIDE DEF Rank
  <2> QED BY <2>1, <2>2 DEF Left
<1> QED BY <1>1, <1>2, <1>3, TypeCorrect, PTL DEF Spec, Advances
=============================================================================
