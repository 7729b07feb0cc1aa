--------------------------- MODULE FrameCodecProofs ---------------------------
(***************************************************************************)
(* Proofs about the wire protocol, for every radix of the header's digits, *)
(* any set of session ids and messages, and any number of frames cut into  *)
(* any pieces.                                                             *)
(***************************************************************************)
EXTENDS FrameCodec, FiniteSetTheorems, TLAPS

-----------------------------------------------------------------------------
(* The digits of the header                                                *)

LEMMA Constants ==
  /\ Radix \in Nat /\ Radix > 1 /\ MaxSent \in Nat
  /\ HEADER_SIZE = 8
BY FrameCodecAssumption DEF FrameCodecAssumption, HEADER_SIZE

LEMMA PlaceIs ==
  /\ Place[1] = 1 /\ Place[2] = Radix /\ Place[3] = Radix * Radix
  /\ Place[4] = Radix * Radix * Radix /\ Place[5] = Radix * Radix * Radix * Radix
BY DEF Place

(* A number is its last digit and the number before it.                    *)
LEMMA LastDigit ==
  ASSUME NEW n \in Nat, NEW r \in Nat, r > 1
  PROVE  /\ n \div r \in Nat /\ (n % r) \in Nat /\ (n % r) < r
         /\ n = (n \div r) * r + (n % r)
OBVIOUS

(* Dividing by a product is dividing twice.                                *)
LEMMA DivTwice ==
  ASSUME NEW n \in Nat, NEW a \in Nat, a > 1, NEW b \in Nat, b > 1
  PROVE  n \div (a * b) = (n \div a) \div b
<1> DEFINE q == n \div a
           r == n % a
           u == q \div b
           v == q % b
<1>1. q \in Nat /\ r \in Nat /\ r < a /\ n = q * a + r
  BY LastDigit
<1>2. u \in Nat /\ v \in Nat /\ v < b /\ q = u * b + v
  BY <1>1, LastDigit
<1> DEFINE w == v * a + r
<1> HIDE DEF q, r, u, v
<1>3. n = u * (a * b) + w
  BY <1>1, <1>2
<1>4. w \in Nat /\ w < a * b
  <2>1. v + 1 <= b /\ v * a + a = (v + 1) * a
    BY <1>2
  <2>2. (v + 1) * a <= b * a
    BY <2>1, <1>2
  <2> QED
    BY <1>1, <1>2, <2>1, <2>2
<1>5. a * b \in Nat /\ a * b > 0
  BY <1>4
<1> HIDE DEF w
<1>6. \A c \in Nat : c > 0 /\ w < c /\ n = u * c + w => n \div c = u
  BY <1>2, <1>4
<1>7. n \div (a * b) = u
  BY <1>3, <1>4, <1>5, <1>6
<1> QED
  BY <1>7 DEF u, q

(* Fewer digits before the last one.                                       *)
LEMMA FewerDigits ==
  ASSUME NEW n \in Nat, NEW r \in Nat, r > 1, NEW c \in Nat, n < c * r
  PROVE  n \div r < c
<1> DEFINE q == n \div r
<1>1. q \in Nat /\ n >= q * r
  BY LastDigit
<1> HIDE DEF q
<1>2. SUFFICES ASSUME q >= c PROVE FALSE
  BY <1>1 DEF q
<1>3. q * r >= c * r
  BY <1>1, <1>2
<1> QED
  BY <1>1, <1>3

(* The places of the digits, from the way the digits were split off.       *)
LEMMA Places ==
  ASSUME NEW r \in Nat, NEW a \in Nat, NEW b \in Nat, NEW c \in Nat, NEW d \in Nat
  PROVE  /\ (a * r + b) * r + c = a * (r * r) + b * r + c
         /\ ((a * r + b) * r + c) * r + d = a * (r * r * r) + b * (r * r) + c * r + d
OBVIOUS

(* Three digits hold every length up to the limit.                         *)
LEMMA LengthDigits ==
  ASSUME NEW n \in 0..MAX_PAYLOAD_SIZE
  PROVE  Digit(n, 2) * Place[3] + Digit(n, 1) * Place[2] + Digit(n, 0) = n
<1> DEFINE R == Radix
           n1 == n \div R
           n2 == n1 \div R
<1>c. R \in Nat /\ R > 1 /\ R * R \in Nat /\ R * R * R \in Nat
  BY Constants
<1>n. n \in Nat /\ n < R * R * R
  BY <1>c, PlaceIs DEF MAX_PAYLOAD_SIZE
<1>0. n \div 1 = n
  BY <1>n
<1>1. n1 \in Nat /\ n = n1 * R + (n % R)
  BY <1>c, <1>n, LastDigit
<1>2. n2 \in Nat /\ n1 = n2 * R + (n1 % R)
  BY <1>c, <1>1, LastDigit
<1>3. n1 < R * R
  BY <1>c, <1>n, FewerDigits
<1>4. n2 < R
  BY <1>c, <1>1, <1>3, FewerDigits
<1>5. n \div (R * R) = n2
  BY <1>c, <1>n, DivTwice
<1>6. Digit(n, 0) = (n % R) /\ Digit(n, 1) = (n1 % R) /\ Digit(n, 2) = (n2 % R)
  BY <1>0, <1>5, PlaceIs DEF Digit
<1>7. (n2 % R) = n2
  BY <1>c, <1>2, <1>4
<1>8. (n % R) \in Nat /\ (n1 % R) \in Nat
  BY <1>c, <1>n, <1>1, LastDigit
<1>9. n2 * (R * R) + (n1 % R) * R + (n % R) = n
  <2> DEFINE b == n1 % R
             c == n % R
  <2> HIDE DEF n2, n1, R, b, c
  <2>1. n = (n2 * R + b) * R + c /\ b \in Nat /\ c \in Nat
    BY <1>1, <1>2, <1>8 DEF b, c
  <2>2. n2 * (R * R) + b * R + c = n
    BY <2>1, <1>c, <1>2, Places
  <2> QED
    BY <2>2 DEF b, c
<1> QED
  BY <1>6, <1>7, <1>9, PlaceIs DEF R

(* Four digits hold every session id.                                      *)
LEMMA SessionDigits ==
  ASSUME NEW n \in SessionId
  PROVE  Digit(n, 3) * Place[4] + Digit(n, 2) * Place[3] + Digit(n, 1) * Place[2] + Digit(n, 0) = n
<1> DEFINE R == Radix
           n1 == n \div R
           n2 == n1 \div R
           n3 == n2 \div R
<1>c. R \in Nat /\ R > 1 /\ R * R \in Nat /\ R * R > 1 /\ R * R * R \in Nat
      /\ R * R * R * R \in Nat
  BY Constants
<1>n. n \in Nat /\ n < R * R * R * R
  BY <1>c, PlaceIs, FrameCodecAssumption DEF FrameCodecAssumption
<1>0. n \div 1 = n
  BY <1>n
<1>1. n1 \in Nat /\ n = n1 * R + (n % R)
  BY <1>c, <1>n, LastDigit
<1>2. n2 \in Nat /\ n1 = n2 * R + (n1 % R)
  BY <1>c, <1>1, LastDigit
<1>3. n3 \in Nat /\ n2 = n3 * R + (n2 % R)
  BY <1>c, <1>2, LastDigit
<1>4. n1 < R * R * R
  BY <1>c, <1>n, FewerDigits
<1>5. n2 < R * R
  BY <1>c, <1>1, <1>4, FewerDigits
<1>6. n3 < R
  BY <1>c, <1>2, <1>5, FewerDigits
<1>7. n \div (R * R) = n2
  BY <1>c, <1>n, DivTwice
<1>8. n \div (R * R * R) = n3
  <2>1. n \div ((R * R) * R) = (n \div (R * R)) \div R
    BY <1>c, <1>n, DivTwice
  <2> QED
    BY <2>1, <1>7
<1>9. /\ Digit(n, 0) = (n % R) /\ Digit(n, 1) = (n1 % R) /\ Digit(n, 2) = (n2 % R)
      /\ Digit(n, 3) = (n3 % R)
  BY <1>0, <1>7, <1>8, PlaceIs DEF Digit
<1>10. (n3 % R) = n3
  BY <1>c, <1>3, <1>6
<1>11. (n % R) \in Nat /\ (n1 % R) \in Nat /\ (n2 % R) \in Nat
  BY <1>c, <1>n, <1>1, <1>2, LastDigit
<1>12. n3 * (R * R * R) + (n2 % R) * (R * R) + (n1 % R) * R + (n % R) = n
  <2> DEFINE b == n2 % R
             c == n1 % R
             d == n % R
  <2> HIDE DEF n3, n2, n1, R, b, c, d
  <2>1. n = ((n3 * R + b) * R + c) * R + d /\ b \in Nat /\ c \in Nat /\ d \in Nat
    BY <1>1, <1>2, <1>3, <1>11 DEF b, c, d
  <2>2. n3 * (R * R * R) + b * (R * R) + c * R + d = n
    BY <2>1, <1>c, <1>3, Places
  <2> QED
    BY <2>2 DEF b, c, d
<1> QED
  BY <1>9, <1>10, <1>12, PlaceIs DEF R

-----------------------------------------------------------------------------
(* Message types and messages                                              *)

MessageRec == [type : MessageType, size : Nat, version : BOOLEAN]

LEMMA IndexIs ==
  ASSUME NEW t \in MessageType
  PROVE  index(t) \in 1..10 /\ Variant[index(t)] = t
<1>1. DOMAIN Variant = 1..10
  BY DEF Variant
<1>2. \E i \in DOMAIN Variant : Variant[i] = t
  BY DEF MessageType
<1> QED
  BY <1>1, <1>2 DEF index

(* Different types have different codes.                                   *)
LEMMA CodeIs ==
  ASSUME NEW t \in MessageType
  PROVE  /\ as_u8(t) \in Nat /\ from_u8(as_u8(t)) # {}
         /\ \A u \in MessageType : as_u8(u) = as_u8(t) => u = t
<1>1. as_u8(t) \in Nat
  BY IndexIs DEF as_u8
<1>2. t \in from_u8(as_u8(t))
  BY DEF from_u8
<1>3. ASSUME NEW u \in MessageType, as_u8(u) = as_u8(t) PROVE u = t
  <2>1. index(t) \in 1..10 /\ Variant[index(t)] = t /\ index(u) \in 1..10 /\ Variant[index(u)] = u
    BY IndexIs
  <2> QED
    BY <2>1, <1>3 DEF as_u8
<1> QED
  BY <1>1, <1>2, <1>3

LEMMA Zeros ==
  ASSUME NEW n \in Nat
  PROVE  [i \in 1..n |-> 0] \in Seq(Nat) /\ Len([i \in 1..n |-> 0]) = n
OBVIOUS

LEMMA Prefixed ==
  ASSUME NEW x \in Nat, NEW f \in Seq(Nat)
  PROVE  /\ <<x>> \o f \in Seq(Nat) /\ Len(<<x>> \o f) = 1 + Len(f)
         /\ (<<x>> \o f)[1] = x
         /\ Len(f) >= 1 => (<<x>> \o f)[2] = f[1]
OBVIOUS

(* What follows the variant in the bytes of a message.                     *)
Fields(m) ==
  CASE m.type = "Data"     -> <<m.size>> \o [i \in 1..m.size |-> 0]
    [] m.type = "Register" -> <<0>> \o (IF m.version THEN <<1>> ELSE <<>>)
    [] OTHER               -> <<0>>

Unversioned(m) == m.type = "Register" /\ ~m.version

LEMMA FieldsAre ==
  ASSUME NEW m \in MessageRec
  PROVE  /\ Fields(m) \in Seq(Nat) /\ Len(Fields(m)) >= 1
         /\ Fields(m)[1] = IF m.type = "Data" THEN m.size ELSE 0
         /\ m.type = "Data" => Len(Fields(m)) = 1 + m.size
         /\ Unversioned(m) => Len(Fields(m)) < 2
         /\ m.type = "Register" /\ ~Unversioned(m) => Len(Fields(m)) >= 2
<1>0. m.size \in Nat
  BY DEF MessageRec
<1>1. CASE m.type = "Data"
  <2> DEFINE z == [i \in 1..m.size |-> 0]
  <2>1. z \in Seq(Nat) /\ Len(z) = m.size
    BY <1>0, Zeros
  <2>2. Fields(m) = <<m.size>> \o z
    BY <1>1 DEF Fields
  <2> HIDE DEF z
  <2>3. Fields(m) \in Seq(Nat) /\ Len(Fields(m)) = 1 + m.size /\ Fields(m)[1] = m.size
    BY <1>0, <2>1, <2>2, Prefixed
  <2>4. ~Unversioned(m)
    BY <1>1 DEF Unversioned
  <2> QED
    BY <1>0, <1>1, <2>3, <2>4
<1>2. CASE m.type = "Register" /\ ~Unversioned(m)
  <2>1. Fields(m) = <<0>> \o <<1>>
    BY <1>2 DEF Fields, Unversioned
  <2>2. Fields(m) \in Seq(Nat) /\ Len(Fields(m)) = 2 /\ Fields(m)[1] = 0
    BY <2>1
  <2> QED
    BY <1>2, <2>2
<1>3. CASE Unversioned(m)
  <2>1. m.type = "Register" /\ Fields(m) = <<0>> \o <<>>
    BY <1>3 DEF Fields, Unversioned
  <2>2. Fields(m) \in Seq(Nat) /\ Len(Fields(m)) = 1 /\ Fields(m)[1] = 0
    BY <2>1
  <2> QED
    BY <1>3, <2>1, <2>2
<1>4. CASE m.type # "Data" /\ m.type # "Register"
  <2>1. Fields(m) = <<0>> /\ ~Unversioned(m)
    BY <1>4 DEF Fields, Unversioned
  <2>2. Fields(m) \in Seq(Nat) /\ Len(Fields(m)) = 1 /\ Fields(m)[1] = 0
    BY <2>1
  <2> QED
    BY <1>4, <2>1, <2>2
<1>5. m.type = "Register" \/ ~Unversioned(m)
  BY DEF Unversioned
<1> QED
  BY <1>1, <1>2, <1>3, <1>4, <1>5

LEMMA SerializeIs ==
  ASSUME NEW m \in MessageRec
  PROVE  /\ serialize(m) \in Seq(Nat) /\ Len(serialize(m)) = 1 + Len(Fields(m))
         /\ Len(Fields(m)) \in Nat /\ Len(Fields(m)) >= 1
         /\ serialize(m)[1] = index(m.type) - 1
         /\ serialize(m)[2] = Fields(m)[1]
<1>1. m.type \in MessageType /\ index(m.type) - 1 \in Nat
  BY IndexIs DEF MessageRec
<1>2. serialize(m) = <<index(m.type) - 1>> \o Fields(m)
  BY DEF serialize, Fields
<1>3. Fields(m) \in Seq(Nat) /\ Len(Fields(m)) >= 1
  BY FieldsAre
<1>4. Len(Fields(m)) \in Nat
  BY <1>3
<1> QED
  BY <1>1, <1>2, <1>3, <1>4, Prefixed

(* bincode reads a message it wrote, up to the fields the model leaves     *)
(* out, or nothing when it is a Register without version.                  *)
LEMMA ReadsBack ==
  ASSUME NEW m \in MessageRec
  PROVE  LET ms == deserialize(serialize(m))
         IN /\ Unversioned(m) => ms = {}
            /\ ~Unversioned(m) =>
                 /\ ms # {}
                 /\ \A k \in ms : k \in MessageRec /\ k.type = m.type
                                  /\ (m.type = "Data" => k.size = m.size)
<1> DEFINE b == serialize(m)
           ms == deserialize(b)
           z == Fields(m)[1]
           k == [type |-> m.type, size |-> z, version |-> TRUE]
<1>0. m.type \in MessageType /\ m.size \in Nat
  BY DEF MessageRec
<1>1. Len(b) \in Nat /\ Len(b) > 1 /\ b[1] = index(m.type) - 1 /\ b[2] = z
  BY SerializeIs
<1>2. /\ z = IF m.type = "Data" THEN m.size ELSE 0
      /\ m.type = "Data" => Len(b) = 2 + m.size
      /\ m.type = "Register" /\ ~Unversioned(m) => Len(b) >= 3
      /\ Unversioned(m) => Len(b) < 3
  <2>1. Len(b) = 1 + Len(Fields(m)) /\ Len(Fields(m)) \in Nat
    BY SerializeIs
  <2>2. /\ Fields(m)[1] = IF m.type = "Data" THEN m.size ELSE 0
        /\ m.type = "Data" => Len(Fields(m)) = 1 + m.size
        /\ m.type = "Register" /\ ~Unversioned(m) => Len(Fields(m)) >= 2
        /\ Unversioned(m) => Len(Fields(m)) < 2
    BY FieldsAre
  <2> HIDE DEF b
  <2> QED
    BY <2>1, <2>2, <1>0
<1> HIDE DEF b, z
<1>3. ms = {n \in [type : MessageType, size : {z}, version : {TRUE}] :
              /\ b[1] = index(n.type) - 1
              /\ n.type = "Data" => Len(b) >= 2 + n.size
              /\ n.type = "Register" => Len(b) >= 3}
  BY <1>1 DEF deserialize
<1>4. ASSUME NEW n \in ms
      PROVE  n \in MessageRec /\ n.type = m.type /\ n.size = z /\ n.version = TRUE
  <2>1. n \in [type : MessageType, size : {z}, version : {TRUE}] /\ b[1] = index(n.type) - 1
    BY <1>3
  <2>2. n.type \in MessageType /\ n.size = z
    BY <2>1
  <2>3. index(n.type) = index(m.type)
    BY <2>1, <2>2, <1>0, <1>1, IndexIs
  <2>4. n.type = m.type
    BY <2>2, <2>3, <1>0, IndexIs
  <2>5. z \in Nat
    BY <1>0, <1>2
  <2> HIDE DEF ms
  <2>6. n \in MessageRec
    BY <2>1, <2>5 DEF MessageRec
  <2> QED
    BY <2>1, <2>2, <2>4, <2>6
<1>5. CASE Unversioned(m)
  <2>1. ASSUME NEW n \in ms PROVE FALSE
    <3>1. m.type = "Register"
      BY <1>5 DEF Unversioned
    <3>2. n.type = "Register" => Len(b) >= 3
      BY <1>3
    <3>3. n.type = "Register"
      BY <3>1, <1>4
    <3> QED
      BY <3>2, <3>3, <1>2, <1>5
  <2> HIDE DEF ms
  <2>2. ms = {}
    BY <2>1
  <2> QED
    BY <2>2, <1>5 DEF ms, b
<1>6. CASE ~Unversioned(m)
  <2>1. k \in [type : MessageType, size : {z}, version : {TRUE}]
    BY <1>0
  <2>2. /\ k.type = m.type /\ k.size = z
    OBVIOUS
  <2>3. k \in ms
    <3>1. b[1] = index(k.type) - 1
      BY <1>1, <2>2
    <3>2. k.type = "Data" => Len(b) >= 2 + k.size
      BY <1>0, <1>1, <1>2, <2>2
    <3>3. k.type = "Register" => Len(b) >= 3
      BY <1>2, <1>6, <2>2
    <3> HIDE DEF k, ms
    <3> QED
      BY <1>3, <2>1, <3>1, <3>2, <3>3
  <2>4. \A n \in ms : n \in MessageRec /\ n.type = m.type /\ (m.type = "Data" => n.size = m.size)
    BY <1>2, <1>4
  <2> HIDE DEF ms
  <2>5. ms # {}
    BY <2>3
  <2> QED
    BY <2>4, <2>5, <1>6 DEF ms, b
<1> QED
  BY <1>5, <1>6

-----------------------------------------------------------------------------
(* The bytes of a frame                                                    *)

Frame == [session : SessionId, message : Message]
FrameRec == [session : SessionId, message : MessageRec]

Header(f) ==
  [session |-> f.session, type |-> f.message.type, length |-> Len(serialize(f.message))]
Bytes(f) == header_encode(Header(f)) \o serialize(f.message)
Fits(f) == Len(serialize(f.message)) <= MAX_PAYLOAD_SIZE

LEMMA FrameFields ==
  ASSUME NEW f \in Frame
  PROVE  /\ f.session \in SessionId /\ f.message \in MessageRec /\ f.session \in Nat
         /\ f.message.type \in MessageType
<1>1. f.session \in SessionId /\ f.message \in Message
  BY DEF Frame
<1>2. f.session \in Nat
  <2>1. f.session \in 0..(Place[5] - 1)
    BY <1>1, FrameCodecAssumption DEF FrameCodecAssumption
  <2>2. Place[5] \in Nat
    BY Constants, PlaceIs
  <2> QED
    BY <2>1, <2>2
<1>3. f.message \in MessageRec
  BY <1>1, FrameCodecAssumption DEF FrameCodecAssumption, MessageRec
<1>4. f.message.type \in MessageType
  BY <1>3 DEF MessageRec
<1> QED
  BY <1>1, <1>2, <1>3, <1>4

LEMMA MaxPayload == MAX_PAYLOAD_SIZE \in Nat
<1>1. Radix * Radix * Radix >= 1 /\ Radix * Radix * Radix \in Nat
  BY Constants
<1> QED
  BY <1>1, PlaceIs DEF MAX_PAYLOAD_SIZE

LEMMA DigitType ==
  ASSUME NEW n \in Nat
  PROVE  Digit(n, 0) \in Nat /\ Digit(n, 1) \in Nat /\ Digit(n, 2) \in Nat /\ Digit(n, 3) \in Nat
<1> DEFINE R == Radix
<1>1. R \in Nat /\ R > 1 /\ R * R \in Nat /\ R * R > 0 /\ R * R * R \in Nat /\ R * R * R > 0
  BY Constants
<1> HIDE DEF R
<1>2. \A d \in Nat : d > 0 => n \div d \in Nat
  OBVIOUS
<1>3. \A k \in Nat : (k % R) \in Nat
  BY <1>1
<1>4. /\ Digit(n, 0) = ((n \div 1) % R) /\ Digit(n, 1) = ((n \div R) % R)
      /\ Digit(n, 2) = ((n \div (R * R)) % R) /\ Digit(n, 3) = ((n \div (R * R * R)) % R)
  BY PlaceIs DEF Digit, R
<1>5. /\ n \div 1 \in Nat /\ n \div R \in Nat
      /\ n \div (R * R) \in Nat /\ n \div (R * R * R) \in Nat
  BY <1>1, <1>2
<1> QED
  BY <1>3, <1>4, <1>5

LEMMA EightAndMore ==
  ASSUME NEW a \in Nat, NEW b \in Nat, NEW c \in Nat, NEW d \in Nat,
         NEW e \in Nat, NEW f \in Nat, NEW g \in Nat, NEW h \in Nat, NEW s \in Seq(Nat)
  PROVE  LET t == <<a, b, c, d, e, f, g, h>> \o s
         IN /\ t \in Seq(Nat) /\ Len(t) = 8 + Len(s)
            /\ t[1] = a /\ t[2] = b /\ t[3] = c /\ t[4] = d
            /\ t[5] = e /\ t[6] = f /\ t[7] = g /\ t[8] = h
            /\ SubSeq(t, 9, Len(t)) = s
OBVIOUS

LEMMA BytesAre ==
  ASSUME NEW f \in Frame
  PROVE  LET t == Bytes(f)
             n == f.session
             l == Len(serialize(f.message))
         IN /\ t \in Seq(Nat) /\ Len(t) = 8 + l /\ l \in Nat
            /\ t[1] = Digit(n, 3) /\ t[2] = Digit(n, 2) /\ t[3] = Digit(n, 1) /\ t[4] = Digit(n, 0)
            /\ t[5] = as_u8(f.message.type)
            /\ t[6] = Digit(l, 2) /\ t[7] = Digit(l, 1) /\ t[8] = Digit(l, 0)
            /\ SubSeq(t, 9, Len(t)) = serialize(f.message)
<1> DEFINE n == f.session
           s == serialize(f.message)
           l == Len(s)
           u == as_u8(f.message.type)
<1>1. n \in Nat /\ u \in Nat
  BY FrameFields, CodeIs
<1>2. s \in Seq(Nat) /\ l \in Nat
  BY FrameFields, SerializeIs
<1>3. Bytes(f) = <<Digit(n, 3), Digit(n, 2), Digit(n, 1), Digit(n, 0), u,
                   Digit(l, 2), Digit(l, 1), Digit(l, 0)>> \o s
  BY DEF Bytes, header_encode, Header
<1>4. /\ Digit(n, 0) \in Nat /\ Digit(n, 1) \in Nat /\ Digit(n, 2) \in Nat /\ Digit(n, 3) \in Nat
      /\ Digit(l, 0) \in Nat /\ Digit(l, 1) \in Nat /\ Digit(l, 2) \in Nat
  BY <1>1, <1>2, DigitType
<1> HIDE DEF n, s, l, u
<1>5. /\ Bytes(f) \in Seq(Nat) /\ Len(Bytes(f)) = 8 + Len(s)
      /\ Bytes(f)[1] = Digit(n, 3) /\ Bytes(f)[2] = Digit(n, 2)
      /\ Bytes(f)[3] = Digit(n, 1) /\ Bytes(f)[4] = Digit(n, 0)
      /\ Bytes(f)[5] = u
      /\ Bytes(f)[6] = Digit(l, 2) /\ Bytes(f)[7] = Digit(l, 1) /\ Bytes(f)[8] = Digit(l, 0)
      /\ SubSeq(Bytes(f), 9, Len(Bytes(f))) = s
  BY <1>1, <1>2, <1>3, <1>4, EightAndMore
<1> QED
  BY <1>2, <1>5 DEF n, s, l, u

(* A header reads back as it was written.                                  *)
LEMMA HeaderReadsBack ==
  ASSUME NEW f \in Frame, Fits(f), NEW b, \A i \in 1..8 : b[i] = Bytes(f)[i]
  PROVE  header_decode(b) = Header(f) /\ from_u8(b[5]) # {}
<1> DEFINE n == f.session
           l == Len(serialize(f.message))
           t == f.message.type
<1>1. n \in SessionId /\ t \in MessageType /\ l \in 0..MAX_PAYLOAD_SIZE
  BY FrameFields, BytesAre, MaxPayload DEF Fits
<1>2. /\ b[1] = Digit(n, 3) /\ b[2] = Digit(n, 2) /\ b[3] = Digit(n, 1) /\ b[4] = Digit(n, 0)
      /\ b[5] = as_u8(t)
      /\ b[6] = Digit(l, 2) /\ b[7] = Digit(l, 1) /\ b[8] = Digit(l, 0)
  <2>1. /\ Bytes(f)[1] = Digit(n, 3) /\ Bytes(f)[2] = Digit(n, 2)
        /\ Bytes(f)[3] = Digit(n, 1) /\ Bytes(f)[4] = Digit(n, 0)
        /\ Bytes(f)[5] = as_u8(t)
        /\ Bytes(f)[6] = Digit(l, 2) /\ Bytes(f)[7] = Digit(l, 1) /\ Bytes(f)[8] = Digit(l, 0)
    BY BytesAre
  <2>2. /\ b[1] = Bytes(f)[1] /\ b[2] = Bytes(f)[2] /\ b[3] = Bytes(f)[3] /\ b[4] = Bytes(f)[4]
        /\ b[5] = Bytes(f)[5] /\ b[6] = Bytes(f)[6] /\ b[7] = Bytes(f)[7] /\ b[8] = Bytes(f)[8]
    OBVIOUS
  <2> QED
    BY <2>1, <2>2
<1> HIDE DEF n, l, t
<1>3. b[1] * Place[4] + b[2] * Place[3] + b[3] * Place[2] + b[4] = n
  BY <1>1, <1>2, SessionDigits
<1>4. b[6] * Place[3] + b[7] * Place[2] + b[8] = l
  BY <1>1, <1>2, LengthDigits
<1>5. (CHOOSE u \in MessageType : as_u8(u) = b[5]) = t
  BY <1>1, <1>2, CodeIs
<1>6. from_u8(b[5]) # {}
  BY <1>1, <1>2, CodeIs
<1> QED
  BY <1>3, <1>4, <1>5, <1>6 DEF header_decode, Header, n, l, t

LEMMA HeaderIs ==
  ASSUME NEW f \in Frame
  PROVE  Header(f) # NoHeader /\ Header(f).length = Len(serialize(f.message))
         /\ Header(f).session = f.session
<1>1. /\ f.session \in Nat /\ f.message.type \in MessageType
      /\ Len(serialize(f.message)) \in Nat
  BY FrameFields, BytesAre
<1>2. Header(f) \in [session : Nat, type : MessageType, length : Nat]
  BY <1>1 DEF Header
<1> QED
  BY <1>2, FrameCodecAssumption DEF FrameCodecAssumption, Header

-----------------------------------------------------------------------------
(* Decoding part of a frame                                                *)

(* Cutting and joining the bytes of a frame.                               *)
LEMMA Piece ==
  ASSUME NEW B \in Seq(Nat), NEW a \in Nat, NEW b \in Nat, 1 <= a, a <= b + 1, b <= Len(B)
  PROVE  /\ SubSeq(B, a, b) \in Seq(Nat) /\ Len(SubSeq(B, a, b)) = (b + 1) - a
         /\ \A i \in 1..((b + 1) - a) : SubSeq(B, a, b)[i] = B[(a + i) - 1]
OBVIOUS

LEMMA PieceAdded ==
  ASSUME NEW B \in Seq(Nat), NEW a \in Nat, NEW p \in Nat, NEW m \in Nat,
         1 <= a, a <= p + 1, p + m <= Len(B)
  PROVE  SubSeq(B, a, p) \o SubSeq(Rest(B, p), 1, m) = SubSeq(B, a, p + m)
BY DEF Rest

LEMMA RestOfRest ==
  ASSUME NEW B \in Seq(Nat), NEW p \in Nat, NEW m \in Nat, p + m <= Len(B)
  PROVE  /\ Rest(Rest(B, p), m) = Rest(B, p + m)
         /\ Len(Rest(B, p)) = Len(B) - p /\ Rest(B, p) \in Seq(Nat)
         /\ Rest(B, 0) = B
BY DEF Rest

LEMMA RestOfPiece ==
  ASSUME NEW B \in Seq(Nat), NEW h \in Nat, NEW p \in Nat, h <= p, p <= Len(B)
  PROVE  Rest(SubSeq(B, 1, p), h) = SubSeq(B, h + 1, p)
BY DEF Rest

LEMMA WholeSeq ==
  ASSUME NEW B \in Seq(Nat)
  PROVE  /\ SubSeq(B, 1, Len(B)) = B /\ Rest(B, Len(B)) = <<>>
         /\ SubSeq(B, 1, 0) = <<>>
BY DEF Rest

(* A part of the payload is kept, with the header.                         *)
LEMMA PayloadPart ==
  ASSUME NEW f \in Frame, Fits(f), NEW p \in Nat, 8 <= p, p < Len(Bytes(f))
  PROVE  payload_decode(Header(f), SubSeq(Bytes(f), 9, p))
           = More(Header(f), SubSeq(Bytes(f), 9, p))
<1> DEFINE src == SubSeq(Bytes(f), 9, p)
           l == Len(serialize(f.message))
<1>1. Bytes(f) \in Seq(Nat) /\ Len(Bytes(f)) = 8 + l /\ l \in Nat
  BY BytesAre
<1>2. Len(src) = (p + 1) - 9
  BY <1>1, Piece
<1>3. Header(f).length = l
  BY HeaderIs
<1>4. ~(l > MAX_PAYLOAD_SIZE) /\ Len(src) < l
  BY <1>1, <1>2, MaxPayload DEF Fits
<1> HIDE DEF src, l
<1> QED
  BY <1>3, <1>4 DEF payload_decode, src

(* The whole payload gives the message, or an error when it cannot be      *)
(* read; nothing is left of it.                                            *)
LEMMA PayloadWhole ==
  ASSUME NEW f \in Frame, Fits(f)
  PROVE  LET r == payload_decode(Header(f), serialize(f.message))
         IN /\ r.header = NoHeader
            /\ Readable(f) => /\ r.kind = "frame" /\ r.src = <<>>
                              /\ r.frame \in FrameRec /\ Same(r.frame, f)
            /\ ~Readable(f) => r.kind = "error"
<1> DEFINE m == f.message
           s == serialize(m)
           ms == deserialize(s)
           r == payload_decode(Header(f), s)
<1>1. m \in MessageRec /\ f.session \in SessionId
  BY FrameFields
<1>2. s \in Seq(Nat) /\ Len(s) \in Nat /\ Header(f).length = Len(s) /\ Header(f).session = f.session
  BY <1>1, SerializeIs, HeaderIs
<1>3. ~(Len(s) > MAX_PAYLOAD_SIZE) /\ ~(Len(s) < Len(s))
  BY <1>2, MaxPayload DEF Fits
<1>4. SubSeq(s, 1, Len(s)) = s /\ Rest(s, Len(s)) = <<>>
  BY <1>2, WholeSeq
<1>5. Readable(f) <=> ~Unversioned(m)
  BY DEF Readable, Unversioned
<1>6. CASE ms = {}
  <2>1. r = Failed(<<>>)
    <3> HIDE DEF s
    <3> QED
      BY <1>2, <1>3, <1>4, <1>6 DEF payload_decode
  <2>2. r.kind = "error" /\ r.header = NoHeader
    BY <2>1 DEF Failed
  <2>3. ~Readable(f)
    BY <1>1, <1>5, <1>6, ReadsBack
  <2> HIDE DEF r
  <2> QED
    BY <2>2, <2>3 DEF r
<1>7. CASE ms # {}
  <2> DEFINE k == CHOOSE n \in ms : TRUE
  <2>1. r = [kind |-> "frame", header |-> NoHeader, src |-> <<>>,
             frame |-> [session |-> f.session, message |-> k]]
    <3> HIDE DEF s
    <3> QED
      BY <1>2, <1>3, <1>4, <1>7 DEF payload_decode
  <2>2. k \in ms
    BY <1>7
  <2>3. ~Unversioned(m)
    BY <1>1, <1>7, ReadsBack
  <2>4. k \in MessageRec /\ k.type = m.type /\ (m.type = "Data" => k.size = m.size)
    BY <1>1, <2>2, <2>3, ReadsBack
  <2> HIDE DEF k
  <2>5. /\ r.kind = "frame" /\ r.header = NoHeader /\ r.src = <<>>
        /\ r.frame = [session |-> f.session, message |-> k]
    BY <2>1
  <2> HIDE DEF r
  <2>6. r.frame \in FrameRec /\ Same(r.frame, f)
    <3>1. r.frame.session = f.session /\ r.frame.message = k
      BY <2>5
    <3>2. r.frame \in FrameRec
      BY <2>4, <2>5, <1>1 DEF FrameRec
    <3> QED
      BY <2>4, <3>1, <3>2 DEF Same
  <2> QED
    BY <1>5, <2>3, <2>5, <2>6 DEF r
<1> QED
  BY <1>6, <1>7

(* Without a header, fewer bytes than a header are kept; from then on the  *)
(* header is read and what is left is payload.                             *)
LEMMA HeaderPart ==
  ASSUME NEW f \in Frame, Fits(f), NEW p \in Nat, p <= Len(Bytes(f))
  PROVE  LET src == SubSeq(Bytes(f), 1, p)
         IN /\ p < 8 => decode(NoHeader, src) = More(NoHeader, src)
            /\ 8 <= p => decode(NoHeader, src) = payload_decode(Header(f), SubSeq(Bytes(f), 9, p))
<1> DEFINE B == Bytes(f)
           src == SubSeq(B, 1, p)
<1>1. B \in Seq(Nat) /\ Len(B) \in Nat
  BY BytesAre
<1>2. Len(src) = p /\ \A i \in 1..p : src[i] = B[i]
  BY <1>1, Piece
<1>3. CASE p < 8
  <2> HIDE DEF src
  <2>1. decode(NoHeader, src) = More(NoHeader, src)
    BY <1>2, <1>3 DEF decode, HEADER_SIZE
  <2> QED
    BY <2>1, <1>3 DEF src
<1>4. CASE 8 <= p
  <2>1. \A i \in 1..8 : src[i] = B[i]
    BY <1>2, <1>4
  <2>2. Rest(src, 8) = SubSeq(B, 9, p)
    <3>1. Rest(SubSeq(B, 1, p), 8) = SubSeq(B, 8 + 1, p)
      BY <1>1, <1>4, RestOfPiece
    <3> QED
      BY <3>1
  <2> HIDE DEF src
  <2>3. header_decode(src) = Header(f) /\ from_u8(src[5]) # {}
    BY <2>1, HeaderReadsBack
  <2> HIDE DEF B
  <2>4. decode(NoHeader, src) = payload_decode(Header(f), SubSeq(B, 9, p))
    <3>1. ~(Len(src) < HEADER_SIZE) /\ Rest(src, HEADER_SIZE) = SubSeq(B, 9, p)
      BY <1>2, <1>4, <2>2 DEF HEADER_SIZE
    <3>2. decode(NoHeader, src) = payload_decode(header_decode(src), Rest(src, HEADER_SIZE))
      BY <3>1, <2>3 DEF decode
    <3> QED
      BY <3>1, <3>2, <2>3
  <2> QED
    BY <2>4, <1>4 DEF src, B
<1> QED
  BY <1>3, <1>4

-----------------------------------------------------------------------------
(* The frames that can be read, and their places among those received      *)

RankIn(s, k) == Cardinality({j \in 1..k : Readable(s[j])})

LEMMA RankStep ==
  ASSUME NEW s, NEW k \in Nat
  PROVE  /\ RankIn(s, 0) = 0 /\ RankIn(s, k) \in Nat
         /\ Readable(s[k + 1]) => RankIn(s, k + 1) = RankIn(s, k) + 1
         /\ ~Readable(s[k + 1]) => RankIn(s, k + 1) = RankIn(s, k)
<1> DEFINE S(i) == {j \in 1..i : Readable(s[j])}
<1>1. IsFiniteSet(1..k)
  BY FS_Interval
<1>2. S(k) \subseteq 1..k
  OBVIOUS
<1>3. IsFiniteSet(S(k))
  BY <1>1, <1>2, FS_Subset
<1>4. Cardinality(S(k)) \in Nat
  BY <1>3, FS_CardinalityType
<1>5. S(0) = {} /\ Cardinality({}) = 0
  BY FS_EmptySet
<1>6. ASSUME Readable(s[k + 1]) PROVE Cardinality(S(k + 1)) = Cardinality(S(k)) + 1
  <2>1. S(k + 1) = S(k) \cup {k + 1} /\ k + 1 \notin S(k)
    BY <1>6
  <2> HIDE DEF S
  <2> QED
    BY <2>1, <1>3, FS_AddElement
<1>7. ASSUME ~Readable(s[k + 1]) PROVE Cardinality(S(k + 1)) = Cardinality(S(k))
  <2>1. S(k + 1) = S(k)
    BY <1>7
  <2> QED
    BY <2>1
<1> QED
  BY <1>4, <1>5, <1>6, <1>7 DEF RankIn

(* Frames sent later change no place.                                      *)
LEMMA RankKept ==
  ASSUME NEW s, NEW t, NEW k \in Nat, \A j \in 1..k : s[j] = t[j]
  PROVE  RankIn(s, k) = RankIn(t, k)
<1>1. {j \in 1..k : Readable(s[j])} = {j \in 1..k : Readable(t[j])}
  OBVIOUS
<1> QED
  BY <1>1 DEF RankIn

(* The first n frames of s that can be read are those of r.                *)
Taken(r, s, n) ==
  /\ Len(r) = RankIn(s, n)
  /\ \A k \in 1..n :
       /\ RankIn(s, k) <= Len(r)
       /\ Readable(s[k]) => RankIn(s, k) >= 1 /\ Same(r[RankIn(s, k)], s[k])

LEMMA TakenKept ==
  ASSUME NEW r, NEW s, NEW t, NEW n \in Nat, Taken(r, s, n), \A j \in 1..n : t[j] = s[j]
  PROVE  Taken(r, t, n)
<1>1. RankIn(t, n) = RankIn(s, n)
  BY RankKept
<1>2. \A k \in 1..n : RankIn(t, k) = RankIn(s, k) /\ t[k] = s[k]
  BY RankKept
<1> QED
  BY <1>1, <1>2 DEF Taken

LEMMA AppendIs ==
  ASSUME NEW S, NEW q \in Seq(S), NEW e \in S
  PROVE  /\ Append(q, e) \in Seq(S) /\ Len(Append(q, e)) = Len(q) + 1
         /\ \A i \in 1..Len(q) : Append(q, e)[i] = q[i]
         /\ Append(q, e)[Len(q) + 1] = e
OBVIOUS

LEMMA TakenNext ==
  ASSUME NEW r \in Seq(FrameRec), NEW s, NEW n \in Nat, Taken(r, s, n)
  PROVE  /\ ~Readable(s[n + 1]) => Taken(r, s, n + 1)
         /\ \A f \in FrameRec : Readable(s[n + 1]) /\ Same(f, s[n + 1]) => Taken(Append(r, f), s, n + 1)
<1> DEFINE R(k) == RankIn(s, k)
<1>1. /\ R(n) \in Nat
      /\ Readable(s[n + 1]) => R(n + 1) = R(n) + 1
      /\ ~Readable(s[n + 1]) => R(n + 1) = R(n)
  BY RankStep
<1>2. \A k \in 1..n : R(k) \in Nat
  BY RankStep
<1>3. /\ Len(r) = R(n)
      /\ \A k \in 1..n : /\ R(k) <= Len(r)
                         /\ Readable(s[k]) => R(k) >= 1 /\ Same(r[R(k)], s[k])
  BY DEF Taken
<1>4. \A k \in 1..(n + 1) : k \in 1..n \/ k = n + 1
  OBVIOUS
<1>5. ASSUME ~Readable(s[n + 1]) PROVE Taken(r, s, n + 1)
  <2> HIDE DEF R
  <2>1. Len(r) = R(n + 1)
    BY <1>1, <1>3, <1>5
  <2>2. ASSUME NEW k \in 1..(n + 1)
        PROVE  R(k) <= Len(r) /\ (Readable(s[k]) => R(k) >= 1 /\ Same(r[R(k)], s[k]))
    <3>1. CASE k \in 1..n
      BY <3>1, <1>3
    <3>2. CASE k = n + 1
      BY <3>2, <2>1, <1>1, <1>5
    <3> QED
      BY <3>1, <3>2, <1>4
  <2> QED
    BY <2>1, <2>2 DEF Taken, R
<1>6. ASSUME NEW f \in FrameRec, Readable(s[n + 1]), Same(f, s[n + 1])
      PROVE  Taken(Append(r, f), s, n + 1)
  <2> DEFINE q == Append(r, f)
  <2>1. Len(q) = Len(r) + 1 /\ (\A i \in 1..Len(r) : q[i] = r[i]) /\ q[Len(r) + 1] = f
    BY AppendIs
  <2>2. Len(r) \in Nat
    OBVIOUS
  <2> HIDE DEF R, q
  <2>3. Len(q) = R(n + 1) /\ R(n + 1) = Len(r) + 1
    BY <1>1, <1>3, <1>6, <2>1
  <2>4. ASSUME NEW k \in 1..(n + 1)
        PROVE  R(k) <= Len(q) /\ (Readable(s[k]) => R(k) >= 1 /\ Same(q[R(k)], s[k]))
    <3>1. CASE k \in 1..n
      <4>1. R(k) \in Nat /\ R(k) <= Len(r)
        BY <3>1, <1>2, <1>3
      <4>2. R(k) <= Len(q)
        BY <4>1, <2>1, <2>2
      <4>3. ASSUME Readable(s[k]) PROVE R(k) >= 1 /\ Same(q[R(k)], s[k])
        <5>1. R(k) >= 1 /\ Same(r[R(k)], s[k])
          BY <3>1, <1>3, <4>3
        <5>2. q[R(k)] = r[R(k)]
          BY <5>1, <4>1, <2>1, <2>2
        <5> QED
          BY <5>1, <5>2
      <4> QED
        BY <4>2, <4>3
    <3>2. CASE k = n + 1
      <4>1. R(k) = Len(r) + 1 /\ R(k) = Len(q) /\ R(k) >= 1 /\ R(k) <= Len(q)
        BY <3>2, <2>1, <2>2, <2>3
      <4>2. q[R(k)] = f
        BY <4>1, <2>1
      <4> QED
        BY <3>2, <4>1, <4>2, <1>6
    <3> QED
      BY <3>1, <3>2, <1>4
  <2> QED
    BY <2>3, <2>4 DEF Taken, R, q
<1> QED
  BY <1>5, <1>6

-----------------------------------------------------------------------------
(* The inductive invariant                                                 *)

Types ==
  /\ wire \in Seq(Seq(Nat)) /\ sent \in Seq(Frame) /\ received \in Seq(FrameRec)
  /\ decoding \in BOOLEAN /\ tried \in 0..MaxSent

(* Behind the first frame under way are the last frames sent, complete.    *)
Shape(w, s) ==
  /\ Len(w) <= Len(s)
  /\ \A k \in 1..Len(s) : Fits(s[k])
  /\ \A i \in 2..Len(w) : w[i] = Bytes(s[(Len(s) - Len(w)) + i])

(* The receiver holds the first p bytes of frame f, and may have read the  *)
(* header.                                                                 *)
Held(f, p, h, b) ==
  \/ h = NoHeader /\ b = SubSeq(Bytes(f), 1, p)
  \/ 8 <= p /\ h = Header(f) /\ b = SubSeq(Bytes(f), 9, p)

(* Every frame that arrived has been decoded.  The receiver holds the part *)
(* of the next frame that is no longer under way.                          *)
Waiting(w, s, h, b, r) ==
  LET n == Len(s) - Len(w)
      f == s[n + 1]
  IN /\ Taken(r, s, n)
     /\ w = <<>> => h = NoHeader /\ b = <<>>
     /\ w # <<>> => \E p \in Nat : p < Len(Bytes(f)) /\ w[1] = Rest(Bytes(f), p) /\ Held(f, p, h, b)

(* The last frame that arrived is all that is left to decode.              *)
Complete(w, s, h, b, r) ==
  LET n == Len(s) - Len(w)
  IN /\ n >= 1 /\ Taken(r, s, n - 1)
     /\ w # <<>> => w[1] = Bytes(s[n + 1])
     /\ Held(s[n], Len(Bytes(s[n])), h, b)

CodecInv ==
  /\ Types /\ Shape(wire, sent)
  /\ \/ Waiting(wire, sent, pending_header, buffer, received)
     \/ decoding /\ Complete(wire, sent, pending_header, buffer, received)

LEMMA NonEmpty ==
  ASSUME NEW S, NEW w \in Seq(S)
  PROVE  /\ Len(w) \in Nat
         /\ w # <<>> <=> Len(w) >= 1
         /\ w # <<>> => Head(w) = w[1]
OBVIOUS

(* A frame accepted by encode is its bytes.                                *)
LEMMA EncodeIs ==
  ASSUME NEW f \in Frame, encode(f) # {}
  PROVE  Fits(f) /\ (CHOOSE b \in encode(f) : TRUE) = Bytes(f)
<1>1. Len(serialize(f.message)) \in Nat
  BY BytesAre
<1>2. ~(Len(serialize(f.message)) > MAX_PAYLOAD_SIZE)
  BY DEF encode
<1>3. Fits(f)
  BY <1>1, <1>2, MaxPayload DEF Fits
<1>4. encode(f) = {Bytes(f)}
  BY <1>2 DEF encode, Bytes, Header
<1> QED
  BY <1>3, <1>4

(* A new frame goes behind the others.                                     *)
LEMMA ShapeSend ==
  ASSUME NEW w \in Seq(Seq(Nat)), NEW s \in Seq(Frame), NEW f \in Frame, Fits(f), Shape(w, s)
  PROVE  /\ Shape(Append(w, Bytes(f)), Append(s, f))
         /\ Len(Append(s, f)) - Len(Append(w, Bytes(f))) = Len(s) - Len(w)
<1> DEFINE v == Append(w, Bytes(f))
           t == Append(s, f)
           n == Len(s) - Len(w)
<1>0. Bytes(f) \in Seq(Nat)
  BY BytesAre
<1>1. Len(v) = Len(w) + 1 /\ (\A i \in 1..Len(w) : v[i] = w[i]) /\ v[Len(w) + 1] = Bytes(f)
  BY <1>0, AppendIs
<1>2. Len(t) = Len(s) + 1 /\ (\A i \in 1..Len(s) : t[i] = s[i]) /\ t[Len(s) + 1] = f
  BY AppendIs
<1>3. Len(w) \in Nat /\ Len(s) \in Nat /\ Len(w) <= Len(s) /\ n \in Nat
  BY DEF Shape
<1> HIDE DEF v, t
<1>4. Len(t) - Len(v) = n /\ Len(v) <= Len(t)
  BY <1>1, <1>2, <1>3
<1>5. ASSUME NEW k \in 1..Len(t) PROVE Fits(t[k])
  <2>1. CASE k \in 1..Len(s)
    BY <2>1, <1>2 DEF Shape
  <2>2. CASE k = Len(s) + 1
    BY <2>2, <1>2
  <2> QED
    BY <2>1, <2>2, <1>2, <1>3
<1>6. ASSUME NEW i \in 2..Len(v) PROVE v[i] = Bytes(t[n + i])
  <2>1. CASE i \in 2..Len(w)
    <3>1. v[i] = w[i] /\ w[i] = Bytes(s[n + i])
      BY <2>1, <1>1, <1>3 DEF Shape
    <3>2. n + i \in 1..Len(s)
      BY <2>1, <1>3
    <3> HIDE DEF n
    <3> QED
      BY <3>1, <3>2, <1>2
  <2>2. CASE i = Len(w) + 1
    <3>1. n + i = Len(s) + 1
      BY <2>2, <1>3
    <3> HIDE DEF n
    <3> QED
      BY <3>1, <2>2, <1>1, <1>2
  <2> QED
    BY <2>1, <2>2, <1>1, <1>3
<1>7. Shape(v, t)
  BY <1>4, <1>5, <1>6 DEF Shape
<1> QED
  BY <1>4, <1>7 DEF v, t

LEMMA HeldNothing ==
  ASSUME NEW f \in Frame
  PROVE  /\ Held(f, 0, NoHeader, <<>>)
         /\ 0 < Len(Bytes(f)) /\ Rest(Bytes(f), 0) = Bytes(f)
<1>1. Bytes(f) \in Seq(Nat) /\ Len(Bytes(f)) = 8 + Len(serialize(f.message))
      /\ Len(serialize(f.message)) \in Nat
  BY BytesAre
<1>2. SubSeq(Bytes(f), 1, 0) = <<>>
  BY <1>1, WholeSeq
<1>3. Rest(Bytes(f), 0) = Bytes(f)
  BY <1>1, RestOfRest
<1> QED
  BY <1>1, <1>2, <1>3 DEF Held

LEMMA WaitingSend ==
  ASSUME NEW w \in Seq(Seq(Nat)), NEW s \in Seq(Frame), NEW f \in Frame, Fits(f), Shape(w, s),
         NEW h, NEW b, NEW r
  PROVE  /\ Waiting(w, s, h, b, r) => Waiting(Append(w, Bytes(f)), Append(s, f), h, b, r)
         /\ Complete(w, s, h, b, r) => Complete(Append(w, Bytes(f)), Append(s, f), h, b, r)
<1> DEFINE v == Append(w, Bytes(f))
           t == Append(s, f)
           n == Len(s) - Len(w)
<1>0. Bytes(f) \in Seq(Nat)
  BY BytesAre
<1>1. Len(v) = Len(w) + 1 /\ (\A i \in 1..Len(w) : v[i] = w[i]) /\ v[Len(w) + 1] = Bytes(f)
  BY <1>0, AppendIs
<1>2. Len(t) = Len(s) + 1 /\ (\A i \in 1..Len(s) : t[i] = s[i]) /\ t[Len(s) + 1] = f
  BY AppendIs
<1>3. Len(w) \in Nat /\ Len(s) \in Nat /\ Len(w) <= Len(s) /\ n \in Nat
  BY DEF Shape
<1>4. Len(t) - Len(v) = n
  BY ShapeSend
<1>5. v # <<>>
  <2>1. v \in Seq(Seq(Nat))
    BY <1>0, AppendIs
  <2> HIDE DEF v
  <2> QED
    BY <2>1, <1>1, <1>3, NonEmpty
<1>6. w = <<>> => v[1] = Bytes(f) /\ t[n + 1] = f
  <2> SUFFICES ASSUME w = <<>> PROVE v[1] = Bytes(f) /\ t[n + 1] = f
    OBVIOUS
  <2>1. Len(w) = 0
    OBVIOUS
  <2>2. n = Len(s)
    BY <2>1, <1>3
  <2> HIDE DEF v, t, n
  <2> QED
    BY <2>1, <2>2, <1>1, <1>2
<1>7. w # <<>> => v[1] = w[1] /\ t[n + 1] = s[n + 1]
  <2> SUFFICES ASSUME w # <<>> PROVE v[1] = w[1] /\ t[n + 1] = s[n + 1]
    OBVIOUS
  <2>1. Len(w) >= 1
    BY NonEmpty
  <2>2. n + 1 \in 1..Len(s) /\ 1 \in 1..Len(w)
    BY <2>1, <1>3
  <2> HIDE DEF v, t, n
  <2> QED
    BY <2>2, <1>1, <1>2
<1>8. \A j \in 1..n : t[j] = s[j]
  BY <1>2, <1>3
<1> HIDE DEF v, t
<1>9. ASSUME Waiting(w, s, h, b, r) PROVE Waiting(v, t, h, b, r)
  <2>1. Taken(r, s, n)
    BY <1>9 DEF Waiting
  <2>2. Taken(r, t, n)
    BY <2>1, <1>3, <1>8, TakenKept
  <2>3. \E p \in Nat : p < Len(Bytes(t[n + 1])) /\ v[1] = Rest(Bytes(t[n + 1]), p)
                       /\ Held(t[n + 1], p, h, b)
    <3>1. CASE w = <<>>
      <4>1. h = NoHeader /\ b = <<>>
        BY <3>1, <1>9 DEF Waiting
      <4> QED
        BY <3>1, <4>1, <1>6, HeldNothing
    <3>2. CASE w # <<>>
      <4>1. \E p \in Nat : p < Len(Bytes(s[n + 1])) /\ w[1] = Rest(Bytes(s[n + 1]), p)
                           /\ Held(s[n + 1], p, h, b)
        BY <3>2, <1>9 DEF Waiting
      <4> QED
        BY <4>1, <3>2, <1>7
    <3> QED
      BY <3>1, <3>2
  <2> QED
    BY <2>2, <2>3, <1>4, <1>5 DEF Waiting
<1>10. ASSUME Complete(w, s, h, b, r) PROVE Complete(v, t, h, b, r)
  <2>1. n >= 1 /\ Taken(r, s, n - 1) /\ Held(s[n], Len(Bytes(s[n])), h, b)
        /\ (w # <<>> => w[1] = Bytes(s[n + 1]))
    BY <1>10 DEF Complete
  <2>2. Taken(r, t, n - 1)
    <3>1. n - 1 \in Nat /\ \A j \in 1..(n - 1) : t[j] = s[j]
      BY <2>1, <1>3, <1>8
    <3> HIDE DEF n
    <3> QED
      BY <3>1, <2>1, TakenKept
  <2>3. v[1] = Bytes(t[n + 1])
    BY <2>1, <1>6, <1>7
  <2>4. t[n] = s[n]
    BY <2>1, <1>3, <1>8
  <2> QED
    BY <2>1, <2>2, <2>3, <2>4, <1>4 DEF Complete
<1> QED
  BY <1>9, <1>10 DEF v, t

LEMMA BytesType ==
  ASSUME NEW f \in Frame
  PROVE  /\ Bytes(f) \in Seq(Nat) /\ Len(Bytes(f)) \in Nat /\ 8 <= Len(Bytes(f))
         /\ SubSeq(Bytes(f), 9, Len(Bytes(f))) = serialize(f.message)
<1> DEFINE l == Len(serialize(f.message))
<1>1. /\ Bytes(f) \in Seq(Nat) /\ Len(Bytes(f)) = 8 + l /\ l \in Nat
      /\ SubSeq(Bytes(f), 9, Len(Bytes(f))) = serialize(f.message)
  BY BytesAre
<1> HIDE DEF l
<1> QED
  BY <1>1

LEMMA HeldMore ==
  ASSUME NEW f \in Frame, NEW p \in Nat, NEW m \in Nat, p + m <= Len(Bytes(f)),
         NEW h, NEW b, Held(f, p, h, b)
  PROVE  Held(f, p + m, h, b \o SubSeq(Rest(Bytes(f), p), 1, m))
<1> DEFINE B == Bytes(f)
           Added(a) == SubSeq(B, a, p) \o SubSeq(Rest(B, p), 1, m) = SubSeq(B, a, p + m)
<1>1. B \in Seq(Nat) /\ p + m <= Len(B)
  BY BytesType
<1> HIDE DEF B
<1>2. \A a \in Nat : 1 <= a /\ a <= p + 1 => Added(a)
  BY <1>1, PieceAdded
<1> HIDE DEF Added
<1>3. Added(1) /\ (8 <= p => Added(9))
  BY <1>2
<1>4. 8 <= p => 8 <= p + m
  OBVIOUS
<1>5. \/ h = NoHeader /\ b = SubSeq(B, 1, p)
      \/ 8 <= p /\ h = Header(f) /\ b = SubSeq(B, 9, p)
  BY DEF Held, B
<1> QED
  BY <1>3, <1>4, <1>5 DEF Held, Added, B

LEMMA TailIs ==
  ASSUME NEW S, NEW w \in Seq(S), w # <<>>
  PROVE  /\ Tail(w) \in Seq(S) /\ Len(Tail(w)) = Len(w) - 1
         /\ \A i \in 1..(Len(w) - 1) : Tail(w)[i] = w[i + 1]
OBVIOUS

LEMMA HeadReplaced ==
  ASSUME NEW S, NEW w \in Seq(S), w # <<>>, NEW x \in S
  PROVE  /\ <<x>> \o Tail(w) \in Seq(S) /\ Len(<<x>> \o Tail(w)) = Len(w)
         /\ (<<x>> \o Tail(w))[1] = x
         /\ \A i \in 2..Len(w) : (<<x>> \o Tail(w))[i] = w[i]
OBVIOUS

(* A piece of the first frame under way, not its end, goes to the buffer.  *)
LEMMA PieceArrives ==
  ASSUME NEW w \in Seq(Seq(Nat)), NEW s \in Seq(Frame), NEW h, NEW b, NEW r,
         Shape(w, s), Waiting(w, s, h, b, r), w # <<>>,
         NEW m \in 1..Len(w[1]), m # Len(w[1])
  PROVE  LET v == <<Rest(w[1], m)>> \o Tail(w)
         IN /\ v \in Seq(Seq(Nat)) /\ Shape(v, s)
            /\ Waiting(v, s, h, b \o SubSeq(w[1], 1, m), r)
<1> DEFINE n == Len(s) - Len(w)
           f == s[n + 1]
           B == Bytes(f)
           v == <<Rest(w[1], m)>> \o Tail(w)
           c == b \o SubSeq(w[1], 1, m)
<1>0. Len(w) \in Nat /\ Len(w) >= 1 /\ Len(s) \in Nat /\ Len(w) <= Len(s) /\ n \in Nat
      /\ n + 1 \in 1..Len(s)
  BY NonEmpty DEF Shape
<1>1. f \in Frame
  <2> HIDE DEF n
  <2> QED
    BY <1>0
<1>2. PICK p \in Nat : p < Len(B) /\ w[1] = Rest(B, p) /\ Held(f, p, h, b)
  BY DEF Waiting
<1> HIDE DEF n, f
<1>3. B \in Seq(Nat) /\ Len(B) \in Nat
  BY <1>1, BytesType
<1> HIDE DEF B
<1>4. Len(w[1]) = Len(B) - p
  <2>1. p + 0 <= Len(B)
    BY <1>2, <1>3
  <2>2. Len(Rest(B, p)) = Len(B) - p
    BY <1>3, <2>1, RestOfRest
  <2> QED
    BY <1>2, <2>2
<1>5. m \in Nat /\ p + m < Len(B)
  <2> DEFINE l == Len(w[1])
  <2>1. l = Len(B) - p /\ m \in 1..l /\ m # l
    BY <1>4
  <2> HIDE DEF l
  <2> QED
    BY <2>1, <1>2, <1>3
<1>6. Rest(w[1], m) = Rest(B, p + m) /\ Rest(B, p + m) \in Seq(Nat)
  <2>1. Rest(Rest(B, p), m) = Rest(B, p + m)
    BY <1>3, <1>5, RestOfRest
  <2>2. p + m \in Nat /\ (p + m) + 0 <= Len(B)
    BY <1>3, <1>5
  <2>3. Rest(B, p + m) \in Seq(Nat)
    BY <1>3, <2>2, RestOfRest
  <2> QED
    BY <2>1, <2>3, <1>2
<1>7. /\ v \in Seq(Seq(Nat)) /\ Len(v) = Len(w) /\ v[1] = Rest(w[1], m)
      /\ \A i \in 2..Len(w) : v[i] = w[i]
  BY <1>6, HeadReplaced
<1> HIDE DEF v
<1>8. v # <<>>
  BY <1>0, <1>7, NonEmpty
<1>9. Shape(v, s)
  BY <1>7 DEF Shape
<1>10. Held(f, p + m, h, c)
  <2>1. p + m <= Len(B)
    BY <1>3, <1>5
  <2>2. Held(f, p + m, h, b \o SubSeq(Rest(B, p), 1, m))
    BY <1>1, <1>2, <1>5, <2>1, HeldMore DEF B
  <2> QED
    BY <2>2, <1>2
<1>11. Waiting(v, s, h, c, r)
  <2>1. Taken(r, s, n) /\ Len(s) - Len(v) = n
    BY <1>7 DEF Waiting, n
  <2>2. \E q \in Nat : q < Len(B) /\ v[1] = Rest(B, q) /\ Held(f, q, h, c)
    <3>1. p + m \in Nat
      BY <1>5
    <3> HIDE DEF c
    <3> QED
      BY <3>1, <1>5, <1>6, <1>7, <1>10
  <2> HIDE DEF c
  <2> QED
    BY <2>1, <2>2, <1>8 DEF Waiting, f, B
<1> QED
  BY <1>7, <1>9, <1>11 DEF v

(* The end of the first frame under way goes to the buffer.                *)
LEMMA EndArrives ==
  ASSUME NEW w \in Seq(Seq(Nat)), NEW s \in Seq(Frame), NEW h, NEW b, NEW r,
         Shape(w, s), Waiting(w, s, h, b, r), w # <<>>
  PROVE  /\ Tail(w) \in Seq(Seq(Nat)) /\ Shape(Tail(w), s)
         /\ Complete(Tail(w), s, h, b \o SubSeq(w[1], 1, Len(w[1])), r)
<1> DEFINE n == Len(s) - Len(w)
           f == s[n + 1]
           B == Bytes(f)
           v == Tail(w)
           c == b \o SubSeq(w[1], 1, Len(w[1]))
<1>0. Len(w) \in Nat /\ Len(w) >= 1 /\ Len(s) \in Nat /\ Len(w) <= Len(s) /\ n \in Nat
      /\ n + 1 \in 1..Len(s)
  BY NonEmpty DEF Shape
<1>1. f \in Frame
  <2> HIDE DEF n
  <2> QED
    BY <1>0
<1>2. PICK p \in Nat : p < Len(B) /\ w[1] = Rest(B, p) /\ Held(f, p, h, b)
  BY DEF Waiting
<1> HIDE DEF f
<1>3. B \in Seq(Nat) /\ Len(B) \in Nat
  BY <1>1, BytesType
<1> HIDE DEF B
<1>4. Len(w[1]) = Len(B) - p
  <2>1. p + 0 <= Len(B)
    BY <1>2, <1>3
  <2>2. Len(Rest(B, p)) = Len(B) - p
    BY <1>3, <2>1, RestOfRest
  <2> QED
    BY <1>2, <2>2
<1>5. Len(B) - p \in Nat /\ p + (Len(B) - p) = Len(B)
  BY <1>2, <1>3
<1>6. Held(f, p + Len(w[1]), h, c)
  <2> DEFINE l == Len(w[1])
  <2>0. l = Len(B) - p
    BY <1>4
  <2> HIDE DEF l
  <2>1. l \in Nat /\ p + l <= Len(B)
    BY <2>0, <1>2, <1>3
  <2>2. Held(f, p + l, h, b \o SubSeq(Rest(B, p), 1, l))
    BY <1>1, <1>2, <2>1, HeldMore DEF B
  <2> QED
    BY <2>2, <1>2 DEF l
<1>7. Held(f, Len(B), h, c)
  BY <1>4, <1>5, <1>6
<1>8. /\ v \in Seq(Seq(Nat)) /\ Len(v) = Len(w) - 1
      /\ \A i \in 1..(Len(w) - 1) : v[i] = w[i + 1]
  BY TailIs
<1> HIDE DEF v, c
<1>9. Len(s) - Len(v) = n + 1 /\ Len(v) <= Len(s)
  BY <1>0, <1>8
<1>10. ASSUME NEW i \in 1..Len(v) PROVE v[i] = Bytes(s[(n + 1) + i])
  <2>1. v[i] = w[i + 1] /\ i + 1 \in 2..Len(w)
    BY <1>0, <1>8
  <2>2. w[i + 1] = Bytes(s[n + (i + 1)])
    BY <2>1 DEF Shape
  <2>3. n + (i + 1) = (n + 1) + i
    BY <1>0
  <2> HIDE DEF n
  <2> QED
    BY <2>1, <2>2, <2>3
<1>11. Shape(v, s)
  <2>1. \A i \in 2..Len(v) : v[i] = Bytes(s[(n + 1) + i])
    BY <1>10
  <2>2. \A k \in 1..Len(s) : Fits(s[k])
    BY DEF Shape
  <2> HIDE DEF n
  <2> QED
    BY <2>1, <2>2, <1>9 DEF Shape
<1>12. Complete(v, s, h, c, r)
  <2>1. Taken(r, s, n)
    BY DEF Waiting
  <2>2. n + 1 >= 1 /\ (n + 1) - 1 = n
    BY <1>0
  <2>3. v # <<>> => v[1] = Bytes(s[(n + 1) + 1])
    <3>1. v # <<>> => 1 \in 1..Len(v)
      BY <1>8, NonEmpty
    <3> QED
      BY <3>1, <1>10
  <2> HIDE DEF n
  <2> QED
    BY <2>1, <2>2, <2>3, <1>7, <1>9 DEF Complete, f, B
<1> QED
  BY <1>8, <1>11, <1>12 DEF v, c

(* Decoding part of a frame keeps it.                                      *)
LEMMA DecodeWaiting ==
  ASSUME NEW w \in Seq(Seq(Nat)), NEW s \in Seq(Frame), NEW h, NEW b, NEW r,
         Shape(w, s), Waiting(w, s, h, b, r)
  PROVE  LET d == decode(h, b)
         IN d.kind = "more" /\ Waiting(w, s, d.header, d.src, r)
<1> DEFINE n == Len(s) - Len(w)
           f == s[n + 1]
           B == Bytes(f)
           d == decode(h, b)
<1>m. ASSUME NEW g, NEW c PROVE More(g, c).kind = "more" /\ More(g, c).header = g /\ More(g, c).src = c
  BY DEF More
<1>1. CASE w = <<>>
  <2>1. h = NoHeader /\ b = <<>>
    BY <1>1 DEF Waiting
  <2>2. Len(b) < HEADER_SIZE
    BY <2>1 DEF HEADER_SIZE
  <2>3. d = More(h, b)
    BY <2>1, <2>2 DEF decode
  <2> QED
    BY <2>3, <1>m
<1>2. CASE w # <<>>
  <2>0. Len(w) \in Nat /\ Len(w) >= 1 /\ Len(s) \in Nat /\ Len(w) <= Len(s) /\ n \in Nat
        /\ n + 1 \in 1..Len(s)
    BY <1>2, NonEmpty DEF Shape
  <2>1. f \in Frame /\ Fits(f)
    <3> HIDE DEF n
    <3> QED
      BY <2>0 DEF Shape
  <2>2. PICK p \in Nat : p < Len(B) /\ w[1] = Rest(B, p) /\ Held(f, p, h, b)
    BY <1>2 DEF Waiting
  <2>3. Taken(r, s, n) /\ Len(B) \in Nat
    BY <2>1, BytesAre DEF Waiting
  <2> HIDE DEF f
  <2>4. \E g, c : d = More(g, c) /\ Held(f, p, g, c)
    <3>1. CASE p < 8
      <4>1. h = NoHeader /\ b = SubSeq(B, 1, p)
        BY <3>1, <2>2 DEF Held
      <4>2. d = More(NoHeader, b)
        BY <4>1, <3>1, <2>1, <2>2, <2>3, HeaderPart
      <4> QED
        BY <4>1, <4>2 DEF Held
    <3>2. CASE 8 <= p
      <4>1. payload_decode(Header(f), SubSeq(B, 9, p)) = More(Header(f), SubSeq(B, 9, p))
        BY <3>2, <2>1, <2>2, PayloadPart
      <4>2. d = payload_decode(Header(f), SubSeq(B, 9, p))
        <5>1. CASE h = NoHeader
          <6>1. b = SubSeq(B, 1, p)
            BY <5>1, <2>1, <2>2, HeaderIs DEF Held
          <6> QED
            BY <6>1, <5>1, <3>2, <2>1, <2>2, <2>3, HeaderPart
        <5>2. CASE h # NoHeader
          <6>1. h = Header(f) /\ b = SubSeq(B, 9, p)
            BY <5>2, <2>2 DEF Held
          <6> QED
            BY <6>1, <5>2 DEF decode
        <5> QED
          BY <5>1, <5>2
      <4>3. Held(f, p, Header(f), SubSeq(B, 9, p))
        BY <3>2 DEF Held
      <4> QED
        BY <4>1, <4>2, <4>3
    <3> QED
      BY <3>1, <3>2, <2>2
  <2> HIDE DEF d
  <2>5. d.kind = "more" /\ Held(f, p, d.header, d.src)
    BY <2>4, <1>m
  <2>6. Waiting(w, s, d.header, d.src, r)
    BY <1>2, <2>2, <2>3, <2>5 DEF Waiting, f
  <2> QED
    BY <2>5, <2>6 DEF d
<1> QED
  BY <1>1, <1>2

(* Decoding a whole frame gives the frame, or an error and the next frame  *)
(* starts in an empty buffer.                                              *)
LEMMA DecodeComplete ==
  ASSUME NEW w \in Seq(Seq(Nat)), NEW s \in Seq(Frame), NEW h, NEW b, NEW r \in Seq(FrameRec),
         Shape(w, s), Complete(w, s, h, b, r)
  PROVE  LET d == decode(h, b)
         IN /\ d.header = NoHeader
            /\ \/ /\ d.kind = "frame" /\ d.src = <<>> /\ d.frame \in FrameRec
                  /\ Waiting(w, s, NoHeader, <<>>, Append(r, d.frame))
               \/ d.kind = "error" /\ Waiting(w, s, NoHeader, <<>>, r)
<1> DEFINE n == Len(s) - Len(w)
           f == s[n]
           B == Bytes(f)
           d == decode(h, b)
<1>0. Len(w) \in Nat /\ Len(s) \in Nat /\ Len(w) <= Len(s) /\ n \in Nat /\ n \in 1..Len(s)
      /\ n - 1 \in Nat /\ (n - 1) + 1 = n
  BY NonEmpty DEF Shape, Complete
<1>1. f \in Frame /\ Fits(f)
  <2> HIDE DEF n
  <2> QED
    BY <1>0 DEF Shape
<1>2. Taken(r, s, n - 1) /\ Held(f, Len(B), h, b) /\ (w # <<>> => w[1] = Bytes(s[n + 1]))
  BY DEF Complete
<1> HIDE DEF f
<1>3. B \in Seq(Nat) /\ Len(B) \in Nat /\ 8 <= Len(B) /\ SubSeq(B, 9, Len(B)) = serialize(f.message)
  BY <1>1, BytesType
<1>4. d = payload_decode(Header(f), serialize(f.message))
  <2>1. CASE h = NoHeader
    <3>1. b = SubSeq(B, 1, Len(B))
      BY <2>1, <1>1, <1>2, HeaderIs DEF Held
    <3>2. Len(B) <= Len(B)
      BY <1>3
    <3>3. decode(NoHeader, SubSeq(B, 1, Len(B))) = payload_decode(Header(f), SubSeq(B, 9, Len(B)))
      BY <3>2, <1>1, <1>3, HeaderPart
    <3> QED
      BY <3>1, <3>3, <2>1, <1>3
  <2>2. CASE h # NoHeader
    <3>1. h = Header(f) /\ b = SubSeq(B, 9, Len(B))
      BY <2>2, <1>2 DEF Held
    <3> QED
      BY <3>1, <2>2, <1>3 DEF decode
  <2> QED
    BY <2>1, <2>2
<1> HIDE DEF d
<1>5. /\ d.header = NoHeader
      /\ Readable(f) => /\ d.kind = "frame" /\ d.src = <<>>
                        /\ d.frame \in FrameRec /\ Same(d.frame, f)
      /\ ~Readable(f) => d.kind = "error"
  BY <1>1, <1>4, PayloadWhole
<1>6. ASSUME NEW q, Taken(q, s, n) PROVE Waiting(w, s, NoHeader, <<>>, q)
  <2>1. w # <<>> => \E p \in Nat : /\ p < Len(Bytes(s[n + 1])) /\ w[1] = Rest(Bytes(s[n + 1]), p)
                                   /\ Held(s[n + 1], p, NoHeader, <<>>)
    <3> SUFFICES ASSUME w # <<>>
                 PROVE  \E p \in Nat : /\ p < Len(Bytes(s[n + 1])) /\ w[1] = Rest(Bytes(s[n + 1]), p)
                                       /\ Held(s[n + 1], p, NoHeader, <<>>)
      OBVIOUS
    <3>1. Len(w) >= 1
      BY NonEmpty
    <3>2. n + 1 \in 1..Len(s)
      BY <3>1, <1>0
    <3> HIDE DEF n
    <3>3. s[n + 1] \in Frame
      BY <3>2
    <3> QED
      BY <3>3, <1>2, HeldNothing
  <2> QED
    BY <2>1, <1>6 DEF Waiting
<1>7. CASE Readable(f)
  <2>1. Taken(Append(r, d.frame), s, (n - 1) + 1)
    <3>1. s[(n - 1) + 1] = f
      BY <1>0 DEF f
    <3> HIDE DEF n
    <3> QED
      BY <3>1, <1>0, <1>2, <1>5, <1>7, TakenNext
  <2>2. Taken(Append(r, d.frame), s, n)
    BY <2>1, <1>0
  <2> QED
    BY <2>2, <1>5, <1>6, <1>7 DEF d
<1>8. CASE ~Readable(f)
  <2>1. Taken(r, s, (n - 1) + 1)
    <3>1. s[(n - 1) + 1] = f
      BY <1>0 DEF f
    <3> HIDE DEF n
    <3> QED
      BY <3>1, <1>0, <1>2, <1>8, TakenNext
  <2>2. Taken(r, s, n)
    BY <2>1, <1>0
  <2> QED
    BY <2>2, <1>5, <1>6, <1>8 DEF d
<1> QED
  BY <1>7, <1>8

-----------------------------------------------------------------------------
(* The steps                                                               *)

LEMMA InitInv == Init => CodecInv
<1> SUFFICES ASSUME Init PROVE CodecInv
  OBVIOUS
<1>1. /\ wire = <<>> /\ buffer = <<>> /\ pending_header = NoHeader /\ decoding = FALSE
      /\ received = <<>> /\ sent = <<>> /\ tried = 0
  BY DEF Init
<1>2. Types
  <2>1. \A S : <<>> \in Seq(S)
    OBVIOUS
  <2>2. 0 \in 0..MaxSent /\ FALSE \in BOOLEAN
    BY Constants
  <2> QED
    BY <1>1, <2>1, <2>2 DEF Types
<1>3. Shape(<<>>, <<>>)
  BY DEF Shape
<1>4. Waiting(<<>>, <<>>, NoHeader, <<>>, <<>>)
  <2>1. Len(<<>>) = 0 /\ 0 - 0 = 0
    OBVIOUS
  <2>2. RankIn(<<>>, 0) = 0
    BY RankStep
  <2>3. Taken(<<>>, <<>>, 0)
    BY <2>1, <2>2 DEF Taken
  <2> QED
    BY <2>1, <2>3 DEF Waiting
<1> QED
  BY <1>1, <1>2, <1>3, <1>4 DEF CodecInv

LEMMA SendStep ==
  ASSUME CodecInv, NEW id \in SessionId, NEW m \in Message, Send(id, m)
  PROVE  CodecInv'
<1> DEFINE f == [session |-> id, message |-> m]
<1>1. f \in Frame
  BY DEF Frame
<1>2. Types /\ Shape(wire, sent)
  BY DEF CodecInv
<1>3. /\ tried' \in 0..MaxSent
      /\ UNCHANGED <<buffer, pending_header, decoding, received>>
  BY <1>2, Constants DEF Send, Types
<1>4. CASE encode(f) = {}
  <2>1. UNCHANGED <<wire, sent>>
    BY <1>4 DEF Send
  <2>2. Types'
    BY <2>1, <1>2, <1>3 DEF Types
  <2> QED
    BY <2>1, <2>2, <1>3 DEF CodecInv
<1>5. CASE encode(f) # {}
  <2>1. Fits(f) /\ (CHOOSE b \in encode(f) : TRUE) = Bytes(f)
    BY <1>1, <1>5, EncodeIs
  <2>2. wire' = Append(wire, Bytes(f)) /\ sent' = Append(sent, f)
    BY <1>5, <2>1 DEF Send
  <2> HIDE DEF f
  <2>3. wire \in Seq(Seq(Nat)) /\ sent \in Seq(Frame) /\ Bytes(f) \in Seq(Nat)
    BY <1>1, <1>2, BytesType DEF Types
  <2>4. wire' \in Seq(Seq(Nat)) /\ sent' \in Seq(Frame)
    BY <1>1, <2>2, <2>3, AppendIs
  <2>5. Types'
    BY <2>4, <1>2, <1>3 DEF Types
  <2>6. Shape(wire', sent')
    BY <1>1, <1>2, <2>1, <2>2, <2>3, ShapeSend
  <2>7. /\ Waiting(wire, sent, pending_header, buffer, received) =>
             Waiting(wire', sent', pending_header, buffer, received)
        /\ Complete(wire, sent, pending_header, buffer, received) =>
             Complete(wire', sent', pending_header, buffer, received)
    BY <1>1, <1>2, <2>1, <2>2, <2>3, WaitingSend
  <2> QED
    BY <2>5, <2>6, <2>7, <1>3 DEF CodecInv
<1> QED
  BY <1>4, <1>5

LEMMA DataStep ==
  ASSUME CodecInv, NEW n, Data(n)
  PROVE  CodecInv'
<1>1. /\ Types /\ Shape(wire, sent)
      /\ Waiting(wire, sent, pending_header, buffer, received)
  BY DEF CodecInv, Data
<1>2. wire \in Seq(Seq(Nat)) /\ sent \in Seq(Frame) /\ wire # <<>> /\ Head(wire) = wire[1]
  BY <1>1, NonEmpty DEF Types, Data
<1>3. /\ n \in 1..Len(wire[1])
      /\ buffer' = buffer \o SubSeq(wire[1], 1, n)
      /\ wire' = IF n = Len(wire[1]) THEN Tail(wire) ELSE <<Rest(wire[1], n)>> \o Tail(wire)
      /\ decoding' = TRUE /\ UNCHANGED <<pending_header, received, sent, tried>>
  BY <1>2 DEF Data
<1>4. CASE n = Len(wire[1])
  <2>1. wire' = Tail(wire) /\ buffer' = buffer \o SubSeq(wire[1], 1, Len(wire[1]))
    BY <1>3, <1>4
  <2>2. /\ wire' \in Seq(Seq(Nat)) /\ Shape(wire', sent)
        /\ Complete(wire', sent, pending_header, buffer', received)
    BY <2>1, <1>1, <1>2, EndArrives
  <2>3. Types'
    BY <2>2, <1>1, <1>3 DEF Types
  <2> QED
    BY <2>2, <2>3, <1>3 DEF CodecInv
<1>5. CASE n # Len(wire[1])
  <2>1. wire' = <<Rest(wire[1], n)>> \o Tail(wire)
    BY <1>3, <1>5
  <2>2. /\ wire' \in Seq(Seq(Nat)) /\ Shape(wire', sent)
        /\ Waiting(wire', sent, pending_header, buffer', received)
    BY <2>1, <1>1, <1>2, <1>3, <1>5, PieceArrives
  <2>3. Types'
    BY <2>2, <1>1, <1>3 DEF Types
  <2> QED
    BY <2>2, <2>3, <1>3 DEF CodecInv
<1> QED
  BY <1>4, <1>5

LEMMA DecodeStep ==
  ASSUME CodecInv, Decode
  PROVE  CodecInv'
<1> DEFINE d == decode(pending_header, buffer)
<1>1. /\ Types /\ Shape(wire, sent)
      /\ wire \in Seq(Seq(Nat)) /\ sent \in Seq(Frame) /\ received \in Seq(FrameRec)
  BY DEF CodecInv, Types
<1>2. /\ pending_header' = d.header
      /\ buffer' = IF d.kind = "error" THEN <<>> ELSE d.src
      /\ received' = IF d.kind = "frame" THEN Append(received, d.frame) ELSE received
      /\ decoding' = (d.kind = "frame")
      /\ UNCHANGED <<wire, sent, tried>>
  BY DEF Decode
<1>3. decoding' \in BOOLEAN
  BY <1>2
<1>4. CASE Waiting(wire, sent, pending_header, buffer, received)
  <2>1. d.kind = "more" /\ Waiting(wire, sent, d.header, d.src, received)
    BY <1>1, <1>4, DecodeWaiting
  <2> HIDE DEF d
  <2>2. buffer' = d.src /\ received' = received /\ pending_header' = d.header
    BY <2>1, <1>2
  <2>3. Types'
    BY <2>2, <1>1, <1>2, <1>3 DEF Types
  <2>4. Waiting(wire', sent', pending_header', buffer', received')
    BY <2>1, <2>2, <1>2
  <2> QED
    BY <2>3, <2>4, <1>1, <1>2 DEF CodecInv
<1>5. CASE Complete(wire, sent, pending_header, buffer, received)
  <2>1. /\ d.header = NoHeader
        /\ \/ /\ d.kind = "frame" /\ d.src = <<>> /\ d.frame \in FrameRec
              /\ Waiting(wire, sent, NoHeader, <<>>, Append(received, d.frame))
           \/ d.kind = "error" /\ Waiting(wire, sent, NoHeader, <<>>, received)
    BY <1>1, <1>5, DecodeComplete
  <2> HIDE DEF d
  <2>2. /\ pending_header' = NoHeader /\ buffer' = <<>>
        /\ Waiting(wire, sent, NoHeader, <<>>, received')
        /\ received' = received \/ \E f \in FrameRec : received' = Append(received, f)
    BY <2>1, <1>2
  <2>3. received' \in Seq(FrameRec)
    BY <2>2, <1>1, AppendIs
  <2>4. Types'
    BY <2>3, <1>1, <1>2, <1>3 DEF Types
  <2>5. Waiting(wire', sent', pending_header', buffer', received')
    BY <2>2, <1>2
  <2> QED
    BY <2>4, <2>5, <1>1, <1>2 DEF CodecInv
<1> QED
  BY <1>4, <1>5 DEF CodecInv

-----------------------------------------------------------------------------
(* The invariant and what follows from it                                  *)

(* Along every execution the receiver's buffer and pending header hold the *)
(* part of one frame that is no longer under way, and nothing else.        *)
THEOREM CodecInvariance == Spec => []CodecInv
<1>1. CodecInv /\ [Next]_vars => CodecInv'
  <2> SUFFICES ASSUME CodecInv, [Next]_vars PROVE CodecInv'
    OBVIOUS
  <2>1. ASSUME NEW id \in SessionId, NEW m \in Message, Send(id, m) PROVE CodecInv'
    BY <2>1, SendStep
  <2>2. ASSUME NEW n \in 1..(HEADER_SIZE + MAX_PAYLOAD_SIZE), Data(n) PROVE CodecInv'
    BY <2>2, DataStep
  <2>3. CASE Decode
    BY <2>3, DecodeStep
  <2>4. CASE UNCHANGED vars
    BY <2>4 DEF vars, CodecInv, Types
  <2> QED
    BY <2>1, <2>2, <2>3, <2>4 DEF Next
<1> QED
  BY <1>1, InitInv, PTL DEF Spec

(* Every frame that has arrived and can be read was given to handle_frame, *)
(* in order and as it was sent, for every radix, length up to the limit    *)
(* and cutting of the stream (codec.rs, decode).                           *)
THEOREM DecodesWhatWasSent == Spec => []DecodedIsSent
<1>1. CodecInv => DecodedIsSent
  <2> SUFFICES ASSUME CodecInv, ~decoding
               PROVE  /\ Len(received) = Rank(Delivered)
                      /\ \A k \in 1..Delivered : Readable(sent[k]) => Same(received[Rank(k)], sent[k])
    BY DEF DecodedIsSent
  <2>1. Taken(received, sent, Delivered)
    BY DEF CodecInv, Waiting, Delivered
  <2>2. \A k : Rank(k) = RankIn(sent, k)
    BY DEF Rank, RankIn
  <2> QED
    BY <2>1, <2>2 DEF Taken
<1> QED
  BY <1>1, CodecInvariance, PTL

(* Type correctness; in particular the receiver never holds more than one  *)
(* frame of the greatest length, and every frame it took out is of a       *)
(* session that is in use.                                                 *)
THEOREM CodecTypeCorrect == Spec => []TypeOK
<1>1. CodecInv => TypeOK
  <2> SUFFICES ASSUME CodecInv PROVE TypeOK
    OBVIOUS
  <2>1. Types /\ Shape(wire, sent)
    BY DEF CodecInv
  <2>2. \A i \in DOMAIN received : received[i].session \in SessionId
    <3> TAKE i \in DOMAIN received
    <3>1. received \in Seq(FrameRec)
      BY <2>1 DEF Types
    <3>2. received[i] \in FrameRec
      BY <3>1
    <3> QED
      BY <3>2 DEF FrameRec
  <2>3. /\ Len(buffer) <= HEADER_SIZE + MAX_PAYLOAD_SIZE
        /\ pending_header # NoHeader => pending_header.length \in 0..MAX_PAYLOAD_SIZE
    <3> DEFINE n == Len(sent) - Len(wire)
    <3>0. n \in Nat /\ Len(sent) \in Nat /\ Len(wire) \in Nat /\ wire \in Seq(Seq(Nat))
      BY <2>1 DEF Types, Shape
    <3>h. ASSUME NEW f \in Frame, Fits(f), NEW p \in Nat, p <= Len(Bytes(f)),
                 Held(f, p, pending_header, buffer)
          PROVE  /\ Len(buffer) <= HEADER_SIZE + MAX_PAYLOAD_SIZE
                 /\ pending_header # NoHeader => pending_header.length \in 0..MAX_PAYLOAD_SIZE
      <4> DEFINE l == Len(serialize(f.message))
      <4>1. Bytes(f) \in Seq(Nat) /\ Len(Bytes(f)) = 8 + l /\ l \in Nat /\ l <= MAX_PAYLOAD_SIZE
        BY <3>h, BytesAre DEF Fits
      <4>2. pending_header # NoHeader => pending_header.length = l
        BY <3>h, HeaderIs DEF Held
      <4>3. Len(buffer) <= p /\ Len(buffer) \in Nat
        <5> DEFINE B == Bytes(f)
        <5>1. B \in Seq(Nat) /\ p <= Len(B)
          BY <3>h, <4>1
        <5>2. \/ buffer = SubSeq(B, 1, p)
              \/ 8 <= p /\ buffer = SubSeq(B, 9, p)
          BY <3>h DEF Held
        <5> HIDE DEF B
        <5>3. Len(SubSeq(B, 1, p)) = (p + 1) - 1
          BY <5>1, Piece
        <5>4. 8 <= p => Len(SubSeq(B, 9, p)) = (p + 1) - 9
          BY <5>1, Piece
        <5> QED
          BY <5>2, <5>3, <5>4
      <4> HIDE DEF l
      <4>4. p <= 8 + l
        BY <3>h, <4>1
      <4> QED
        BY <4>1, <4>2, <4>3, <4>4, MaxPayload DEF HEADER_SIZE
    <3>1. CASE Waiting(wire, sent, pending_header, buffer, received)
      <4>1. CASE wire = <<>>
        <5>1. pending_header = NoHeader /\ buffer = <<>>
          BY <3>1, <4>1 DEF Waiting
        <5>2. Len(buffer) = 0
          BY <5>1
        <5> QED
          BY <5>1, <5>2, MaxPayload DEF HEADER_SIZE
      <4>2. CASE wire # <<>>
        <5>1. n + 1 \in 1..Len(sent)
          BY <4>2, <3>0, NonEmpty
        <5> HIDE DEF n
        <5>2. sent[n + 1] \in Frame /\ Fits(sent[n + 1])
          BY <5>1, <2>1 DEF Types, Shape
        <5>3. PICK p \in Nat : p < Len(Bytes(sent[n + 1]))
                               /\ Held(sent[n + 1], p, pending_header, buffer)
          BY <3>1, <4>2 DEF Waiting, n
        <5>4. p <= Len(Bytes(sent[n + 1]))
          BY <5>2, <5>3, BytesType
        <5> QED
          BY <3>h, <5>2, <5>3, <5>4
      <4> QED
        BY <4>1, <4>2
    <3>2. CASE Complete(wire, sent, pending_header, buffer, received)
      <4>1. n >= 1 /\ Held(sent[n], Len(Bytes(sent[n])), pending_header, buffer)
        BY <3>2 DEF Complete
      <4>2. n \in 1..Len(sent)
        BY <4>1, <3>0
      <4> HIDE DEF n
      <4>3. sent[n] \in Frame /\ Fits(sent[n])
        BY <4>2, <2>1 DEF Types, Shape
      <4>4. Len(Bytes(sent[n])) \in Nat /\ Len(Bytes(sent[n])) <= Len(Bytes(sent[n]))
        BY <4>3, BytesType
      <4> QED
        BY <3>h, <4>1, <4>3, <4>4
    <3> QED
      BY <3>1, <3>2 DEF CodecInv
  <2> QED
    BY <2>1, <2>2, <2>3 DEF TypeOK, Types
<1> QED
  BY <1>1, CodecInvariance, PTL
===============================================================================
