--------------------------- MODULE ServicesProofs ---------------------------
(***************************************************************************)
(* Theorems about two of the services: the framer of the flight            *)
(* controller's link (RunCam), for every set of bytes on the line, and the *)
(* debug log (Dlog), for every size of its parts: what it owes the host,   *)
(* and that nothing put into it vanishes.                                  *)
(*                                                                         *)
(* The framer's argument looks at the endings of what was heard: its       *)
(* buffer is the longest of them that may still become a frame.  The log's *)
(* looks at what a boot would find of it, by bisection, and at what it     *)
(* still holds: together they have all it answers for, in order.           *)
(*                                                                         *)
(* The theorems of all four services are then put together for Services.   *)
(***************************************************************************)
EXTENDS Services, UsbUpdateProofs, SdCardProofs,
        SequenceTheorems, WellFoundedInduction, TLAPS

-----------------------------------------------------------------------------
(* Endings of a sequence of bytes *)

Bytes == Seq(Int)
Ending(t, i) == SubSeq(t, i, Len(t))

LEMMA EndingIs ==
  ASSUME NEW t \in Bytes, NEW i \in 1 .. Len(t) + 1
  PROVE  /\ Ending(t, i) \in Bytes /\ Len(Ending(t, i)) = Len(t) + 1 - i
         /\ \A p \in 1 .. Len(t) + 1 - i : Ending(t, i)[p] = t[i + p - 1]
         /\ Ending(t, i) = << >> <=> i = Len(t) + 1
<1>1. Len(t) \in Nat /\ Len(Ending(t, i)) = Len(t) + 1 - i /\ Ending(t, i) \in Bytes
  BY DEF Ending, Bytes
<1>2. \A p \in 1 .. Len(t) + 1 - i : Ending(t, i)[p] = t[i + p - 1]
  BY <1>1 DEF Ending, Bytes
<1>3. Ending(t, i) = << >> <=> Len(Ending(t, i)) = 0
  BY <1>1 DEF Bytes
<1> QED BY <1>1, <1>2, <1>3

LEMMA SameBytes ==
  ASSUME NEW s \in Bytes, NEW t \in Bytes, Len(s) = Len(t), \A p \in 1 .. Len(s) : s[p] = t[p]
  PROVE  s = t
BY SeqEqual DEF Bytes

LEMMA EndingOfEnding ==
  ASSUME NEW t \in Bytes, NEW i \in 1 .. Len(t) + 1, NEW j \in 1 .. Len(t) + 2 - i
  PROVE  Ending(Ending(t, i), j) = Ending(t, i + j - 1)
<1> DEFINE e == Ending(t, i)
           k == i + j - 1
<1>1. /\ Len(t) \in Nat /\ e \in Bytes /\ Len(e) = Len(t) + 1 - i
      /\ \A p \in 1 .. Len(t) + 1 - i : e[p] = t[i + p - 1]
  BY EndingIs DEF Bytes
<1>2. k \in 1 .. Len(t) + 1
  BY <1>1
<1> HIDE DEF e
<1>3. /\ Ending(e, j) \in Bytes /\ Len(Ending(e, j)) = Len(e) + 1 - j
      /\ \A p \in 1 .. Len(e) + 1 - j : Ending(e, j)[p] = e[j + p - 1]
  <2>1. j \in 1 .. Len(e) + 1
    BY <1>1
  <2> QED BY <1>1, <2>1, EndingIs
<1>4. /\ Ending(t, k) \in Bytes /\ Len(Ending(t, k)) = Len(t) + 1 - k
      /\ \A p \in 1 .. Len(t) + 1 - k : Ending(t, k)[p] = t[k + p - 1]
  BY <1>2, EndingIs
<1>5. Len(Ending(e, j)) = Len(Ending(t, k))
  BY <1>1, <1>3, <1>4
<1>6. \A p \in 1 .. Len(Ending(e, j)) : Ending(e, j)[p] = Ending(t, k)[p]
  <2> SUFFICES ASSUME NEW p \in 1 .. Len(Ending(e, j)) PROVE Ending(e, j)[p] = Ending(t, k)[p]
    OBVIOUS
  <2>1. p \in 1 .. Len(e) + 1 - j /\ j + p - 1 \in 1 .. Len(t) + 1 - i /\ p \in 1 .. Len(t) + 1 - k
    BY <1>1, <1>3
  <2>2. i + (j + p - 1) - 1 = k + p - 1
    BY <1>1, <2>1
  <2> HIDE DEF k
  <2> QED BY <1>1, <1>3, <1>4, <2>1, <2>2
<1> HIDE DEF k
<1>7. Ending(e, j) = Ending(t, k)
  BY <1>3, <1>4, <1>5, <1>6, SameBytes
<1> QED BY <1>7 DEF e, k

LEMMA AppendIs ==
  ASSUME NEW e \in Bytes, NEW byte \in Int
  PROVE  /\ Append(e, byte) \in Bytes /\ Len(Append(e, byte)) = Len(e) + 1
         /\ \A p \in 1 .. Len(e) : Append(e, byte)[p] = e[p]
         /\ Append(e, byte)[Len(e) + 1] = byte
BY AppendProperties DEF Bytes

LEMMA EndingAppended ==
  ASSUME NEW s \in Bytes, NEW byte \in Int, NEW i \in 1 .. Len(s) + 1
  PROVE  /\ Append(s, byte) \in Bytes /\ Len(Append(s, byte)) = Len(s) + 1
         /\ Ending(Append(s, byte), i) = Append(Ending(s, i), byte)
<1> DEFINE t == Append(s, byte)
           e == Ending(s, i)
           a == Append(e, byte)
<1>1. /\ t \in Bytes /\ Len(t) = Len(s) + 1 /\ Len(s) \in Nat
      /\ \A p \in 1 .. Len(s) : t[p] = s[p]
      /\ t[Len(s) + 1] = byte
  BY DEF Bytes
<1>2. /\ e \in Bytes /\ Len(e) = Len(s) + 1 - i
      /\ \A p \in 1 .. Len(s) + 1 - i : e[p] = s[i + p - 1]
  BY EndingIs
<1> HIDE DEF e, t
<1>3. /\ a \in Bytes /\ Len(a) = Len(e) + 1
      /\ \A p \in 1 .. Len(e) : a[p] = e[p]
      /\ a[Len(e) + 1] = byte
  BY <1>2, AppendIs
<1> HIDE DEF a
<1>4. /\ Ending(t, i) \in Bytes /\ Len(Ending(t, i)) = Len(t) + 1 - i
      /\ \A p \in 1 .. Len(t) + 1 - i : Ending(t, i)[p] = t[i + p - 1]
  <2>1. i \in 1 .. Len(t) + 1
    BY <1>1
  <2> QED BY <1>1, <2>1, EndingIs
<1>5. Len(Ending(t, i)) = Len(a)
  BY <1>1, <1>2, <1>3, <1>4
<1>6. \A p \in 1 .. Len(a) : Ending(t, i)[p] = a[p]
  <2> SUFFICES ASSUME NEW p \in 1 .. Len(a) PROVE Ending(t, i)[p] = a[p]
    OBVIOUS
  <2>1. p \in 1 .. Len(t) + 1 - i
    BY <1>1, <1>2, <1>3
  <2>2. CASE p = Len(e) + 1
    <3>1. i + p - 1 = Len(s) + 1
      BY <1>1, <1>2, <2>2
    <3>2. Ending(t, i)[p] = t[i + p - 1]
      BY <1>4, <2>1
    <3>3. a[p] = byte
      BY <1>3, <2>2
    <3> QED BY <1>1, <3>1, <3>2, <3>3
  <2>3. CASE p # Len(e) + 1
    <3> DEFINE l == Len(e)
               k == Len(s)
    <3>1. p \in 1 .. l + 1 /\ p # l + 1 /\ l = k + 1 - i /\ k \in Nat
      BY <1>1, <1>2, <1>3, <2>3
    <3> HIDE DEF l, k
    <3>2. p \in 1 .. l /\ p \in 1 .. k + 1 - i /\ i + p - 1 \in 1 .. k
      <4>1. i \in Nat \ {0} /\ p \in Nat \ {0}
        BY <3>1 DEF k
      <4> QED BY <3>1, <4>1
    <3> QED BY <1>1, <1>2, <1>3, <1>4, <2>1, <3>2 DEF l, k
  <2> QED BY <2>2, <2>3
<1>7. Ending(t, i) = a
  BY <1>3, <1>4, <1>5, <1>6, SameBytes
<1> QED BY <1>1, <1>7 DEF t, e, a

-----------------------------------------------------------------------------
(* Frames *)

(* What may still become a frame. *)
Open(b) ==
  /\ b # << >> /\ b[1] = HDR
  /\ Len(b) >= 2 => Known(b[2]) /\ Len(b) < FrameLens[b[2]]

LEMMA FrameLensAre == \A cmd : Known(cmd) => FrameLens[cmd] \in {3, 4} /\ cmd # HDR
BY DEF Known, FrameLens, HDR

LEMMA ValidIs ==
  ASSUME NEW b \in Bytes, Valid(b)
  PROVE  /\ b # << >> /\ b[1] = HDR /\ Len(b) \in {3, 4} /\ Known(b[2]) /\ b[2] # HDR
         /\ Len(b) = FrameLens[b[2]] /\ ~Misframed(b) /\ ~Open(b)
<1>1. b[1] = HDR /\ Len(b) >= 3 /\ Known(b[2]) /\ Len(b) = FrameLens[b[2]]
  BY DEF Valid
<1>2. FrameLens[b[2]] \in {3, 4} /\ b[2] # HDR
  BY <1>1, FrameLensAre
<1>3. ~Misframed(b)
  BY <1>1 DEF Misframed
<1>4. ~Open(b)
  BY <1>1, <1>2 DEF Open
<1>5. b # << >>
  BY <1>1, <1>2
<1> QED BY <1>1, <1>2, <1>3, <1>4, <1>5

LEMMA OpenIs ==
  ASSUME NEW b \in Bytes, Open(b)
  PROVE  Len(b) \in 1 .. 3 /\ b[1] = HDR /\ ~Misframed(b) /\ ~Valid(b)
<1>1. Len(b) \in Nat /\ Len(b) # 0
  BY DEF Open, Bytes
<1>2. Len(b) \in 1 .. 3
  <2> DEFINE l == Len(b)
             x == FrameLens[b[2]]
  <2>1. l >= 2 => x \in {3, 4} /\ l < x
    BY FrameLensAre DEF Open
  <2>2. l \in Nat /\ l # 0
    BY <1>1
  <2> HIDE DEF l, x
  <2>3. l \in 1 .. 3
    BY <2>1, <2>2
  <2> QED BY <2>3 DEF l
<1>3. ~Misframed(b)
  BY <1>1, FrameLensAre DEF Open, Misframed
<1>4. ~Valid(b)
  BY ValidIs
<1> QED BY <1>2, <1>3, <1>4 DEF Open

(* A header that is not misframed may become a frame or is one. *)
LEMMA FramedIs ==
  ASSUME NEW b \in Bytes, b # << >>, b[1] = HDR, ~Misframed(b),
         Len(b) <= 3 \/ (Known(b[2]) /\ Len(b) <= FrameLens[b[2]])
  PROVE  Open(b) \/ Valid(b)
<1>1. Len(b) \in Nat /\ Len(b) # 0
  BY DEF Bytes
<1>2. CASE Len(b) = 1
  BY <1>1, <1>2 DEF Open
<1>3. CASE Len(b) # 1
  <2>1. Len(b) >= 2
    <3> DEFINE l == Len(b)
    <3>1. l \in Nat /\ l # 0 /\ l # 1
      BY <1>1, <1>3
    <3> HIDE DEF l
    <3>2. l >= 2
      BY <3>1
    <3> QED BY <3>2 DEF l
  <2>2. Known(b[2]) /\ (Len(b) = FrameLens[b[2]] => Valid(b))
    BY <2>1 DEF Misframed
  <2>3. FrameLens[b[2]] \in {3, 4}
    BY <2>2, FrameLensAre
  <2> QED BY <1>1, <2>1, <2>2, <2>3 DEF Open
<1> QED BY <1>2, <1>3

(* A byte opens or completes only what was open before it. *)
LEMMA OpenBefore ==
  ASSUME NEW b \in Bytes, b # << >>, NEW byte \in Int,
         Open(Append(b, byte)) \/ Valid(Append(b, byte))
  PROVE  Open(b)
<1> DEFINE a == Append(b, byte)
<1>1. /\ Len(b) \in Nat /\ Len(b) # 0 /\ a \in Bytes /\ Len(a) = Len(b) + 1
      /\ a[1] = b[1] /\ (Len(b) >= 2 => a[2] = b[2])
  BY DEF Bytes
<1> HIDE DEF a
<1>2. a[1] = HDR /\ Len(a) >= 2 /\ Known(a[2]) /\ Len(a) <= FrameLens[a[2]]
  <2>1. CASE Open(a)
    <3>1. Len(a) >= 2
      BY <1>1
    <3>2. FrameLens[a[2]] \in {3, 4}
      BY <2>1, <3>1, FrameLensAre DEF Open
    <3> QED BY <1>1, <2>1, <3>1, <3>2 DEF Open
  <2>2. CASE Valid(a)
    BY <1>1, <2>2, ValidIs
  <2> QED BY <2>1, <2>2 DEF a
<1>3. FrameLens[a[2]] \in {3, 4}
  BY <1>2, FrameLensAre
<1> QED BY <1>1, <1>2, <1>3 DEF Open

-----------------------------------------------------------------------------
(* The scan *)

(* From j on is a header that rcam_scan comes to: those before it frame nothing. *)
Reached(c, j) ==
  /\ j \in 1 .. Len(c) + 1
  /\ j <= Len(c) => c[j] = HDR
  /\ \A i \in 1 .. j - 1 : c[i] = HDR => Misframed(Ending(c, i))

LEMMA LeastIs ==
  ASSUME NEW n \in Nat, n <= 4, NEW S, S \subseteq 2 .. n, S # {}
  PROVE  Min(S) \in S /\ \A i \in S : Min(S) <= i
<1>1. \E m \in S : \A i \in S : m <= i
  <2>1. CASE 2 \in S
    BY <2>1
  <2>2. CASE 2 \notin S /\ 3 \in S
    BY <2>2
  <2>3. CASE 2 \notin S /\ 3 \notin S
    <3>1. \A i \in S : i = 4
      BY <2>3
    <3>2. PICK m \in S : TRUE
      OBVIOUS
    <3>3. m = 4 /\ \A i \in S : m <= i
      BY <3>1
    <3> QED BY <3>3
  <2> QED BY <2>1, <2>2, <2>3
<1> QED BY <1>1 DEF Min

LEMMA ResyncIs ==
  ASSUME NEW b \in Bytes, Len(b) \in 1 .. 4
  PROVE  \E m \in 2 .. Len(b) + 1 :
           /\ rcam_resync(b) = Ending(b, m)
           /\ m <= Len(b) => b[m] = HDR
           /\ \A i \in 2 .. m - 1 : b[i] # HDR
<1> DEFINE H == {i \in 2 .. Len(b) : b[i] = HDR}
           n == Len(b) + 1
<1>1. CASE H = {}
  <2>1. rcam_resync(b) = << >>
    BY <1>1 DEF rcam_resync
  <2>2. n \in 2 .. Len(b) + 1 /\ n \in 1 .. Len(b) + 1 /\ n - 1 = Len(b)
    OBVIOUS
  <2>3. Ending(b, n) = << >>
    <3> HIDE DEF n
    <3> QED BY <2>2, EndingIs DEF n
  <2>4. \A i \in 2 .. Len(b) : b[i] # HDR
    BY <1>1
  <2>5. ~(n <= Len(b))
    OBVIOUS
  <2> HIDE DEF n
  <2> QED BY <2>1, <2>2, <2>3, <2>4, <2>5
<1>2. CASE H # {}
  <2> DEFINE m == Min(H)
  <2>1. m \in H /\ \A i \in H : m <= i
    <3>1. H \subseteq 2 .. Len(b)
      OBVIOUS
    <3> HIDE DEF H
    <3> DEFINE l == Len(b)
    <3>2. l \in 1 .. 4 /\ H \subseteq 2 .. l
      BY <3>1
    <3> HIDE DEF l
    <3>3. l \in Nat /\ l <= 4
      BY <3>2
    <3> QED BY <1>2, <3>2, <3>3, LeastIs
  <2>2. rcam_resync(b) = Ending(b, m)
    BY <1>2 DEF rcam_resync, Ending
  <2> HIDE DEF m
  <2>3. m \in 2 .. Len(b) + 1 /\ b[m] = HDR
    BY <2>1
  <2>4. \A i \in 2 .. m - 1 : b[i] # HDR
    <3> SUFFICES ASSUME NEW i \in 2 .. m - 1, b[i] = HDR PROVE FALSE
      OBVIOUS
    <3>1. i \in H
      BY <2>1
    <3> QED BY <2>1, <3>1
  <2> QED BY <2>2, <2>3, <2>4
<1> QED BY <1>1, <1>2

(* One round of rcam_scan is done, or goes to the next header. *)
LEMMA ResyncedIs ==
  ASSUME NEW c \in Bytes, Len(c) \in 1 .. 4, NEW j, Reached(c, j)
  PROVE  \E k : /\ Reached(c, k) /\ Resynced(Ending(c, j)) = Ending(c, k)
                /\ k # j => k > j
                /\ k = j => ~Misframed(Ending(c, j))
<1> DEFINE b == Ending(c, j)
<1>1. j \in 1 .. Len(c) + 1
  BY DEF Reached
<1>2. /\ b \in Bytes /\ Len(b) = Len(c) + 1 - j
      /\ \A p \in 1 .. Len(c) + 1 - j : b[p] = c[j + p - 1]
  BY <1>1, EndingIs
<1> HIDE DEF b
<1>3. CASE ~Misframed(b)
  <2>1. Resynced(b) = b
    BY <1>3 DEF Resynced
  <2> QED BY <1>3, <2>1 DEF b
<1>4. CASE Misframed(b)
  <2>1. Len(b) \in 2 .. 4
    <3> DEFINE l == Len(b)
               k == Len(c)
    <3>1. l >= 2 /\ l = k + 1 - j /\ k \in 1 .. 4 /\ j \in 1 .. k + 1
      BY <1>1, <1>2, <1>4 DEF Misframed
    <3> HIDE DEF l, k
    <3>2. l \in 2 .. 4
      BY <3>1
    <3> QED BY <3>2 DEF l
  <2>2. Len(b) \in 1 .. 4
    BY <2>1
  <2>3. PICK m \in 2 .. Len(b) + 1 :
               /\ rcam_resync(b) = Ending(b, m)
               /\ m <= Len(b) => b[m] = HDR
               /\ \A i \in 2 .. m - 1 : b[i] # HDR
    BY <1>2, <2>2, ResyncIs
  <2> DEFINE k == j + m - 1
  <2>4. k \in 1 .. Len(c) + 1 /\ k > j /\ m \in 1 .. Len(c) + 2 - j
    BY <1>1, <1>2, <2>1
  <2>5. Resynced(b) = Ending(c, k)
    <3>1. Ending(Ending(c, j), m) = Ending(c, j + m - 1)
      BY <1>1, <2>4, EndingOfEnding
    <3>2. Resynced(b) = rcam_resync(b)
      BY <1>4 DEF Resynced
    <3> QED BY Zenon, <2>3, <3>1, <3>2 DEF b
  <2>6. k <= Len(c) => c[k] = HDR
    <3> SUFFICES ASSUME k <= Len(c) PROVE c[k] = HDR
      OBVIOUS
    <3>1. m \in 1 .. Len(c) + 1 - j /\ m <= Len(b)
      BY <1>1, <1>2
    <3>2. b[m] = c[j + m - 1]
      BY <1>2, <3>1
    <3>3. b[m] = HDR
      BY <2>3, <3>1
    <3> QED BY <3>2, <3>3
  <2>7. ASSUME NEW i \in 1 .. k - 1, c[i] = HDR PROVE Misframed(Ending(c, i))
    <3>1. CASE i < j
      BY <2>7, <3>1 DEF Reached
    <3>2. CASE i = j
      BY <1>4, <3>2 DEF b
    <3>3. CASE i > j
      <4> DEFINE p == i - j + 1
      <4>1. p \in 2 .. m - 1 /\ p \in 1 .. Len(c) + 1 - j /\ j + p - 1 = i
        BY <1>1, <1>2, <2>1, <3>3
      <4> HIDE DEF p
      <4>2. b[p] = c[i]
        BY <1>2, <4>1
      <4>3. b[p] # HDR
        BY <2>3, <4>1
      <4> QED BY <2>7, <4>2, <4>3
    <3> QED BY <1>1, <3>1, <3>2, <3>3
  <2> HIDE DEF k
  <2>8. Reached(c, k)
    BY <2>4, <2>6, <2>7 DEF Reached
  <2> QED BY <2>4, <2>5, <2>8 DEF b
<1> QED BY <1>3, <1>4

(* Four rounds are enough for four bytes. *)
LEMMA ScanIs ==
  ASSUME NEW c \in Bytes, Len(c) \in 1 .. 4, c[1] = HDR
  PROVE  \E k : Reached(c, k) /\ rcam_scan(c) = Ending(c, k) /\ ~Misframed(Ending(c, k))
<1> DEFINE R(b) == Resynced(b)
           one == 1
<1>1. Reached(c, one) /\ Ending(c, one) = c
  <2>1. one \in 1 .. Len(c) + 1
    OBVIOUS
  <2>2. Ending(c, one) = c
    <3>1. Ending(c, one) = SubSeq(c, 1, Len(c))
      BY DEF Ending
    <3> QED BY <3>1 DEF Bytes
  <2> QED BY <2>1, <2>2 DEF Reached
<1>2. rcam_scan(c) = R(R(R(R(Ending(c, one)))))
  BY <1>1 DEF rcam_scan
<1> HIDE DEF one
<1>3. PICK a : /\ Reached(c, a) /\ R(Ending(c, one)) = Ending(c, a)
               /\ a # one => a > one
               /\ a = one => ~Misframed(Ending(c, one))
  BY <1>1, ResyncedIs
<1>4. PICK b : /\ Reached(c, b) /\ R(Ending(c, a)) = Ending(c, b)
               /\ b # a => b > a
               /\ b = a => ~Misframed(Ending(c, a))
  BY <1>3, ResyncedIs
<1>5. PICK d : /\ Reached(c, d) /\ R(Ending(c, b)) = Ending(c, d)
               /\ d # b => d > b
               /\ d = b => ~Misframed(Ending(c, b))
  BY <1>4, ResyncedIs
<1>6. PICK e : /\ Reached(c, e) /\ R(Ending(c, d)) = Ending(c, e)
               /\ e # d => e > d
               /\ e = d => ~Misframed(Ending(c, d))
  BY <1>5, ResyncedIs
<1>7. rcam_scan(c) = Ending(c, e)
  BY <1>2, <1>3, <1>4, <1>5, <1>6
<1>8. ~Misframed(Ending(c, e))
  <2>1. CASE e = d
    BY <1>6, <2>1
  <2>2. CASE e # d /\ d = b
    <3>1. Ending(c, d) = Ending(c, e)
      BY <1>5, <1>6, <2>2 DEF Resynced
    <3> QED BY <1>5, <2>2, <3>1
  <2>3. CASE e # d /\ d # b /\ b = a
    <3>1. Ending(c, d) = Ending(c, b)
      BY <1>4, <1>5, <2>3 DEF Resynced
    <3>2. ~Misframed(Ending(c, d))
      BY <1>4, <2>3, <3>1
    <3> QED BY <1>6, <3>2 DEF Resynced
  <2>4. CASE e # d /\ d # b /\ b # a /\ a = one
    <3>1. Ending(c, a) = Ending(c, b)
      BY <1>3, <1>4, <2>4 DEF Resynced
    <3>2. ~Misframed(Ending(c, b))
      BY <1>3, <2>4, <3>1
    <3>3. Ending(c, b) = Ending(c, d)
      BY <1>5, <3>2 DEF Resynced
    <3> QED BY <1>6, <3>2, <3>3 DEF Resynced
  <2>5. CASE e # d /\ d # b /\ b # a /\ a # one
    <3>1. /\ a \in 1 .. Len(c) + 1 /\ b \in 1 .. Len(c) + 1 /\ d \in 1 .. Len(c) + 1
          /\ e \in 1 .. Len(c) + 1
      BY <1>3, <1>4, <1>5, <1>6 DEF Reached
    <3>2. e = Len(c) + 1
      <4> DEFINE l == Len(c)
      <4>1. /\ l \in 1 .. 4 /\ a > 1 /\ b > a /\ d > b /\ e > d
            /\ a \in 1 .. l + 1 /\ b \in 1 .. l + 1 /\ d \in 1 .. l + 1 /\ e \in 1 .. l + 1
        BY <1>3, <1>4, <1>5, <1>6, <2>5, <3>1 DEF one
      <4> HIDE DEF l
      <4>2. e = l + 1
        BY <4>1
      <4> QED BY <4>2 DEF l
    <3>3. Ending(c, e) \in Bytes /\ Len(Ending(c, e)) = 0
      BY <3>1, <3>2, EndingIs
    <3> QED BY <3>3 DEF Misframed
  <2> QED BY <1>3, <1>4, <1>5, <1>6, <2>1, <2>2, <2>3, <2>4, <2>5
<1> QED BY <1>6, <1>7, <1>8

-----------------------------------------------------------------------------
(* The invariant *)

(* The buffer is the longest ending of what was heard that may become a     *)
(* frame.                                                                   *)
LongestOpen(h, f) ==
  \E j \in 1 .. Len(h) + 1 :
    /\ f = Ending(h, j)
    /\ f # << >> => Open(f)
    /\ \A i \in 1 .. j - 1 : ~Open(Ending(h, i))

FramerInv ==
  /\ framer \in Seq(Wire) /\ line.heard \in Seq(Wire) /\ Len(line.heard) <= 4
  /\ fc \in BOOLEAN
  /\ line.told = NoFrame => LongestOpen(line.heard, framer)
  /\ line.told # NoFrame => framer = << >>
  /\ FramesAsSent

(* What rcam_feed makes of the byte that follows s. *)
LEMMA FedIs ==
  ASSUME NEW s \in Bytes, LongestOpen(s, framer), NEW byte \in Int
  PROVE  LET t == Append(s, byte)
         IN  \E m \in 1 .. Len(t) + 1 :
               /\ Fed(byte) = Ending(t, m)
               /\ m <= Len(t) => Open(Ending(t, m)) \/ Valid(Ending(t, m))
               /\ \A i \in 1 .. m - 1 : ~Open(Ending(t, i)) /\ ~Valid(Ending(t, i))
<1> DEFINE t == Append(s, byte)
           n == Len(s)
           after == n + 1
           rest == n + 2
<1>1. PICK j \in 1 .. n + 1 : /\ framer = Ending(s, j)
                              /\ framer # << >> => Open(framer)
                              /\ \A i \in 1 .. j - 1 : ~Open(Ending(s, i))
  BY DEF LongestOpen
<1>2. n \in Nat /\ t \in Bytes /\ Len(t) = n + 1 /\ t[n + 1] = byte
  BY DEF Bytes
<1>3. \A i \in 1 .. n + 1 : Ending(t, i) = Append(Ending(s, i), byte)
  BY EndingAppended
<1>4. \A i \in 1 .. j - 1 : ~Open(Ending(t, i)) /\ ~Valid(Ending(t, i))
  <2> SUFFICES ASSUME NEW i \in 1 .. j - 1, Open(Ending(t, i)) \/ Valid(Ending(t, i))
               PROVE  FALSE
    OBVIOUS
  <2>1. i \in 1 .. n + 1 /\ i # n + 1
    BY <1>2
  <2>2. Ending(s, i) \in Bytes /\ Ending(s, i) # << >>
    BY <2>1, EndingIs
  <2>3. Ending(t, i) = Append(Ending(s, i), byte)
    BY <1>3, <2>1
  <2>4. Open(Ending(s, i))
    BY <2>2, <2>3, OpenBefore
  <2> QED BY <1>1, <2>4
<1> HIDE DEF t
<1>5. after \in 1 .. Len(t) + 1 /\ rest \in 1 .. Len(t) + 1 /\ after <= Len(t) /\ rest > Len(t)
  BY <1>2
<1>6. /\ Ending(t, after) \in Bytes /\ Len(Ending(t, after)) = 1 /\ Ending(t, after)[1] = byte
      /\ Ending(t, rest) = << >>
  <2>1. /\ Ending(t, after) \in Bytes /\ Len(Ending(t, after)) = Len(t) + 1 - after
        /\ \A p \in 1 .. Len(t) + 1 - after : Ending(t, after)[p] = t[after + p - 1]
    BY <1>2, <1>5, EndingIs
  <2>2. Ending(t, rest) = << >>
    <3>1. rest = Len(t) + 1
      BY <1>2
    <3> QED BY <1>2, <1>5, <3>1, EndingIs
  <2>3. Len(t) + 1 - after = 1 /\ after + 1 - 1 = n + 1 /\ 1 \in 1 .. 1
    BY <1>2
  <2> QED BY <1>2, <2>1, <2>2, <2>3
<1>7. CASE framer = << >>
  <2>1. j = after
    BY <1>1, <1>7, EndingIs
  <2>2. CASE byte = HDR
    <3>1. Fed(byte) = Ending(t, after)
      <4>1. Fed(byte) = <<HDR>>
        BY <1>7, <2>2 DEF Fed
      <4>2. Ending(t, after) = <<HDR>>
        BY <1>6, <2>2 DEF Bytes
      <4> QED BY <4>1, <4>2
    <3>2. Open(Ending(t, after))
      BY <1>6, <2>2 DEF Open
    <3> HIDE DEF after
    <3> QED BY <1>4, <1>5, <2>1, <3>1, <3>2 DEF t
  <2>3. CASE byte # HDR
    <3>1. Fed(byte) = Ending(t, rest)
      BY <1>6, <1>7, <2>3 DEF Fed
    <3>2. ~Open(Ending(t, after)) /\ ~Valid(Ending(t, after))
      BY <1>6, <2>3, ValidIs DEF Open
    <3>3. \A i \in 1 .. rest - 1 : i \in 1 .. j - 1 \/ i = after
      BY <1>2, <2>1
    <3> HIDE DEF after, rest
    <3>4. \A i \in 1 .. rest - 1 : ~Open(Ending(t, i)) /\ ~Valid(Ending(t, i))
      BY <1>4, <3>2, <3>3
    <3>5. ~(rest <= Len(t))
      BY <1>5
    <3> QED BY <1>5, <3>1, <3>4, <3>5 DEF t
  <2> QED BY <2>2, <2>3
<1>8. CASE framer # << >>
  <2> DEFINE c == Append(framer, byte)
  <2>1. Open(framer) /\ framer \in Bytes /\ Len(framer) = n + 1 - j
    BY <1>1, <1>8, EndingIs
  <2>2. /\ c \in Bytes /\ Len(c) = Len(framer) + 1 /\ c[1] = HDR /\ Len(c) \in 2 .. 4
        /\ c[2] = IF Len(framer) >= 2 THEN framer[2] ELSE byte
    <3> DEFINE l == Len(framer)
    <3>1. l \in 1 .. 3 /\ framer[1] = HDR
      BY <2>1, OpenIs
    <3>2. /\ c \in Bytes /\ Len(c) = l + 1
          /\ \A p \in 1 .. l : c[p] = framer[p]
          /\ c[l + 1] = byte
      <4>1. framer \in Seq(Int) /\ c \in Seq(Int)
        BY <2>1 DEF Bytes
      <4> QED BY <4>1 DEF Bytes
    <3> HIDE DEF l
    <3>4. c[1] = framer[1] /\ c[2] = IF l >= 2 THEN framer[2] ELSE byte
      <4>1. 1 \in 1 .. l /\ (l >= 2 => 2 \in 1 .. l) /\ (~(l >= 2) => l + 1 = 2)
        BY <3>1
      <4> QED BY <3>2, <4>1
    <3>3. l + 1 \in 2 .. 4
      BY <3>1
    <3> QED BY <3>1, <3>2, <3>3, <3>4 DEF l
  <2>3. c = Ending(t, j)
    BY <1>1, <1>3
  <2>4. Fed(byte) = rcam_scan(c)
    BY <1>8 DEF Fed
  <2> HIDE DEF c
  <2>5. Len(c) \in 1 .. 4
    BY <2>2
  <2>6. PICK k : Reached(c, k) /\ rcam_scan(c) = Ending(c, k) /\ ~Misframed(Ending(c, k))
    BY <2>2, <2>5, ScanIs
  <2> DEFINE m == j + k - 1
             e == Ending(t, m)
  <2>7. k \in 1 .. Len(c) + 1 /\ Len(c) = Len(t) + 1 - j /\ j \in 1 .. Len(t) + 1
    BY <1>2, <2>1, <2>2, <2>6 DEF Reached
  <2>8. m \in 1 .. Len(t) + 1 /\ k \in 1 .. Len(t) + 2 - j
    BY <1>2, <2>7
  <2>9. Ending(c, k) = e
    BY <1>2, <2>3, <2>7, <2>8, EndingOfEnding
  <2>10. \A p \in 1 .. Len(c) : Ending(t, j + p - 1) = Ending(c, p)
                               /\ Ending(c, p) \in Bytes /\ Ending(c, p)[1] = c[p]
    <3> SUFFICES ASSUME NEW p \in 1 .. Len(c)
                 PROVE  Ending(t, j + p - 1) = Ending(c, p)
                        /\ Ending(c, p) \in Bytes /\ Ending(c, p)[1] = c[p]
      OBVIOUS
    <3>1. p \in 1 .. Len(t) + 2 - j /\ p \in 1 .. Len(c) + 1 /\ 1 \in 1 .. Len(c) + 1 - p
          /\ p + 1 - 1 = p
      BY <1>2, <2>5, <2>7
    <3>2. Ending(t, j + p - 1) = Ending(c, p)
      BY <1>2, <2>3, <2>7, <3>1, EndingOfEnding
    <3>3. Ending(c, p) \in Bytes /\ Ending(c, p)[1] = c[p + 1 - 1]
      BY <2>2, <3>1, EndingIs
    <3> QED BY <3>1, <3>2, <3>3
  <2>11. ASSUME m <= Len(t) PROVE Open(e) \/ Valid(e)
    <3>1. k \in 1 .. Len(c)
      BY <1>2, <2>7, <2>11
    <3>2. e \in Bytes /\ e[1] = HDR /\ ~Misframed(e)
      <4>1. c[k] = HDR
        BY <2>6, <3>1 DEF Reached
      <4>2. Ending(c, k) \in Bytes /\ Ending(c, k)[1] = c[k]
        BY <2>10, <3>1
      <4> HIDE DEF e
      <4> QED BY <2>6, <2>9, <4>1, <4>2
    <3>3. e # << >> /\ Len(e) = Len(c) + 1 - k
      <4>1. /\ k \in 1 .. Len(c) + 1
            /\ Len(Ending(c, k)) = Len(c) + 1 - k
            /\ Ending(c, k) = << >> <=> k = Len(c) + 1
        BY <2>2, <2>7, EndingIs
      <4>2. k # Len(c) + 1
        BY <1>2, <2>7, <2>11
      <4> HIDE DEF e
      <4> QED BY <2>9, <4>1, <4>2
    <3>4. CASE k = 1
      <4>1. e = c
        <5>1. Ending(c, 1) = c
          BY <2>2 DEF Ending, Bytes
        <5> QED BY <2>9, <3>4, <5>1
      <4>2. Len(c) <= 3 \/ (Known(c[2]) /\ Len(c) <= FrameLens[c[2]])
        <5> SUFFICES ASSUME Len(c) > 3 PROVE Known(c[2]) /\ Len(c) <= FrameLens[c[2]]
          BY <2>5
        <5>1. Len(framer) = 3
          BY <2>1, <2>2, OpenIs
        <5>2. Known(framer[2]) /\ Len(framer) < FrameLens[framer[2]]
          BY <2>1, <5>1 DEF Open
        <5>3. FrameLens[framer[2]] \in {3, 4}
          BY <5>2, FrameLensAre
        <5> QED BY <2>2, <5>1, <5>2, <5>3
      <4> QED BY <3>2, <3>3, <4>1, <4>2, FramedIs
    <3>5. CASE k # 1
      <4>1. Len(e) <= 3
        <5> DEFINE l == Len(c)
        <5>1. l \in 1 .. 4 /\ k \in 1 .. l /\ Len(e) = l + 1 - k
          BY <2>5, <3>1, <3>3
        <5> HIDE DEF l, e
        <5> QED BY <3>5, <5>1
      <4> QED BY <3>2, <3>3, <4>1, FramedIs
    <3> QED BY <3>4, <3>5
  <2>12. \A i \in 1 .. m - 1 : ~Open(Ending(t, i)) /\ ~Valid(Ending(t, i))
    <3> SUFFICES ASSUME NEW i \in 1 .. m - 1, Open(Ending(t, i)) \/ Valid(Ending(t, i))
                 PROVE  FALSE
      OBVIOUS
    <3>1. CASE i < j
      <4>1. i \in 1 .. j - 1
        BY <3>1
      <4> QED BY <1>4, <4>1
    <3>2. CASE ~(i < j)
      <4> DEFINE p == i - j + 1
      <4>1. p \in 1 .. k - 1 /\ p \in 1 .. Len(c) /\ j + p - 1 = i
        BY <1>2, <2>5, <2>7, <3>2
      <4> HIDE DEF p
      <4>2. Ending(t, i) = Ending(c, p) /\ Ending(c, p) \in Bytes /\ Ending(c, p)[1] = c[p]
        BY <2>10, <4>1
      <4>3. ~Misframed(Ending(c, p)) /\ c[p] = HDR
        BY <4>2, ValidIs, OpenIs
      <4> QED BY <2>6, <4>1, <4>3 DEF Reached
    <3> QED BY <3>1, <3>2
  <2> HIDE DEF m
  <2> QED BY <2>4, <2>6, <2>8, <2>9, <2>11, <2>12 DEF t
<1> QED BY <1>7, <1>8

(* What comes after a header in the buffer is no frame while the buffer is *)
(* one or may become one.                                                  *)
LEMMA NoneWithin ==
  ASSUME NEW t \in Bytes, NEW m \in 1 .. Len(t), Open(Ending(t, m)) \/ Valid(Ending(t, m)),
         NEW i \in m + 1 .. Len(t)
  PROVE  ~Valid(Ending(t, i))
<1> DEFINE n == Len(t)
           b == Ending(t, m)
           e == Ending(t, i)
<1>1. n \in Nat /\ m \in 1 .. n /\ i \in m + 1 .. n
  BY DEF Bytes
<1>2. /\ b \in Bytes /\ Len(b) = n + 1 - m
      /\ \A p \in 1 .. n + 1 - m : b[p] = t[m + p - 1]
  <2>1. m \in 1 .. n + 1
    BY <1>1
  <2> QED BY <2>1, EndingIs
<1>3. /\ e \in Bytes /\ Len(e) = n + 1 - i
      /\ \A p \in 1 .. n + 1 - i : e[p] = t[i + p - 1]
  <2>1. i \in 1 .. n + 1
    BY <1>1
  <2> QED BY <2>1, EndingIs
<1> HIDE DEF b, e
<1> SUFFICES ASSUME Valid(e) PROVE FALSE
  BY DEF e
<1>4. Len(e) \in {3, 4} /\ e[1] = HDR
  BY <1>3, ValidIs
<1>5. n + 1 - i >= 3
  BY <1>3, <1>4
<1> HIDE DEF n
<1>6. n + 1 - m >= 4
  BY <1>1, <1>5
<1>7. CASE Open(b)
  <2>1. Len(b) \in 1 .. 3
    BY <1>2, <1>7, OpenIs
  <2> QED BY <1>2, <1>6, <2>1
<1>8. CASE Valid(b)
  <2>1. Len(b) \in {3, 4} /\ b[2] # HDR
    BY <1>2, <1>8, ValidIs
  <2>2. n + 1 - m = 4
    BY <1>2, <1>6, <2>1
  <2>3. i = m + 1
    BY <1>1, <1>5, <2>2
  <2>4. b[2] = t[m + 2 - 1] /\ e[1] = t[i + 1 - 1]
    <3>1. 2 \in 1 .. n + 1 - m /\ 1 \in 1 .. n + 1 - i
      BY <1>1, <1>5, <1>6, <2>2
    <3>2. \A p \in 1 .. n + 1 - m : b[p] = t[m + p - 1]
      BY <1>2
    <3>3. \A p \in 1 .. n + 1 - i : e[p] = t[i + p - 1]
      BY <1>3
    <3> QED BY Zenon, <3>1, <3>2, <3>3
  <2>5. m + 2 - 1 = i + 1 - 1
    BY <1>1, <2>3
  <2> QED BY <1>4, <2>1, <2>4, <2>5
<1> QED BY <1>7, <1>8 DEF b

(* What is kept of the bytes heard are their last four.                     *)
LEMMA LastFourIs ==
  ASSUME NEW s \in Bytes, Len(s) <= 4, NEW byte \in Int
  PROVE  LET t == Append(s, byte)
         IN  \E o \in {0, 1} :
               /\ LastFour(t) = Ending(t, o + 1) /\ Len(LastFour(t)) = Len(t) - o
               /\ LastFour(t) \in Bytes /\ Len(LastFour(t)) \in 1 .. 4 /\ Len(t) \in 1 .. 5
               /\ o = 1 => Len(t) = 5
<1> DEFINE t == Append(s, byte)
           n == Len(t)
           h == LastFour(t)
           zero == 0
           one == 1
<1>1. t \in Bytes /\ n = Len(s) + 1 /\ Len(s) \in Nat
  BY DEF Bytes
<1> HIDE DEF t
<1>2. n \in 1 .. 5
  <2> DEFINE l == Len(s)
  <2>1. l \in Nat /\ l <= 4 /\ n = l + 1
    BY <1>1
  <2> HIDE DEF l, n
  <2> QED BY <2>1
<1>3. CASE n > 4
  <2>1. one + 1 \in 1 .. n + 1 /\ n = 5 /\ 5 = n
    <3> HIDE DEF n
    <3> QED BY <1>2, <1>3
  <2>2. h = Ending(t, one + 1)
    <3>1. h = Tail(t)
      BY <1>3 DEF LastFour
    <3>2. t \in Seq(Int) /\ t # << >>
      BY <1>1, <2>1 DEF Bytes
    <3>3. Tail(t) = SubSeq(t, 2, Len(t))
      BY <3>2, TailIsSubSeq
    <3> QED BY <3>1, <3>3 DEF Ending
  <2>3. h \in Bytes /\ Len(h) = n + 1 - (one + 1)
    <3> HIDE DEF one
    <3> QED BY <1>1, <2>2, <2>1, EndingIs
  <2>4. Len(h) = n - one /\ Len(h) \in 1 .. 4
    BY <2>1, <2>3
  <2> HIDE DEF h, n
  <2> QED BY <1>2, <2>2, <2>1, <2>3, <2>4 DEF t, n, h
<1>4. CASE ~(n > 4)
  <2>1. h = t
    BY <1>4 DEF LastFour
  <2>2. Ending(t, zero + 1) = t
    BY <1>1 DEF Ending, Bytes
  <2>3. Len(h) = n - zero /\ Len(h) \in 1 .. 4
    BY <1>2, <1>4, <2>1
  <2> HIDE DEF h, n
  <2> QED BY <1>1, <1>2, <2>1, <2>2, <2>3 DEF t, n, h
<1> QED BY <1>3, <1>4

-----------------------------------------------------------------------------
(* The steps *)

WholeFrame(h) == {bytes \in Endings(h) : Valid(bytes)}

LEMMA ByteKeeps ==
  ASSUME NEW s \in Bytes, Len(s) <= 4, LongestOpen(s, framer), NEW byte \in Int
  PROVE  LET buf == Fed(byte)
             h   == LastFour(Append(s, byte))
         IN  /\ Valid(buf) => WholeFrame(h) = {buf}
             /\ ~Valid(buf) => WholeFrame(h) = {} /\ LongestOpen(h, buf)
<1> DEFINE t == Append(s, byte)
           h == LastFour(t)
           buf == Fed(byte)
<1>1. t \in Bytes /\ Len(t) \in Nat
  BY DEF Bytes
<1>2. PICK m \in 1 .. Len(t) + 1 :
             /\ buf = Ending(t, m)
             /\ m <= Len(t) => Open(Ending(t, m)) \/ Valid(Ending(t, m))
             /\ \A i \in 1 .. m - 1 : ~Open(Ending(t, i)) /\ ~Valid(Ending(t, i))
  BY FedIs
<1>3. PICK o \in {0, 1} :
             /\ h = Ending(t, o + 1) /\ Len(h) = Len(t) - o
             /\ h \in Bytes /\ Len(h) \in 1 .. 4 /\ Len(t) \in 1 .. 5
             /\ o = 1 => Len(t) = 5
  BY LastFourIs
<1> DEFINE l == Len(h)
           n == Len(t)
<1> HIDE DEF t, h, buf
<1>4. l = n - o /\ l \in 1 .. 4 /\ n \in 1 .. 5 /\ m \in 1 .. n + 1 /\ (o = 1 => n = 5)
  BY <1>2, <1>3
<1>5. buf \in Bytes /\ Len(buf) = n + 1 - m
  BY <1>1, <1>2, EndingIs
<1> HIDE DEF l, n
<1>6. \A i \in 1 .. l : o + i \in 1 .. n /\ Ending(h, i) = Ending(t, o + i)
  <2> SUFFICES ASSUME NEW i \in 1 .. l
               PROVE  o + i \in 1 .. n /\ Ending(h, i) = Ending(t, o + i)
    OBVIOUS
  <2>1. o + i \in 1 .. n /\ o + 1 \in 1 .. n + 1 /\ i \in 1 .. n + 2 - (o + 1)
        /\ (o + 1) + i - 1 = o + i
    BY <1>4
  <2>2. Ending(Ending(t, o + 1), i) = Ending(t, (o + 1) + i - 1)
    BY <1>1, <2>1, EndingOfEnding DEF n
  <2> QED BY <1>3, <2>1, <2>2
<1>7. Endings(h) = {Ending(t, o + i) : i \in 1 .. l}
  <2>1. Endings(h) = {Ending(h, i) : i \in 1 .. l}
    BY DEF Endings, Ending, l
  <2>2. \A i \in 1 .. l : Ending(h, i) = Ending(t, o + i)
    BY <1>6
  <2> QED BY <2>1, <2>2
<1>8. \A q \in 1 .. n : Valid(Ending(t, q)) => q = m
  <2> SUFFICES ASSUME NEW q \in 1 .. n, Valid(Ending(t, q)), q # m PROVE FALSE
    OBVIOUS
  <2>1. CASE q < m
    <3>1. q \in 1 .. m - 1
      BY <1>4, <2>1
    <3> QED BY <1>2, <3>1
  <2>2. CASE ~(q < m)
    <3>1. m \in 1 .. n /\ q \in m + 1 .. n /\ m <= n
      BY <1>4, <2>2
    <3>2. Open(Ending(t, m)) \/ Valid(Ending(t, m))
      BY <1>2, <3>1 DEF n
    <3> QED BY <1>1, <3>1, <3>2, NoneWithin DEF n
  <2> QED BY <2>1, <2>2
<1>9. CASE Valid(buf)
  <2>1. Len(buf) \in {3, 4}
    BY <1>5, <1>9, ValidIs
  <2> DEFINE j == m - o
  <2>2. j \in 1 .. l /\ o + j = m
    BY <1>4, <1>5, <2>1
  <2> HIDE DEF j
  <2>3. buf \in Endings(h)
    BY <1>2, <1>7, <2>2
  <2>4. \A b \in Endings(h) : Valid(b) => b = buf
    <3> SUFFICES ASSUME NEW i \in 1 .. l, Valid(Ending(t, o + i)) PROVE Ending(t, o + i) = buf
      BY <1>7
    <3>1. o + i = m
      BY <1>6, <1>8
    <3> QED BY <1>2, <3>1
  <2>5. WholeFrame(h) = {buf}
    BY <1>9, <2>3, <2>4 DEF WholeFrame
  <2> QED BY <1>9, <2>5 DEF h, t, buf
<1>10. CASE ~Valid(buf)
  <2>1. WholeFrame(h) = {}
    <3> SUFFICES ASSUME NEW i \in 1 .. l, Valid(Ending(t, o + i)) PROVE FALSE
      BY <1>7 DEF WholeFrame
    <3>1. o + i = m
      BY <1>6, <1>8
    <3> QED BY <1>2, <1>10, <3>1
  <2> DEFINE j == m - o
  <2>2. m <= n => Open(buf)
    BY <1>2, <1>10 DEF n
  <2>3. j \in 1 .. l + 1 /\ o + j = m
    <3>1. CASE o = 0
      BY <1>4, <3>1
    <3>2. CASE o = 1
      <4>1. m # 1
        <5> SUFFICES ASSUME m = 1 PROVE FALSE
          OBVIOUS
        <5>1. Open(buf) /\ Len(buf) = 5
          BY <1>4, <1>5, <2>2, <3>2
        <5>2. Len(buf) \in 1 .. 3
          BY <1>5, <5>1, OpenIs
        <5> QED BY <5>1, <5>2
      <4> QED BY <1>4, <3>2, <4>1
    <3> QED BY <3>1, <3>2
  <2>4. buf = Ending(h, j)
    <3>1. CASE j \in 1 .. l
      <4>1. Ending(h, j) = Ending(t, o + j)
        <5> HIDE DEF j
        <5> QED BY <1>6, <3>1
      <4> QED BY <1>2, <2>3, <4>1
    <3>2. CASE j \notin 1 .. l
      <4>1. j = l + 1 /\ m = n + 1
        BY <1>4, <2>3, <3>2
      <4>2. buf = << >>
        BY <1>1, <1>2, <4>1, EndingIs DEF n
      <4>3. Ending(h, j) = << >>
        <5> HIDE DEF j
        <5> QED BY <1>3, <2>3, <4>1, EndingIs DEF l
      <4> QED BY <4>2, <4>3
    <3> QED BY <3>1, <3>2
  <2>5. buf # << >> => Open(buf)
    <3>1. CASE m <= n
      BY <2>2, <3>1
    <3>2. CASE ~(m <= n)
      <4>1. m = n + 1
        BY <1>4, <3>2
      <4> QED BY <1>1, <1>2, <4>1, EndingIs DEF n
    <3> QED BY <3>1, <3>2
  <2>6. \A i \in 1 .. j - 1 : ~Open(Ending(h, i))
    <3> SUFFICES ASSUME NEW i \in 1 .. j - 1 PROVE ~Open(Ending(h, i))
      OBVIOUS
    <3>1. i \in 1 .. l /\ o + i \in 1 .. m - 1
      BY <1>4, <2>3
    <3>2. Ending(h, i) = Ending(t, o + i)
      BY <1>6, <3>1
    <3> QED BY <1>2, <3>1, <3>2
  <2> HIDE DEF j
  <2>7. LongestOpen(h, buf)
    BY <2>3, <2>4, <2>5, <2>6 DEF LongestOpen, l
  <2> QED BY <1>10, <2>1, <2>7 DEF h, t, buf
<1> QED BY <1>9, <1>10

LEMMA WireBytes == \A b \in Seq(Wire) : b \in Bytes /\ Len(b) \in Nat
<1>1. Wire \subseteq Int
  BY RunCamConstants
<1>2. \A b \in Seq(Wire) : b \in Seq(Int)
  BY <1>1, SeqMonotonic
<1> QED BY <1>2 DEF Bytes

LEMMA NothingHeard == LongestOpen(<< >>, << >>) /\ WholeFrame(<< >>) = {} /\ << >> \in Seq(Wire)
<1> DEFINE e == << >>
           one == 1
<1>1. Len(e) = 0 /\ e \in Seq(Wire) /\ one \in 1 .. Len(e) + 1
  OBVIOUS
<1>2. Ending(e, one) = e
  BY DEF Ending
<1>3. LongestOpen(e, e)
  BY <1>1, <1>2 DEF LongestOpen
<1>4. WholeFrame(e) = {}
  BY <1>1 DEF WholeFrame, Endings
<1> QED BY <1>1, <1>3, <1>4

(* A byte's worth of the framer's types. *)
LEMMA FedTyped ==
  ASSUME NEW s \in Seq(Wire), LongestOpen(s, framer), NEW byte \in Wire, Len(s) <= 4
  PROVE  /\ Fed(byte) \in Seq(Wire)
         /\ LastFour(Append(s, byte)) \in Seq(Wire) /\ Len(LastFour(Append(s, byte))) <= 4
<1> DEFINE t == Append(s, byte)
<1>1. t \in Seq(Wire) /\ s \in Bytes /\ t \in Bytes /\ byte \in Int /\ Len(t) \in Nat
  <2>1. t \in Seq(Wire)
    OBVIOUS
  <2> HIDE DEF t
  <2> QED BY <2>1, WireBytes, RunCamConstants
<1>2. \A i \in 1 .. Len(t) + 1 : Ending(t, i) \in Seq(Wire)
  <2> HIDE DEF t
  <2> QED BY <1>1 DEF Ending
<1>3. \E m \in 1 .. Len(t) + 1 : Fed(byte) = Ending(t, m)
  BY <1>1, FedIs
<1>4. LastFour(t) \in Seq(Wire) /\ Len(LastFour(t)) <= 4
  <2>1. PICK o \in {0, 1} : LastFour(t) = Ending(t, o + 1) /\ Len(LastFour(t)) \in 1 .. 4
                            /\ Len(t) \in 1 .. 5
    BY <1>1, LastFourIs
  <2> DEFINE n == Len(t)
             h == LastFour(t)
             l == Len(h)
  <2>2. o + 1 \in 1 .. n + 1 /\ l <= 4
    <3>1. n \in 1 .. 5 /\ l \in 1 .. 4
      BY <2>1
    <3> HIDE DEF n, l
    <3> QED BY <3>1
  <2> HIDE DEF t
  <2>3. Ending(t, o + 1) \in Seq(Wire)
    BY <1>2, <2>2
  <2> QED BY <2>1, <2>2, <2>3
<1> QED BY <1>2, <1>3, <1>4

LEMMA FcByteKeeps == ASSUME FramerInv, NEW byte \in Wire, FcByte(byte) PROVE FramerInv'
<1> DEFINE s == IF line.told = NoFrame THEN line.heard ELSE << >>
           buf == Fed(byte)
           h == LastFour(Append(s, byte))
<1>1. s \in Seq(Wire) /\ Len(s) <= 4 /\ LongestOpen(s, framer)
  <2>1. CASE line.told = NoFrame
    BY <2>1 DEF FramerInv
  <2>2. CASE line.told # NoFrame
    <3>1. s = << >> /\ framer = << >>
      BY <2>2 DEF FramerInv
    <3>2. Len(s) <= 4
      BY <3>1
    <3> QED BY <3>1, <3>2, NothingHeard
  <2> QED BY <2>1, <2>2
<1>2. /\ framer' = IF Valid(buf) THEN << >> ELSE buf
      /\ line' = [heard |-> h, told |-> IF Valid(buf) THEN buf ELSE NoFrame]
      /\ fc' \in BOOLEAN
  BY DEF FcByte, RecorderToggle, FramerInv
<1> HIDE DEF s
<1>3. buf \in Seq(Wire) /\ h \in Seq(Wire) /\ Len(h) <= 4 /\ buf \in Bytes
  BY <1>1, FedTyped, WireBytes
<1>4. /\ Valid(buf) => WholeFrame(h) = {buf}
      /\ ~Valid(buf) => WholeFrame(h) = {} /\ LongestOpen(h, buf)
  BY <1>1, ByteKeeps, WireBytes, RunCamConstants
<1>5. Valid(buf) => buf # NoFrame
  BY <1>3, ValidIs DEF NoFrame
<1> HIDE DEF buf, h
<1>6. line'.heard = h /\ line'.told = IF Valid(buf) THEN buf ELSE NoFrame
  BY <1>2
<1>7. FramesAsSent'
  BY <1>4, <1>5, <1>6 DEF FramesAsSent, WholeFrame
<1>8. framer' \in Seq(Wire)
  BY <1>2, <1>3, NothingHeard
<1>9. (line'.told = NoFrame => LongestOpen(line'.heard, framer'))
      /\ (line'.told # NoFrame => framer' = << >>)
  BY <1>2, <1>4, <1>5, <1>6
<1> QED BY <1>2, <1>3, <1>6, <1>7, <1>8, <1>9 DEF FramerInv

LEMMA FreshFramer ==
  ASSUME framer' = << >>, line' = [heard |-> << >>, told |-> NoFrame], fc' \in BOOLEAN
  PROVE  FramerInv'
<1>1. line'.heard = << >> /\ line'.told = NoFrame /\ Len(line'.heard) <= 4
  OBVIOUS
<1>2. FramesAsSent'
  BY <1>1, NothingHeard DEF FramesAsSent, WholeFrame
<1> QED BY <1>1, <1>2, NothingHeard DEF FramerInv

LEMMA FramerStep == ASSUME FramerInv, [RunCamNext]_runCamVars PROVE FramerInv'
<1>1. CASE UNCHANGED runCamVars
  BY <1>1 DEF runCamVars, FramerInv, FramesAsSent
<1>2. CASE FcGap
  BY <1>2, FreshFramer DEF FcGap, FramerInv
<1>3. CASE RecorderTurns
  BY <1>3 DEF RecorderTurns, FramerInv, FramesAsSent
<1> QED BY <1>1, <1>2, <1>3, FcByteKeeps DEF RunCamNext

-----------------------------------------------------------------------------
(* Theorems *)

(***************************************************************************)
(* The framer's buffer is the longest ending of what was heard since the   *)
(* last frame or gap that may still become a frame: rcam_resync skips to   *)
(* the next header and never past one that could have been a frame's.      *)
(***************************************************************************)
THEOREM FramerInvariant == RunCamSpec => []FramerInv
<1>1. FramerInit => FramerInv
  <2> SUFFICES ASSUME FramerInit PROVE FramerInv
    OBVIOUS
  <2>1. framer = << >> /\ line.heard = << >> /\ line.told = NoFrame /\ fc \in BOOLEAN
    BY DEF FramerInit
  <2>2. Len(line.heard) <= 4
    BY <2>1
  <2>3. FramesAsSent
    BY <2>1, NothingHeard DEF FramesAsSent, WholeFrame
  <2> QED BY <2>1, <2>2, <2>3, NothingHeard DEF FramerInv
<1>2. FramerInv /\ [RunCamNext]_runCamVars => FramerInv'
  BY FramerStep
<1> QED BY <1>1, <1>2, PTL DEF RunCamSpec

(***************************************************************************)
(* The buffer of rcam_t holds at most three bytes between two of the line, *)
(* and begins with a header.                                               *)
(***************************************************************************)
THEOREM FramerTyped == RunCamSpec => []FramerTypeOK
<1>1. FramerInv => FramerTypeOK
  <2> SUFFICES ASSUME FramerInv PROVE FramerTypeOK
    OBVIOUS
  <2>1. framer \in Bytes
    BY WireBytes DEF FramerInv
  <2>2. CASE framer = << >>
    BY <2>2 DEF FramerInv, FramerTypeOK
  <2>3. CASE framer # << >>
    <3>1. Open(framer)
      BY <2>3 DEF FramerInv, LongestOpen
    <3>2. Len(framer) \in 1 .. 3 /\ framer[1] = HDR
      BY <2>1, <3>1, OpenIs
    <3>3. Head(framer) = framer[1]
      BY <2>3 DEF FramerInv
    <3>4. Len(framer) <= 3
      <4> DEFINE l == Len(framer)
      <4>1. l \in 1 .. 3
        BY <3>2
      <4> HIDE DEF l
      <4>2. l <= 3
        BY <4>1
      <4> QED BY <4>2 DEF l
    <3> QED BY <3>2, <3>3, <3>4 DEF FramerInv, FramerTypeOK
  <2> QED BY <2>2, <2>3
<1> QED BY <1>1, FramerInvariant, PTL

(***************************************************************************)
(* FramesAsSent: rcam_feed dispatches a frame with its last byte, whatever *)
(* the line lost, added or spoilt before the frame, and dispatches nothing *)
(* that was not sent as a frame with its checksum.                         *)
(***************************************************************************)
THEOREM FramesDispatched == RunCamSpec => []FramesAsSent
<1>1. FramerInv => FramesAsSent
  BY DEF FramerInv
<1> QED BY <1>1, FramerInvariant, PTL

-----------------------------------------------------------------------------
(* The log and the host *)

Fields == DOMAIN Off
Answers == {"for", "lines", "boots", "foreign"}

\* The sectors of the file are Sectors and no others.
Placed == file = [s \in Sectors |-> file[s]]

HostInv ==
  /\ DOMAIN dlog = Fields /\ DOMAIN answer = Answers
  /\ Placed
  /\ dlog.abandoned \in BOOLEAN
  /\ dlog.abandoned => dlog.state = "ready"
  /\ answer.foreign /\ dlog.state \notin {"off", "failed"} => dlog.abandoned
  /\ dlog.state \in {"off", "wiping", "failed"} => flush = Resting

LEMMA OffIs ==
  /\ Off.state = "off" /\ Off.abandoned = FALSE /\ Resting.at = "no"
  /\ {"state", "sec", "cur", "taken", "dirty", "full", "abandoned"} \subseteq Fields
  /\ \A st : LET d == [Off EXCEPT !.state = st]
            IN  d.state = st /\ d.abandoned = FALSE /\ DOMAIN d = Fields
BY DEF Off, Resting, Fields

LEMMA OpenedIs ==
  ASSUME NEW fresh \in BOOLEAN
  PROVE  /\ Opened(fresh).state \in {"wiping", "ready"} /\ Opened(fresh).abandoned = FALSE
         /\ DOMAIN Opened(fresh) = Fields
<1> DEFINE at == Located
           used == at.sec - 1 + (IF at.cur # Pad THEN 1 ELSE 0)
           all == NSec
           some == IF used < NSec THEN used ELSE NSec
           s == at.sec
           c == IF at.cut THEN Append(at.cur, CutEnd) ELSE at.cur
           d == at.cut
<1>1. \/ Opened(fresh) = [Off EXCEPT !.state = "wiping", !.wipe = all]
      \/ Opened(fresh) = [Off EXCEPT !.state = "wiping", !.wipe = some]
      \/ Opened(fresh) = [Off EXCEPT !.state = "ready", !.sec = s, !.cur = c, !.dirty = d]
  BY DEF Opened
<1> HIDE DEF all, some, s, c, d
<1> QED BY <1>1 DEF Off, Fields

LEMMA PlacedIs ==
  ASSUME Placed,
         \/ file' = file
         \/ file' = [s \in Sectors |-> Foreign]
         \/ \E s, data : file' = [file EXCEPT ![s] = data]
  PROVE  Placed'
BY DEF Placed

(* A step of the main loop's that changes what it holds and no more. *)
LEMMA StateKept ==
  ASSUME HostInv, dlog'.state = dlog.state, dlog'.abandoned = dlog.abandoned,
         DOMAIN dlog' = Fields, answer'.foreign = answer.foreign, DOMAIN answer' = Answers,
         dlog.state \notin {"off", "wiping", "failed"} \/ flush' = flush,
         Placed'
  PROVE  HostInv'
BY DEF HostInv

LEMMA AnsweredIs ==
  ASSUME HostInv, NEW text
  PROVE  Answered(text).foreign = answer.foreign /\ DOMAIN Answered(text) = Answers
<1> DEFINE held == IF Len(text) > Room THEN answer.for ELSE answer.for \o text
           n == answer.lines + 1
<1>1. Answered(text) = [answer EXCEPT !.lines = n, !.for = held]
  <2>1. DOMAIN answer = Answers
    BY DEF HostInv
  <2> QED BY <2>1 DEF Answered, Answers
<1> HIDE DEF n, held
<1> QED BY <1>1 DEF HostInv, Answers

LEMMA FillKeeps == ASSUME HostInv, FlushFill PROVE HostInv'
<1>1. flush.at = "fill"
  BY DEF FlushFill
<1>2. dlog.state \notin {"off", "wiping", "failed"}
  BY <1>1, OffIs DEF HostInv
<1>3. /\ dlog'.state = dlog.state /\ dlog'.abandoned = dlog.abandoned
      /\ DOMAIN dlog' = Fields
  <2>1. DOMAIN dlog = Fields
    BY DEF HostInv
  <2>2. \E cur, sec, taken :
          \/ dlog' = [dlog EXCEPT !.cur = cur, !.sec = sec, !.taken = taken]
          \/ \E dirty : dlog' = [dlog EXCEPT !.cur = cur, !.taken = taken, !.dirty = dirty]
    <3>1. CASE dlog.sec >= NSec
      BY <3>1 DEF FlushFill
    <3>2. CASE ~(dlog.sec >= NSec)
      <4> DEFINE avail == Len(dram.held) - dlog.taken
                 room  == SecSize - Len(dlog.cur)
                 n     == IF avail < room THEN avail ELSE room
                 cur   == dlog.cur \o SubSeq(dram.held, dlog.taken + 1, dlog.taken + n)
                 dirty == dlog.dirty \/ n > 0
                 taken == dlog.taken + n
      <4>1. dlog' = [dlog EXCEPT !.cur = cur, !.taken = taken, !.dirty = dirty]
        BY <2>1, <3>2, OffIs DEF FlushFill
      <4> HIDE DEF cur, taken, dirty
      <4> QED BY <4>1
    <3> QED BY <3>1, <3>2
  <2> QED BY <2>1, <2>2, OffIs
<1>4. answer' = answer /\ Placed'
  BY PlacedIs DEF FlushFill, HostInv
<1> QED BY <1>2, <1>3, <1>4, StateKept DEF HostInv

LEMMA PutKeeps == ASSUME HostInv, PutSector PROVE HostInv'
<1>1. flush.at \in {"sector", "rest", "full"} /\ answer' = answer
  BY DEF PutSector
<1>2. dlog.state \notin {"off", "wiping", "failed"}
  BY <1>1, OffIs DEF HostInv
<1>3. /\ dlog'.state = dlog.state /\ dlog'.abandoned = dlog.abandoned
      /\ DOMAIN dlog' = Fields
  <2>1. DOMAIN dlog = Fields
    BY DEF HostInv
  <2>2. PICK ok \in BOOLEAN :
          LET put == IF ok THEN [dlog EXCEPT !.taken = 0, !.dirty = FALSE] ELSE dlog
              more == ok /\ flush.at = "sector"
          IN  dlog' = CASE flush.at = "full" -> [put EXCEPT !.full = TRUE]
                        [] more -> [put EXCEPT !.sec = @ + 1, !.cur = Pad]
                        [] OTHER -> put
    BY DEF PutSector
  <2> DEFINE put == IF ok THEN [dlog EXCEPT !.taken = 0, !.dirty = FALSE] ELSE dlog
             next == put.sec + 1
             blank == Pad
  <2>3. /\ put.state = dlog.state /\ put.abandoned = dlog.abandoned /\ DOMAIN put = Fields
    BY <2>1, OffIs
  <2> HIDE DEF put
  <2>4. \/ dlog' = [put EXCEPT !.full = TRUE]
        \/ dlog' = [put EXCEPT !.sec = next, !.cur = blank]
        \/ dlog' = put
    <3>1. \/ dlog' = [put EXCEPT !.full = TRUE]
          \/ dlog' = [put EXCEPT !.sec = @ + 1, !.cur = Pad]
          \/ dlog' = put
      BY <2>2 DEF put
    <3>2. [put EXCEPT !.sec = @ + 1, !.cur = Pad] = [put EXCEPT !.sec = next, !.cur = blank]
      BY <2>3, OffIs
    <3> QED BY <3>1, <3>2
  <2> HIDE DEF next, blank
  <2> QED BY <2>3, <2>4, OffIs
<1>4. Placed'
  <2>1. \/ file' = file
        \/ file' = [file EXCEPT ![dlog.sec] = dlog.cur]
    BY DEF PutSector
  <2> QED BY <2>1, PlacedIs DEF HostInv
<1> QED BY <1>1, <1>2, <1>3, <1>4, StateKept DEF HostInv

(* The host takes the space when it writes into it, and only then. *)
LEMMA HostKeeps ==
  ASSUME HostInv, NEW first \in 0 .. NSec + 1, NEW count \in 1 .. 2, HostWrites(first, count)
  PROVE  /\ HostInv' /\ \A s \in Sectors : file'[s] \in {file[s], Foreign}
<1> USE DlogConstants
<1>1. /\ file' = [s \in Sectors |-> IF s \in first .. (first + count - 1) THEN Foreign
                                   ELSE file[s]]
      /\ dlog' = IF Touches(first, count) /\ dlog.state # "failed"
                   THEN [dlog EXCEPT !.abandoned = TRUE, !.state = "ready"] ELSE dlog
      /\ answer' = IF file' = file THEN answer
                   ELSE [answer EXCEPT !.for = dram.held, !.foreign = TRUE]
      /\ flush' = flush /\ dlog.state \in {"ready", "active", "failed"}
  BY DEF HostWrites
<1>2. \A s \in Sectors : file'[s] \in {file[s], Foreign}
  BY <1>1
<1>3. DOMAIN dlog = Fields /\ DOMAIN answer = Answers /\ DOMAIN answer' = Answers
  BY <1>1 DEF HostInv
<1>7. Placed'
  BY <1>1 DEF Placed
<1>4. CASE Touches(first, count) /\ dlog.state # "failed"
  <2>1. /\ dlog'.abandoned = TRUE /\ dlog'.state = "ready" /\ DOMAIN dlog' = Fields
    BY <1>1, <1>3, <1>4, OffIs
  <2> QED BY <1>2, <1>3, <1>7, <2>1 DEF HostInv
<1>5. CASE ~Touches(first, count)
  <2>1. \A s \in Sectors : s \notin first .. (first + count - 1)
    BY <1>5 DEF Touches, Sectors
  <2>2. file' = [s \in Sectors |-> file[s]]
    BY <1>1, <2>1
  <2>3. dlog' = dlog
    BY <1>1, <1>5
  <2>4. file' = file /\ answer' = answer
    BY <1>1, <2>2 DEF HostInv, Placed
  <2> QED BY <1>1, <1>2, <1>3, <1>7, <2>3, <2>4 DEF HostInv
<1>6. CASE dlog.state = "failed"
  <2>1. dlog' = dlog
    BY <1>1, <1>6
  <2> QED BY <1>1, <1>2, <1>3, <1>6, <1>7, <2>1 DEF HostInv
<1> QED BY <1>4, <1>5, <1>6

LEMMA PrintfKeeps == ASSUME HostInv, NEW who \in Callers, DlogPrintf(who) PROVE HostInv'
<1>1. /\ dlog' = dlog /\ file' = file
      /\ answer' = Answered(Line(answer.lines + 1))
      /\ flush' = flush \/ flush.at = "say"
  BY DEF DlogPrintf
<1>2. answer'.foreign = answer.foreign /\ DOMAIN answer' = Answers
  BY <1>1, AnsweredIs
<1>3. dlog.state \notin {"off", "wiping", "failed"} \/ flush' = flush
  BY <1>1, OffIs DEF HostInv
<1> QED BY <1>1, <1>2, <1>3, PlacedIs, StateKept DEF HostInv

LEMMA PushKeeps ==
  ASSUME HostInv, NEW who \in Callers, PushIndices(who) \/ PushLine(who)
  PROVE  HostInv' /\ file' = file
<1>1. dlog' = dlog /\ flush' = flush /\ file' = file /\ answer' = answer
  BY DEF PushIndices, PushLine
<1> QED BY <1>1 DEF HostInv, Placed

LEMMA PollKeeps == ASSUME HostInv, DlogPoll \/ DlogPollLooks PROVE HostInv' /\ file' = file
<1>1. /\ dlog' = dlog /\ file' = file /\ answer' = answer
      /\ dlog.state = "active" \/ flush.at = "look"
  BY DEF DlogPoll, DlogPollLooks
<1>2. dlog.state \notin {"off", "wiping", "failed"}
  BY <1>1, OffIs DEF HostInv
<1>3. DOMAIN answer' = Answers /\ DOMAIN dlog' = Fields /\ Placed'
  BY <1>1, PlacedIs DEF HostInv
<1> QED BY <1>1, <1>2, <1>3, StateKept

(* The boot *)

LEMMA NoCardKeeps == ASSUME HostInv, DlogNoCard PROVE HostInv'
<1> DEFINE n == answer.boots + 1
<1>1. /\ dlog' = [Off EXCEPT !.state = "failed"] /\ flush' = flush /\ file' = file
      /\ answer' = [answer EXCEPT !.boots = n] /\ dlog.state = "off"
  BY DEF DlogNoCard
<1> HIDE DEF n
<1>2. /\ dlog'.state = "failed" /\ dlog'.abandoned = FALSE /\ DOMAIN dlog' = Fields
  BY <1>1, OffIs
<1>3. DOMAIN answer' = Answers
  BY <1>1 DEF HostInv
<1>4. Placed'
  BY <1>1, PlacedIs DEF HostInv
<1> QED BY <1>1, <1>2, <1>3, <1>4, OffIs DEF HostInv

LEMMA PrepareKeeps ==
  ASSUME HostInv, NEW fresh \in BOOLEAN, DlogPrepare(fresh)
  PROVE  HostInv' /\ ~answer'.foreign
<1> DEFINE n == answer.boots + 1
           for == IF dlog'.state = "wiping" THEN dram.held ELSE answer.for
<1>1. /\ dlog' = Opened(fresh) /\ flush' = flush /\ dlog.state = "off"
      /\ answer' = [answer EXCEPT !.boots = n, !.foreign = FALSE, !.for = for]
      /\ file' = IF fresh THEN [s \in Sectors |-> Foreign] ELSE file
  BY DEF DlogPrepare
<1> HIDE DEF n, for
<1>2. ~answer'.foreign /\ DOMAIN answer' = Answers
  BY <1>1 DEF HostInv, Answers
<1>3. Placed'
  BY <1>1, PlacedIs DEF HostInv
<1> QED BY <1>1, <1>2, <1>3, OpenedIs DEF HostInv

LEMMA WipeKeeps == ASSUME HostInv, WipeSector PROVE HostInv' /\ ~answer.foreign
<1> DEFINE n == dlog.sec + 1
<1>1. /\ dlog.state = "wiping" /\ flush' = flush /\ answer' = answer
      /\ \/ dlog' = [Off EXCEPT !.state = "ready"]
         \/ dlog' = [dlog EXCEPT !.sec = n]
         \/ dlog' = [Off EXCEPT !.state = "failed"]
      /\ \/ file' = file
         \/ file' = [file EXCEPT ![dlog.sec] = Pad]
  BY DEF WipeSector
<1> HIDE DEF n
<1>2. dlog.abandoned = FALSE /\ ~answer.foreign /\ flush = Resting
  BY <1>1 DEF HostInv
<1>3. /\ dlog'.abandoned = FALSE /\ DOMAIN dlog' = Fields
  BY <1>1, <1>2, OffIs DEF HostInv
<1>4. Placed'
  BY <1>1, PlacedIs DEF HostInv
<1> QED BY <1>1, <1>2, <1>3, <1>4 DEF HostInv

LEMMA ActivateKeeps == ASSUME HostInv, DlogActivate PROVE HostInv'
<1>1. /\ dlog' = [dlog EXCEPT !.state = "active"] /\ flush' = flush /\ file' = file
      /\ answer' = answer /\ dlog.state = "ready" /\ ~dlog.abandoned
  BY DEF DlogActivate
<1>2. /\ dlog'.state = "active" /\ dlog'.abandoned = FALSE /\ DOMAIN dlog' = Fields
  BY <1>1, OffIs DEF HostInv
<1>3. Placed'
  BY <1>1, PlacedIs DEF HostInv
<1> QED BY <1>1, <1>2, <1>3 DEF HostInv

LEMMA ResetKeeps == ASSUME HostInv, WarmReset \/ PowerCut PROVE HostInv'
<1> DEFINE for == SubSeq(answer.for, 1, Len(answer.for) - Len(dram.held))
           whole == Without(answer.for, Unreturned)
<1>1. /\ dlog' = Off /\ flush' = Resting /\ file' = file
      /\ \/ answer' = [answer EXCEPT !.for = whole]
         \/ answer' = [answer EXCEPT !.for = for]
  BY DEF WarmReset, PowerCut
<1> HIDE DEF for, whole
<1>2. DOMAIN answer' = Answers
  BY <1>1 DEF HostInv
<1>3. Placed'
  BY <1>1, PlacedIs DEF HostInv
<1> QED BY <1>1, <1>2, <1>3, OffIs DEF HostInv, Fields

(* The log writes where it may, or not at all. *)
LEMMA PutLeavesTheHost ==
  ASSUME HostInv, PutSector, answer.foreign, dlog.state # "off"
  PROVE  file' = file
<1>1. dlog.state # "failed"
  BY OffIs DEF HostInv, PutSector
<1>2. dlog.abandoned
  BY <1>1 DEF HostInv
<1> QED BY <1>2 DEF PutSector, MayWrite

LEMMA HostInit == DlogInit => HostInv
<1> SUFFICES ASSUME DlogInit PROVE HostInv
  OBVIOUS
<1>1. Placed
  BY DEF DlogInit, Placed
<1>2. DOMAIN answer = Answers
  BY DEF DlogInit, Answers
<1>3. dlog = Off /\ flush = Resting
  BY DEF DlogInit
<1> QED BY <1>1, <1>2, <1>3, OffIs DEF HostInv, Fields

LEMMA HostSpaceStep ==
  ASSUME HostInv, [DlogNext]_dlogVars
  PROVE  /\ HostInv'
         /\ answer.foreign /\ answer'.foreign /\ dlog.state # "off" =>
              \A s \in Sectors : file'[s] \in {file[s], Foreign}
<1>1. ASSUME NEW who \in Callers, DlogPrintf(who) \/ PushIndices(who) \/ PushLine(who)
      PROVE  HostInv' /\ file' = file
  BY <1>1, PrintfKeeps, PushKeeps DEF DlogPrintf
<1>2. CASE DlogNoCard
  BY <1>2, NoCardKeeps DEF DlogNoCard
<1>3. ASSUME NEW fresh \in BOOLEAN, DlogPrepare(fresh)
      PROVE  HostInv' /\ ~answer'.foreign
  BY <1>3, PrepareKeeps
<1>4. CASE WipeSector
  BY <1>4, WipeKeeps
<1>5. CASE DlogActivate
  BY <1>5, ActivateKeeps DEF DlogActivate
<1>6. CASE DlogPoll \/ DlogPollLooks
  BY <1>6, PollKeeps
<1>7. CASE FlushFill
  BY <1>7, FillKeeps DEF FlushFill
<1>8. CASE PutSector
  BY <1>8, PutKeeps, PutLeavesTheHost
<1>9. ASSUME NEW first \in 0 .. NSec + 1, NEW count \in 1 .. 2, HostWrites(first, count)
      PROVE  HostInv' /\ \A s \in Sectors : file'[s] \in {file[s], Foreign}
  BY <1>9, HostKeeps
<1>10. CASE WarmReset \/ PowerCut
  BY <1>10, ResetKeeps DEF WarmReset, PowerCut
<1>11. CASE UNCHANGED dlogVars
  BY <1>11 DEF dlogVars, HostInv, Placed
<1> QED BY <1>1, <1>2, <1>3, <1>4, <1>5, <1>6, <1>7, <1>8, <1>9, <1>10, <1>11 DEF DlogNext

(***************************************************************************)
(* The log owns the space of its file until the host writes into it: then  *)
(* dlog_core_host_wrote abandons the file at once and until the next       *)
(* reset, and no write of the main loop outlives the state it was begun    *)
(* in.                                                                     *)
(***************************************************************************)
THEOREM HostInvariant == DlogSpec => []HostInv
<1>1. DlogInit => HostInv
  BY HostInit
<1>2. HostInv /\ [DlogNext]_dlogVars => HostInv'
  BY HostSpaceStep
<1> QED BY <1>1, <1>2, PTL DEF DlogSpec

(***************************************************************************)
(* HostSpaceUntouched: a sector the host has written is never written by   *)
(* the log again in this boot, also when the host comes between            *)
(* dlog_core_flush's decision to write a sector and put_sector's write.    *)
(***************************************************************************)
THEOREM HostKeepsItsSpace == DlogSpec => HostSpaceUntouched
<1>1. HostInv /\ [DlogNext]_dlogVars =>
        [answer.foreign /\ answer'.foreign /\ dlog.state # "off" =>
           \A s \in Sectors : file'[s] \in {file[s], Foreign}]_dlogVars
  BY HostSpaceStep
<1> QED BY <1>1, HostInvariant, PTL DEF DlogSpec, HostSpaceUntouched

-----------------------------------------------------------------------------
(* Subsequences *)

LEMMA LowestExists ==
  ASSUME NEW T, T \subseteq Nat, T # {}
  PROVE  \E x \in T : \A y \in T : x <= y
<1> DEFINE R == {p \in Nat \X Nat : p[1] < p[2]}
<1>1. IsWellFoundedOn(R, Nat)
  BY NatLessThanWellFounded DEF OpToRel
<1>2. PICK x \in T : \A y \in T : <<y, x>> \notin R
  <2> HIDE DEF R
  <2> QED BY <1>1, WFMin
<1>3. \A y \in T : ~(y < x)
  BY <1>2
<1> QED BY <1>3

(* s is found in t in its order; g says where. *)
Embeds(g, s, t) ==
  /\ g \in [1 .. Len(s) -> 1 .. Len(t)]
  /\ \A i, j \in 1 .. Len(s) : i < j => g[i] < g[j]
  /\ \A i \in 1 .. Len(s) : s[i] = t[g[i]]

Inside(s, t) == \E g : Embeds(g, s, t)

LEMMA InsideItself == ASSUME NEW S, NEW s \in Seq(S) PROVE Inside(s, s)
<1> DEFINE g == [i \in 1 .. Len(s) |-> i]
<1>1. Len(s) \in Nat
  OBVIOUS
<1>2. Embeds(g, s, s)
  BY <1>1 DEF Embeds
<1> QED BY <1>2 DEF Inside

LEMMA InsideNothing == ASSUME NEW S, NEW t \in Seq(S) PROVE Inside(<< >>, t)
<1> DEFINE g == [i \in 1 .. 0 |-> 1]
<1>1. Len(<< >>) = 0 /\ 1 .. 0 = {}
  OBVIOUS
<1>2. Embeds(g, << >>, t)
  BY <1>1 DEF Embeds
<1> QED BY <1>2 DEF Inside

LEMMA InsideChain ==
  ASSUME NEW S, NEW s \in Seq(S), NEW t \in Seq(S), NEW u \in Seq(S), Inside(s, t), Inside(t, u)
  PROVE  Inside(s, u)
<1> DEFINE ls == Len(s)
           lt == Len(t)
           lu == Len(u)
<1>1. PICK f : Embeds(f, s, t)
  BY DEF Inside
<1>2. PICK g : Embeds(g, t, u)
  BY DEF Inside
<1>3. /\ f \in [1 .. ls -> 1 .. lt] /\ g \in [1 .. lt -> 1 .. lu]
      /\ \A i, j \in 1 .. ls : i < j => f[i] < f[j]
      /\ \A i, j \in 1 .. lt : i < j => g[i] < g[j]
      /\ \A i \in 1 .. ls : s[i] = t[f[i]]
      /\ \A i \in 1 .. lt : t[i] = u[g[i]]
  BY <1>1, <1>2 DEF Embeds
<1> HIDE DEF ls, lt, lu
<1> DEFINE h == [i \in 1 .. ls |-> g[f[i]]]
<1>4. /\ h \in [1 .. ls -> 1 .. lu]
      /\ \A i, j \in 1 .. ls : i < j => h[i] < h[j]
      /\ \A i \in 1 .. ls : s[i] = u[h[i]]
  BY <1>3
<1>5. Embeds(h, s, u)
  BY <1>4 DEF Embeds, ls, lu
<1> QED BY <1>5 DEF Inside

LEMMA InsideConcat ==
  ASSUME NEW S, NEW a \in Seq(S), NEW b \in Seq(S), NEW c \in Seq(S), NEW d \in Seq(S),
         Inside(a, b), Inside(c, d)
  PROVE  Inside(a \o c, b \o d)
<1> DEFINE la == Len(a)
           lb == Len(b)
           lc == Len(c)
           ld == Len(d)
           ac == a \o c
           bd == b \o d
<1>1. PICK f : Embeds(f, a, b)
  BY DEF Inside
<1>2. PICK g : Embeds(g, c, d)
  BY DEF Inside
<1>3. /\ f \in [1 .. la -> 1 .. lb] /\ g \in [1 .. lc -> 1 .. ld]
      /\ \A i, j \in 1 .. la : i < j => f[i] < f[j]
      /\ \A i, j \in 1 .. lc : i < j => g[i] < g[j]
      /\ \A i \in 1 .. la : a[i] = b[f[i]]
      /\ \A i \in 1 .. lc : c[i] = d[g[i]]
  BY <1>1, <1>2 DEF Embeds
<1>4. la \in Nat /\ lb \in Nat /\ lc \in Nat /\ ld \in Nat
  OBVIOUS
<1>5. /\ Len(ac) = la + lc /\ Len(bd) = lb + ld
      /\ \A i \in 1 .. la + lc : ac[i] = IF i <= la THEN a[i] ELSE c[i - la]
      /\ \A i \in 1 .. lb + ld : bd[i] = IF i <= lb THEN b[i] ELSE d[i - lb]
  BY ConcatProperties
<1> HIDE DEF la, lb, lc, ld, ac, bd
<1> DEFINE h == [i \in 1 .. la + lc |-> IF i <= la THEN f[i] ELSE lb + g[i - la]]
<1>6. \A i \in 1 .. la + lc : \/ i \in 1 .. la /\ i <= la
                              \/ i - la \in 1 .. lc /\ ~(i <= la)
  BY <1>4
<1>7. ASSUME NEW i \in 1 .. la + lc
      PROVE  /\ h[i] \in 1 .. lb + ld /\ ac[i] = bd[h[i]]
             /\ i <= la => h[i] = f[i] /\ h[i] \in 1 .. lb
             /\ ~(i <= la) => h[i] = lb + g[i - la] /\ h[i] > lb
  <2>1. CASE i <= la
    <3>1. i \in 1 .. la /\ h[i] = f[i] /\ f[i] \in 1 .. lb
      BY <1>3, <1>6, <2>1
    <3>2. f[i] \in 1 .. lb + ld /\ f[i] <= lb
      BY <1>4, <3>1
    <3> QED BY <1>3, <1>5, <2>1, <3>1, <3>2
  <2>2. CASE ~(i <= la)
    <3> DEFINE m == i - la
               x == g[m]
    <3>1. m \in 1 .. lc /\ h[i] = lb + x /\ x \in 1 .. ld /\ c[m] = d[x]
      BY <1>3, <1>6, <2>2
    <3>2. ac[i] = c[m]
      BY <1>5, <2>2
    <3> HIDE DEF m, x
    <3>3. lb + x \in 1 .. lb + ld /\ ~(lb + x <= lb) /\ (lb + x) - lb = x
      BY <1>4, <3>1
    <3>4. bd[lb + x] = d[x]
      BY <1>5, <3>3
    <3> HIDE DEF h
    <3>5. h[i] \in 1 .. lb + ld /\ ac[i] = bd[h[i]] /\ h[i] > lb /\ h[i] = lb + x
      BY <1>4, <3>1, <3>2, <3>3, <3>4
    <3> QED BY <2>2, <3>5 DEF m, x
  <2> QED BY <2>1, <2>2
<1>8. ASSUME NEW i \in 1 .. la + lc, NEW j \in 1 .. la + lc, i < j
      PROVE  h[i] < h[j]
  <2>1. CASE j <= la
    <3>1. i <= la /\ i \in 1 .. la /\ j \in 1 .. la
      BY <1>4, <1>8, <2>1
    <3> QED BY <1>3, <1>7, <1>8, <2>1, <3>1
  <2>2. CASE i <= la /\ ~(j <= la)
    <3>1. h[i] \in 1 .. lb /\ h[j] > lb /\ h[j] \in 1 .. lb + ld
      BY <1>7, <2>2
    <3> HIDE DEF h
    <3> QED BY <1>4, <3>1
  <2>3. CASE ~(i <= la)
    <3>1. ~(j <= la) /\ i - la \in 1 .. lc /\ j - la \in 1 .. lc /\ i - la < j - la
      BY <1>4, <1>6, <1>8, <2>3
    <3>2. g[i - la] < g[j - la] /\ g[i - la] \in 1 .. ld /\ g[j - la] \in 1 .. ld
      BY <1>3, <3>1
    <3>3. h[i] = lb + g[i - la] /\ h[j] = lb + g[j - la]
      BY <1>7, <2>3, <3>1
    <3> HIDE DEF h
    <3> QED BY <1>4, <3>2, <3>3
  <2> QED BY <2>1, <2>2, <2>3
<1>9. h \in [1 .. la + lc -> 1 .. lb + ld]
  BY <1>7
<1> HIDE DEF h
<1>10. Embeds(h, ac, bd)
  BY <1>5, <1>7, <1>8, <1>9 DEF Embeds
<1> QED BY <1>10 DEF Inside, ac, bd

(* Where the last of b \o c is cut off, no more of what is inside is lost. *)
LEMMA InsideCut ==
  ASSUME NEW S, NEW a \in Seq(S), NEW b \in Seq(S), NEW c \in Seq(S), Inside(a, b \o c)
  PROVE  Inside(SubSeq(a, 1, Len(a) - Len(c)), b)
<1> DEFINE la == Len(a)
           lb == Len(b)
           lc == Len(c)
           n == la - lc
           k == IF n > 0 THEN n ELSE 0
           bc == b \o c
           s == SubSeq(a, 1, n)
<1>1. PICK f : Embeds(f, a, bc)
  BY DEF Inside
<1>2. la \in Nat /\ lb \in Nat /\ lc \in Nat /\ k \in 0 .. la /\ n \in Int /\ n <= k /\ k <= la
  OBVIOUS
<1>3. /\ Len(bc) = lb + lc
      /\ \A i \in 1 .. lb + lc : bc[i] = IF i <= lb THEN b[i] ELSE c[i - lb]
  BY ConcatProperties
<1>4. /\ f \in [1 .. la -> 1 .. lb + lc]
      /\ \A i, j \in 1 .. la : i < j => f[i] < f[j]
      /\ \A i \in 1 .. la : a[i] = bc[f[i]]
  BY <1>1, <1>3 DEF Embeds
<1>5. Len(s) = k /\ \A i \in 1 .. k : s[i] = a[i]
  OBVIOUS
<1> HIDE DEF la, lb, lc, n, bc, s
<1> DEFINE T == {i \in 1 .. la : f[i] > lb + lc - (la - i)}
<1>6. T = {}
  <2> SUFFICES ASSUME T # {} PROVE FALSE
    OBVIOUS
  <2> DEFINE U == {la - i : i \in T}
  <2>1. U \subseteq Nat /\ U # {}
    BY <1>2
  <2>2. PICK x \in U : \A y \in U : x <= y
    <3> HIDE DEF U
    <3> QED BY <2>1, LowestExists
  <2>3. PICK i \in 1 .. la : x = la - i /\ f[i] > lb + lc - (la - i)
    BY <2>2
  <2>4. f[i] \in 1 .. lb + lc
    BY <1>4
  <2>5. i < la
    BY <1>2, <2>3, <2>4
  <2>6. i + 1 \in 1 .. la /\ i < i + 1 /\ la - (i + 1) < la - i
    BY <1>2, <2>5
  <2>7. f[i + 1] \in 1 .. lb + lc /\ f[i] < f[i + 1]
    BY <1>4, <2>6
  <2>8. f[i + 1] > lb + lc - (la - (i + 1))
    <3> DEFINE v == f[i]
               w == f[i + 1]
    <3>1. v \in Nat /\ w \in Nat /\ v < w /\ v > lb + lc - (la - i)
      <4>1. v \in Nat /\ w \in Nat
        <5>1. ASSUME NEW m \in 1 .. lb + lc PROVE m \in Nat
          BY <1>2
        <5> QED BY <2>4, <2>7, <5>1
      <4> QED BY <2>3, <2>7, <4>1
    <3> HIDE DEF v, w
    <3>2. w > lb + lc - (la - (i + 1))
      BY <1>2, <3>1
    <3> QED BY <3>2 DEF w
  <2>9. la - (i + 1) \in U
    BY <2>6, <2>8
  <2> HIDE DEF U
  <2> QED BY <1>2, <2>2, <2>3, <2>6, <2>9
<1> DEFINE g == [i \in 1 .. k |-> f[i]]
<1>7. ASSUME NEW i \in 1 .. k PROVE i \in 1 .. la /\ f[i] \in 1 .. lb
  <2>1. i \in 1 .. la /\ i <= la - lc
    BY <1>2 DEF n
  <2>2. f[i] \in 1 .. lb + lc /\ ~(f[i] > lb + lc - (la - i))
    BY <1>4, <1>6, <2>1
  <2> QED BY <1>2, <2>1, <2>2
<1>8. /\ g \in [1 .. k -> 1 .. lb]
      /\ \A i, j \in 1 .. k : i < j => g[i] < g[j]
      /\ \A i \in 1 .. k : s[i] = b[g[i]]
  <2>1. \A i \in 1 .. k : f[i] \in 1 .. lb + lc /\ f[i] <= lb
    BY <1>2, <1>7
  <2> QED BY <1>3, <1>4, <1>5, <1>7, <2>1
<1> HIDE DEF g, k
<1>9. Embeds(g, s, b)
  BY <1>5, <1>8 DEF Embeds, lb
<1>10. Inside(s, b)
  BY <1>9 DEF Inside
<1> QED BY <1>10 DEF s, n, la, lc

-----------------------------------------------------------------------------
(* Gluing sequences together *)

(* f glues the first k pieces of q together, one after the other. *)
Glues(q, S, f, k) ==
  /\ f \in [1 .. Len(q) -> Seq(S)]
  /\ \A i \in 1 .. k : f[i] = IF i = 1 THEN q[i] ELSE f[i - 1] \o q[i]

LEMMA GlueExists ==
  ASSUME NEW S, NEW q \in Seq(Seq(S))
  PROVE  \E f : Glues(q, S, f, Len(q))
<1> DEFINE n == Len(q)
           T == {k \in 0 .. n : ~ \E f : Glues(q, S, f, k)}
<1>1. n \in Nat /\ \A i \in 1 .. n : q[i] \in Seq(S)
  OBVIOUS
<1> SUFFICES ASSUME T # {} PROVE FALSE
  BY <1>1
<1>2. T \subseteq Nat
  BY <1>1
<1>3. PICK x \in T : \A y \in T : x <= y
  <2> HIDE DEF T
  <2> QED BY <1>2, LowestExists
<1>4. x \in 0 .. n /\ ~ \E f : Glues(q, S, f, x)
  BY <1>3
<1>5. CASE x = 0
  <2>1. [i \in 1 .. n |-> << >>] \in [1 .. n -> Seq(S)]
    BY EmptySeq
  <2>2. Glues(q, S, [i \in 1 .. n |-> << >>], 0)
    BY <2>1 DEF Glues
  <2> QED BY <1>4, <1>5, <2>2
<1>6. CASE x # 0
  <2>1. x - 1 \in 0 .. n /\ x - 1 \notin T /\ x \in 1 .. n
    <3>1. x - 1 \in 0 .. n /\ x \in 1 .. n /\ ~(x <= x - 1)
      BY <1>1, <1>4, <1>6
    <3> HIDE DEF T
    <3> QED BY <1>3, <3>1
  <2>2. PICK g : Glues(q, S, g, x - 1)
    BY <2>1
  <2> DEFINE v == IF x = 1 THEN q[x] ELSE g[x - 1] \o q[x]
             h == [g EXCEPT ![x] = v]
  <2>3. v \in Seq(S)
    <3>1. q[x] \in Seq(S)
      BY <1>1, <2>1
    <3>2. CASE x # 1
      <4>1. x - 1 \in 1 .. n
        BY <2>1, <3>2
      <4>2. g[x - 1] \in Seq(S)
        BY <2>2, <4>1 DEF Glues
      <4> QED BY <3>1, <3>2, <4>2, ConcatProperties
    <3> QED BY <3>1, <3>2
  <2>4. h \in [1 .. n -> Seq(S)] /\ h[x] = v /\ \A i \in 1 .. n : i # x => h[i] = g[i]
    <3> HIDE DEF v
    <3> QED BY <2>1, <2>2, <2>3 DEF Glues
  <2> HIDE DEF h
  <2>5. ASSUME NEW i \in 1 .. x PROVE h[i] = IF i = 1 THEN q[i] ELSE h[i - 1] \o q[i]
    <3>1. i \in Int /\ x \in Int /\ i \in 1 .. n /\ i - 1 # x /\ (i # 1 => i - 1 \in 1 .. n)
      BY <1>1, <1>4
    <3>2. CASE i = x
      <4>1. i # 1 => h[i - 1] = g[i - 1]
        BY <2>4, <3>1
      <4> QED BY <2>4, <3>2, <4>1
    <3>3. CASE i # x
      <4>1. i \in 1 .. x - 1
        BY <1>4, <3>1, <3>3
      <4>2. g[i] = IF i = 1 THEN q[i] ELSE g[i - 1] \o q[i]
        BY <2>2, <4>1 DEF Glues
      <4>3. h[i] = g[i] /\ (i # 1 => h[i - 1] = g[i - 1])
        BY <2>4, <3>1, <3>3
      <4> QED BY <4>2, <4>3
    <3> QED BY <3>2, <3>3
  <2>6. Glues(q, S, h, x)
    BY <2>4, <2>5 DEF Glues
  <2> QED BY <1>4, <2>6
<1> QED BY <1>5, <1>6

(* What FlattenSeq gives is what any way to glue the pieces gives. *)
LEMMA FlattenIs ==
  ASSUME NEW S, NEW q \in Seq(Seq(S)), NEW g, Glues(q, S, g, Len(q)), Len(q) # 0
  PROVE  FlattenSeq(q) = g[Len(q)]
<1> DEFINE n == Len(q)
           Body(f) == [i \in 1 .. n |-> IF i = 1 THEN q[i] ELSE f[i - 1] \o q[i]]
           flat == CHOOSE f : f = Body(f)
<1>1. n \in Nat
  OBVIOUS
<1>2. g = Body(g)
  BY DEF Glues
<1>3. flat = Body(flat)
  <2> HIDE DEF Body
  <2> QED BY <1>2
<1>4. FlattenSeq(q) = flat[n]
  BY DEF FlattenSeq
<1> HIDE DEF flat
<1>5. \A i \in 1 .. n : /\ flat[i] = IF i = 1 THEN q[i] ELSE flat[i - 1] \o q[i]
                        /\ g[i] = IF i = 1 THEN q[i] ELSE g[i - 1] \o q[i]
  BY <1>2, <1>3
<1> DEFINE T == {k \in 1 .. n : flat[k] # g[k]}
<1>6. T = {}
  <2> SUFFICES ASSUME T # {} PROVE FALSE
    OBVIOUS
  <2>1. T \subseteq Nat
    BY <1>1
  <2>2. PICK x \in T : \A y \in T : x <= y
    <3> HIDE DEF T
    <3> QED BY <2>1, LowestExists
  <2>3. x \in 1 .. n /\ flat[x] # g[x]
    BY <2>2
  <2>4. x # 1
    BY <1>5, <2>3
  <2>5. x - 1 \in 1 .. n /\ ~(x <= x - 1)
    BY <1>1, <2>3, <2>4
  <2>6. flat[x - 1] = g[x - 1]
    <3>1. x - 1 \notin T
      <4> HIDE DEF T
      <4> QED BY <2>2, <2>5
    <3> QED BY <2>5, <3>1
  <2> QED BY <1>5, <2>3, <2>4, <2>6
<1>7. n \in 1 .. n
  BY <1>1
<1> QED BY <1>4, <1>6, <1>7

LEMMA FlattenNothing == FlattenSeq(<< >>) = << >>
BY DEF FlattenSeq

LEMMA FlattenTyped ==
  ASSUME NEW S, NEW q \in Seq(Seq(S))
  PROVE  FlattenSeq(q) \in Seq(S)
<1>1. Len(q) \in Nat
  OBVIOUS
<1>2. CASE Len(q) = 0
  <2>1. q = << >>
    BY <1>2, EmptySeq
  <2> QED BY <2>1, FlattenNothing, EmptySeq
<1>3. CASE Len(q) # 0
  <2>1. PICK g : Glues(q, S, g, Len(q))
    BY GlueExists
  <2>2. Len(q) \in 1 .. Len(q)
    BY <1>1, <1>3
  <2>3. g[Len(q)] \in Seq(S)
    BY <2>1, <2>2 DEF Glues
  <2> QED BY <1>3, <2>1, <2>3, FlattenIs
<1> QED BY <1>2, <1>3

LEMMA FlattenAppend ==
  ASSUME NEW S, NEW q \in Seq(Seq(S)), NEW b \in Seq(S)
  PROVE  FlattenSeq(Append(q, b)) = FlattenSeq(q) \o b
<1> DEFINE n == Len(q)
           r == Append(q, b)
<1>1. /\ n \in Nat /\ r \in Seq(Seq(S)) /\ Len(r) = n + 1
      /\ \A i \in 1 .. n : r[i] = q[i]
      /\ r[n + 1] = b
  BY AppendProperties
<1>2. PICK g : Glues(r, S, g, Len(r))
  BY <1>1, GlueExists
<1> HIDE DEF r
<1>3. /\ g \in [1 .. n + 1 -> Seq(S)]
      /\ \A i \in 1 .. n + 1 : g[i] = IF i = 1 THEN r[i] ELSE g[i - 1] \o r[i]
  BY <1>1, <1>2 DEF Glues
<1>4. FlattenSeq(r) = g[n + 1]
  <2>1. Len(r) # 0
    BY <1>1
  <2> QED BY <1>1, <1>2, <2>1, FlattenIs
<1>5. CASE n = 0
  <2>1. q = << >>
    BY <1>5, EmptySeq
  <2>2. g[n + 1] = b
    BY <1>1, <1>3, <1>5
  <2> QED BY <1>4, <2>1, <2>2, FlattenNothing, ConcatEmptySeq DEF r
<1>6. CASE n # 0
  <2> DEFINE h == [i \in 1 .. n |-> g[i]]
  <2>1. /\ h \in [1 .. n -> Seq(S)]
        /\ \A i \in 1 .. n : h[i] = IF i = 1 THEN q[i] ELSE h[i - 1] \o q[i]
    <3>1. \A i \in 1 .. n : i \in 1 .. n + 1 /\ (i # 1 => i - 1 \in 1 .. n)
      BY <1>1
    <3> QED BY <1>1, <1>3, <3>1
  <2> HIDE DEF h
  <2>2. Glues(q, S, h, n)
    BY <2>1 DEF Glues
  <2>3. FlattenSeq(q) = h[n]
    BY <1>6, <2>2, FlattenIs
  <2>4. h[n] = g[n] /\ g[n + 1] = g[n] \o b
    <3>1. n \in 1 .. n /\ n + 1 \in 1 .. n + 1 /\ n + 1 # 1 /\ (n + 1) - 1 = n
      BY <1>1, <1>6
    <3> QED BY <1>1, <1>3, <3>1 DEF h
  <2> QED BY <1>4, <2>3, <2>4 DEF r
<1> QED BY <1>5, <1>6

(* Less is glued from the k-th piece on than from the first one on. *)
-----------------------------------------------------------------------------
(* locate: the bisection of the sectors *)

Ends == 1 .. NSec + 1
Mid(lo, hi) == lo + (hi - lo) \div 2

\* What the bisection of the sectors fl gives for a range, as f has it for ranges up to k.
Halves(fl, f, k) ==
  /\ f \in [Ends \X Ends -> Ends]
  /\ \A lo, hi \in Ends :
       hi - lo <= k =>
         f[<<lo, hi>>] = IF lo >= hi THEN lo
                         ELSE IF fl[Mid(lo, hi)] = Pad THEN f[<<lo, Mid(lo, hi)>>]
                         ELSE f[<<Mid(lo, hi) + 1, hi>>]

LEMMA MidIs ==
  ASSUME NEW lo \in Ends, NEW hi \in Ends, lo < hi
  PROVE  /\ Mid(lo, hi) \in Sectors /\ Mid(lo, hi) \in Ends /\ Mid(lo, hi) + 1 \in Ends
         /\ lo <= Mid(lo, hi) /\ Mid(lo, hi) < hi
<1> DEFINE d == hi - lo
           h == d \div 2
<1>1. lo \in Nat /\ hi \in Nat /\ lo >= 1 /\ hi <= NSec + 1 /\ NSec \in Nat /\ d \in Nat /\ d >= 1
  BY DlogConstants DEF Ends
<1>2. h \in Nat /\ h < d
  <2> HIDE DEF d
  <2> QED BY <1>1
<1>3. hi = lo + d
  BY <1>1
<1>4. Mid(lo, hi) = lo + h
  BY DEF Mid
<1> HIDE DEF d, h
<1> QED BY <1>1, <1>2, <1>3, <1>4 DEF Ends, Sectors

LEMMA HalvesExist == ASSUME NEW fl PROVE \E f : Halves(fl, f, NSec)
<1> DEFINE T == {k \in 0 .. NSec : ~ \E f : Halves(fl, f, k)}
<1>1. NSec \in Nat /\ NSec >= 1
  BY DlogConstants
<1> SUFFICES ASSUME T # {} PROVE FALSE
  BY <1>1
<1>2. T \subseteq Nat
  BY <1>1
<1>3. PICK x \in T : \A y \in T : x <= y
  <2> HIDE DEF T
  <2> QED BY <1>2, LowestExists
<1>4. x \in 0 .. NSec /\ ~ \E f : Halves(fl, f, x)
  BY <1>3
<1> DEFINE Rule(f, lo, hi) == IF lo >= hi THEN lo
                              ELSE IF fl[Mid(lo, hi)] = Pad THEN f[<<lo, Mid(lo, hi)>>]
                              ELSE f[<<Mid(lo, hi) + 1, hi>>]
<1>5. CASE x = 0
  <2> DEFINE h == [p \in Ends \X Ends |-> p[1]]
  <2>1. h \in [Ends \X Ends -> Ends] /\ \A lo, hi \in Ends : h[<<lo, hi>>] = lo
    OBVIOUS
  <2> HIDE DEF h
  <2>2. ASSUME NEW lo \in Ends, NEW hi \in Ends, hi - lo <= 0
        PROVE  lo >= hi
    BY <2>2, <1>1 DEF Ends
  <2>3. Halves(fl, h, 0)
    BY <2>1, <2>2 DEF Halves
  <2> QED BY <1>4, <1>5, <2>3
<1>6. CASE x # 0
  <2>1. x - 1 \in 0 .. NSec /\ x - 1 \notin T /\ x \in Nat
    <3>1. x - 1 \in 0 .. NSec /\ x \in Nat /\ ~(x <= x - 1)
      BY <1>1, <1>4, <1>6
    <3> HIDE DEF T
    <3> QED BY <1>3, <3>1
  <2>2. PICK g : Halves(fl, g, x - 1)
    BY <2>1
  <2> DEFINE h == [p \in Ends \X Ends |-> IF p[2] - p[1] = x THEN Rule(g, p[1], p[2]) ELSE g[p]]
  <2>3. ASSUME NEW lo \in Ends, NEW hi \in Ends
        PROVE  /\ Rule(g, lo, hi) \in Ends
               /\ h[<<lo, hi>>] = IF hi - lo = x THEN Rule(g, lo, hi) ELSE g[<<lo, hi>>]
    <3>1. h[<<lo, hi>>] = IF hi - lo = x THEN Rule(g, lo, hi) ELSE g[<<lo, hi>>]
      <4> HIDE DEF Rule
      <4> QED OBVIOUS
    <3>2. g \in [Ends \X Ends -> Ends]
      BY <2>2 DEF Halves
    <3>3. CASE lo >= hi
      BY <3>1, <3>3
    <3>4. CASE ~(lo >= hi)
      <4>1. lo < hi
        BY <1>1, <3>4 DEF Ends
      <4>2. Mid(lo, hi) \in Ends /\ Mid(lo, hi) + 1 \in Ends
        BY <4>1, MidIs
      <4> QED BY <3>1, <3>2, <4>2
    <3> QED BY <3>3, <3>4
  <2>4. h \in [Ends \X Ends -> Ends]
    <3>1. g \in [Ends \X Ends -> Ends]
      BY <2>2 DEF Halves
    <3>2. \A lo, hi \in Ends : Rule(g, lo, hi) \in Ends
      BY <2>3
    <3> HIDE DEF Rule
    <3> QED BY <3>1, <3>2
  <2> HIDE DEF h
  <2>5. ASSUME NEW lo \in Ends, NEW hi \in Ends, hi - lo <= x
        PROVE  h[<<lo, hi>>] = Rule(h, lo, hi)
    <3>1. lo \in Nat /\ hi \in Nat
      BY <1>1 DEF Ends
    <3>2. CASE lo >= hi
      <4>1. hi - lo # x /\ hi - lo <= x - 1
        BY <1>4, <1>6, <3>1, <3>2
      <4>2. g[<<lo, hi>>] = lo
        BY <2>2, <3>2, <4>1 DEF Halves
      <4> QED BY <2>3, <3>2, <4>1, <4>2
    <3>3. CASE lo < hi
      <4> DEFINE m == Mid(lo, hi)
      <4>1. m \in Ends /\ m + 1 \in Ends /\ lo <= m /\ m < hi /\ m \in Nat
        BY <3>3, MidIs, <1>1 DEF Ends
      <4> HIDE DEF m
      <4>2. m - lo # x /\ hi - (m + 1) # x /\ ~(lo >= hi)
        BY <2>1, <2>5, <3>1, <3>3, <4>1
      <4>3. h[<<lo, m>>] = g[<<lo, m>>] /\ h[<<m + 1, hi>>] = g[<<m + 1, hi>>]
        BY <2>3, <4>1, <4>2
      <4>4. Rule(h, lo, hi) = Rule(g, lo, hi)
        BY <4>3 DEF m
      <4>5. CASE hi - lo = x
        <5> HIDE DEF Rule
        <5> QED BY <2>3, <4>4, <4>5
      <4>6. CASE hi - lo # x
        <5>1. hi - lo <= x - 1
          BY <2>1, <2>5, <3>1, <4>6
        <5>2. g[<<lo, hi>>] = Rule(g, lo, hi)
          BY <2>2, <5>1 DEF Halves
        <5> HIDE DEF Rule
        <5> QED BY <2>3, <4>4, <4>6, <5>2
      <4> QED BY <4>5, <4>6
    <3> QED BY <3>1, <3>2, <3>3
  <2>6. Halves(fl, h, x)
    BY <2>4, <2>5 DEF Halves
  <2> QED BY <1>4, <2>6
<1> QED BY <1>5, <1>6

(* FirstPad of any sectors. *)
FoundIn(fl) ==
  LET find[r \in Ends \X Ends] ==
        LET lo  == r[1]
            hi  == r[2]
            mid == lo + (hi - lo) \div 2
        IN  IF lo >= hi THEN lo
            ELSE IF fl[mid] = Pad THEN find[<<lo, mid>>] ELSE find[<<mid + 1, hi>>]
  IN  find[<<1, NSec + 1>>]

LEMMA FoundIs ==
  ASSUME NEW fl
  PROVE  \E f : Halves(fl, f, NSec) /\ FoundIn(fl) = f[<<1, NSec + 1>>]
<1> DEFINE Body(f) == [r \in Ends \X Ends |->
                         IF r[1] >= r[2] THEN r[1]
                         ELSE IF fl[r[1] + (r[2] - r[1]) \div 2] = Pad
                           THEN f[<<r[1], r[1] + (r[2] - r[1]) \div 2>>]
                           ELSE f[<<r[1] + (r[2] - r[1]) \div 2 + 1, r[2]>>]]
           find == CHOOSE f : f = Body(f)
<1>1. PICK g : Halves(fl, g, NSec)
  BY HalvesExist
<1>2. \A r \in Ends \X Ends : r[2] - r[1] <= NSec
  BY DlogConstants DEF Ends
<1>3. g = Body(g)
  <2>1. g \in [Ends \X Ends -> Ends]
    BY <1>1 DEF Halves
  <2>2. ASSUME NEW r \in Ends \X Ends PROVE g[r] = Body(g)[r]
    <3>1. r = <<r[1], r[2]>> /\ r[1] \in Ends /\ r[2] \in Ends
      OBVIOUS
    <3> DEFINE lo == r[1]
               hi == r[2]
    <3>2. g[<<lo, hi>>] = IF lo >= hi THEN lo
                         ELSE IF fl[Mid(lo, hi)] = Pad THEN g[<<lo, Mid(lo, hi)>>]
                         ELSE g[<<Mid(lo, hi) + 1, hi>>]
      BY <1>1, <1>2, <3>1 DEF Halves
    <3> QED BY <3>1, <3>2 DEF Mid
  <2> HIDE DEF Body
  <2>3. DOMAIN Body(g) = Ends \X Ends
    BY DEF Body
  <2>4. Body(g) = [r \in Ends \X Ends |-> Body(g)[r]]
    BY DEF Body
  <2>5. g = [r \in Ends \X Ends |-> g[r]]
    BY <2>1
  <2> QED BY <2>2, <2>4, <2>5
<1>4. find = Body(find)
  <2> HIDE DEF Body
  <2> QED BY <1>3
<1>5. FoundIn(fl) = find[<<1, NSec + 1>>]
  BY DEF FoundIn
<1> HIDE DEF find
<1>6. ASSUME NEW lo \in Ends, NEW hi \in Ends
      PROVE  find[<<lo, hi>>] = IF lo >= hi THEN lo
                         ELSE IF fl[Mid(lo, hi)] = Pad THEN find[<<lo, Mid(lo, hi)>>]
                         ELSE find[<<Mid(lo, hi) + 1, hi>>]
  <2>1. <<lo, hi>> \in Ends \X Ends
    OBVIOUS
  <2>2. find[<<lo, hi>>] = Body(find)[<<lo, hi>>]
    BY <1>4
  <2> QED BY <2>1, <2>2 DEF Mid
<1> HIDE DEF Body
<1> DEFINE T == {k \in 0 .. NSec : \E lo, hi \in Ends : hi - lo <= k /\ find[<<lo, hi>>] # g[<<lo, hi>>]}
<1>7. T = {}
  <2> SUFFICES ASSUME T # {} PROVE FALSE
    OBVIOUS
  <2>1. T \subseteq Nat
    BY DlogConstants
  <2>2. PICK x \in T : \A y \in T : x <= y
    <3> HIDE DEF T
    <3> QED BY <2>1, LowestExists
  <2>3. PICK lo \in Ends, hi \in Ends : hi - lo <= x /\ find[<<lo, hi>>] # g[<<lo, hi>>]
    BY <2>2
  <2>4. x \in 0 .. NSec /\ lo \in Nat /\ hi \in Nat /\ NSec \in Nat
    BY <2>2, DlogConstants DEF Ends
  <2>5. g[<<lo, hi>>] = IF lo >= hi THEN lo
                         ELSE IF fl[Mid(lo, hi)] = Pad THEN g[<<lo, Mid(lo, hi)>>]
                         ELSE g[<<Mid(lo, hi) + 1, hi>>]
    <3>1. hi - lo <= NSec
      BY <2>3, <2>4
    <3> QED BY <1>1, <3>1 DEF Halves
  <2>6. lo < hi
    BY <1>6, <2>3, <2>4, <2>5
  <2> DEFINE m == Mid(lo, hi)
  <2>7. m \in Ends /\ m + 1 \in Ends /\ lo <= m /\ m < hi
    BY <2>6, MidIs
  <2>8. \/ find[<<lo, m>>] # g[<<lo, m>>]
        \/ find[<<m + 1, hi>>] # g[<<m + 1, hi>>]
    BY <1>6, <2>3, <2>5
  <2> HIDE DEF m
  <2>9. x - 1 \in 0 .. NSec /\ m - lo <= x - 1 /\ hi - (m + 1) <= x - 1 /\ ~(x <= x - 1)
    <3>1. m \in Nat
      BY <2>4, <2>7 DEF Ends
    <3> QED BY <2>3, <2>4, <2>6, <2>7, <3>1
  <2>10. x - 1 \in T
    BY <2>7, <2>8, <2>9
  <2> HIDE DEF T
  <2> QED BY <2>2, <2>9, <2>10
<1>8. Halves(fl, find, NSec) \/ find[<<1, NSec + 1>>] = g[<<1, NSec + 1>>]
  <2>1. 1 \in Ends /\ NSec + 1 \in Ends /\ NSec + 1 - 1 <= NSec /\ NSec \in 0 .. NSec
    BY DlogConstants DEF Ends
  <2> QED BY <1>7, <2>1
<1> QED BY <1>1, <1>5, <1>8

(* What locate gives is padding, or past the end, and behind a sector that is none. *)
LEMMA FoundIsEdge ==
  ASSUME NEW fl
  PROVE  LET n == FoundIn(fl)
         IN  /\ n \in Ends
             /\ n <= NSec => fl[n] = Pad
             /\ n > 1 => fl[n - 1] # Pad
<1> DEFINE n == FoundIn(fl)
<1>1. PICK f : Halves(fl, f, NSec) /\ n = f[<<1, NSec + 1>>]
  BY FoundIs
<1> HIDE DEF n
<1>2. NSec \in Nat /\ NSec >= 1
  BY DlogConstants
<1> DEFINE Edge(k, lo, hi) == /\ k \in lo .. hi
                              /\ k < hi => fl[k] = Pad
                              /\ k > lo => fl[k - 1] # Pad
           T == {k \in 0 .. NSec : \E lo, hi \in Ends :
                   lo <= hi /\ hi - lo <= k /\ ~Edge(f[<<lo, hi>>], lo, hi)}
<1>3. T = {}
  <2> SUFFICES ASSUME T # {} PROVE FALSE
    OBVIOUS
  <2>1. T \subseteq Nat
    BY <1>2
  <2>2. PICK x \in T : \A y \in T : x <= y
    <3> HIDE DEF T
    <3> QED BY <2>1, LowestExists
  <2>3. PICK lo \in Ends, hi \in Ends : lo <= hi /\ hi - lo <= x /\ ~Edge(f[<<lo, hi>>], lo, hi)
    BY <2>2
  <2>4. x \in 0 .. NSec /\ lo \in Nat /\ hi \in Nat /\ hi - lo <= x /\ x \in Nat
    BY <2>2, <2>3, <1>2 DEF Ends
  <2>5. f[<<lo, hi>>] = IF lo >= hi THEN lo
                         ELSE IF fl[Mid(lo, hi)] = Pad THEN f[<<lo, Mid(lo, hi)>>]
                         ELSE f[<<Mid(lo, hi) + 1, hi>>]
    <3>1. hi - lo <= NSec
      BY <1>2, <2>3, <2>4
    <3> QED BY <1>1, <3>1 DEF Halves
  <2>6. lo < hi
    <3>1. CASE lo >= hi
      <4>1. f[<<lo, hi>>] = lo /\ lo = hi
        BY <2>3, <2>4, <2>5, <3>1
      <4>2. Edge(lo, lo, hi)
        BY <2>4, <4>1
      <4> HIDE DEF Edge
      <4> QED BY <2>3, <4>1, <4>2
    <3> QED BY <2>4, <3>1
  <2> DEFINE m == Mid(lo, hi)
  <2>7. m \in Ends /\ m + 1 \in Ends /\ lo <= m /\ m < hi
    BY <2>6, MidIs
  <2>8. f[<<lo, hi>>] = IF fl[m] = Pad THEN f[<<lo, m>>] ELSE f[<<m + 1, hi>>]
    BY <2>4, <2>5, <2>6
  <2> HIDE DEF m
  <2>9. x - 1 \in 0 .. NSec /\ m - lo <= x - 1 /\ hi - (m + 1) <= x - 1 /\ ~(x <= x - 1)
        /\ m \in Nat /\ m + 1 <= hi
    <3>1. m \in Nat
      BY <1>2, <2>7 DEF Ends
    <3> HIDE DEF T
    <3> QED BY <1>2, <2>4, <2>6, <2>7, <3>1
  <2>10. Edge(f[<<lo, m>>], lo, m) /\ Edge(f[<<m + 1, hi>>], m + 1, hi)
    <3>1. x - 1 \notin T
      <4> HIDE DEF T
      <4> QED BY <2>2, <2>9
    <3> HIDE DEF Edge
    <3> QED BY <2>7, <2>9, <3>1
  <2>11. CASE fl[m] = Pad
    <3> DEFINE k == f[<<lo, m>>]
    <3>1. Edge(k, lo, m) /\ f[<<lo, hi>>] = k
      BY <2>8, <2>10, <2>11
    <3> HIDE DEF k
    <3>2. k \in Nat /\ (k < m \/ k = m)
      BY <2>4, <2>9, <3>1
    <3>3. Edge(k, lo, hi)
      BY <2>4, <2>7, <2>9, <2>11, <3>1, <3>2
    <3> HIDE DEF Edge
    <3> QED BY <2>3, <3>1, <3>3
  <2>12. CASE fl[m] # Pad
    <3> DEFINE k == f[<<m + 1, hi>>]
    <3>1. Edge(k, m + 1, hi) /\ f[<<lo, hi>>] = k
      BY <2>8, <2>10, <2>12
    <3> HIDE DEF k
    <3>2. k \in Nat /\ (k > m + 1 \/ (k = m + 1 /\ k - 1 = m))
      BY <2>4, <2>9, <3>1
    <3>3. Edge(k, lo, hi)
      BY <2>4, <2>7, <2>9, <2>12, <3>1, <3>2
    <3> HIDE DEF Edge
    <3> QED BY <2>3, <3>1, <3>3
  <2> QED BY <2>11, <2>12
<1>4. Edge(n, 1, NSec + 1)
  <2>1. 1 \in Ends /\ NSec + 1 \in Ends /\ 1 <= NSec + 1 /\ NSec + 1 - 1 <= NSec
        /\ NSec \in 0 .. NSec
    BY <1>2 DEF Ends
  <2> HIDE DEF Edge
  <2> QED BY <1>1, <1>3, <2>1
<1>5. n \in Ends /\ (n <= NSec => fl[n] = Pad) /\ (n > 1 => fl[n - 1] # Pad)
  BY <1>2, <1>4 DEF Ends
<1> QED BY <1>5 DEF n

(* Where more sectors are written the bisection ends no earlier. *)
LEMMA FoundLater ==
  ASSUME NEW fl, NEW gl, \A s \in Sectors : fl[s] # Pad => gl[s] # Pad
  PROVE  FoundIn(fl) <= FoundIn(gl)
<1>1. PICK f : Halves(fl, f, NSec) /\ FoundIn(fl) = f[<<1, NSec + 1>>]
  BY FoundIs
<1>2. PICK g : Halves(gl, g, NSec) /\ FoundIn(gl) = g[<<1, NSec + 1>>]
  BY FoundIs
<1>3. NSec \in Nat /\ NSec >= 1
  BY DlogConstants
<1> DEFINE T == {k \in 0 .. NSec : \E lo, hi \in Ends :
                   /\ lo <= hi /\ hi - lo <= k
                   /\ ~(f[<<lo, hi>>] \in lo .. hi /\ g[<<lo, hi>>] \in lo .. hi
                          /\ f[<<lo, hi>>] <= g[<<lo, hi>>])}
<1>4. T = {}
  <2> SUFFICES ASSUME T # {} PROVE FALSE
    OBVIOUS
  <2>1. T \subseteq Nat
    BY <1>3
  <2>2. PICK x \in T : \A y \in T : x <= y
    <3> HIDE DEF T
    <3> QED BY <2>1, LowestExists
  <2>3. PICK lo \in Ends, hi \in Ends :
           /\ lo <= hi /\ hi - lo <= x
           /\ ~(f[<<lo, hi>>] \in lo .. hi /\ g[<<lo, hi>>] \in lo .. hi
                  /\ f[<<lo, hi>>] <= g[<<lo, hi>>])
    BY <2>2
  <2>4. x \in 0 .. NSec /\ lo \in Nat /\ hi \in Nat /\ hi - lo <= x /\ x \in Nat
    BY <2>2, <2>3, <1>3 DEF Ends
  <2>5. /\ f[<<lo, hi>>] = IF lo >= hi THEN lo
                         ELSE IF fl[Mid(lo, hi)] = Pad THEN f[<<lo, Mid(lo, hi)>>]
                         ELSE f[<<Mid(lo, hi) + 1, hi>>]
        /\ g[<<lo, hi>>] = IF lo >= hi THEN lo
                         ELSE IF gl[Mid(lo, hi)] = Pad THEN g[<<lo, Mid(lo, hi)>>]
                         ELSE g[<<Mid(lo, hi) + 1, hi>>]
    <3>1. hi - lo <= NSec
      BY <1>3, <2>3, <2>4
    <3> QED BY <1>1, <1>2, <3>1 DEF Halves
  <2>6. lo < hi
    <3>1. CASE lo >= hi
      <4>1. f[<<lo, hi>>] = lo /\ g[<<lo, hi>>] = lo /\ lo = hi
        BY <2>3, <2>4, <2>5, <3>1
      <4> QED BY <2>3, <2>4, <4>1
    <3> QED BY <2>4, <3>1
  <2> DEFINE m == Mid(lo, hi)
  <2>7. m \in Ends /\ m + 1 \in Ends /\ lo <= m /\ m < hi /\ m \in Sectors
    BY <2>6, MidIs
  <2>8. /\ f[<<lo, hi>>] = IF fl[m] = Pad THEN f[<<lo, m>>] ELSE f[<<m + 1, hi>>]
        /\ g[<<lo, hi>>] = IF gl[m] = Pad THEN g[<<lo, m>>] ELSE g[<<m + 1, hi>>]
    BY <2>4, <2>5, <2>6
  <2> HIDE DEF m
  <2>9. x - 1 \in 0 .. NSec /\ m - lo <= x - 1 /\ hi - (m + 1) <= x - 1 /\ ~(x <= x - 1)
        /\ m \in Nat /\ m + 1 <= hi
    <3>1. m \in Nat
      BY <1>3, <2>7 DEF Ends
    <3> HIDE DEF T
    <3> QED BY <1>3, <2>4, <2>6, <2>7, <3>1
  <2>10. x - 1 \notin T
    <3> HIDE DEF T
    <3> QED BY <2>2, <2>9
  <2> DEFINE fa == f[<<lo, m>>]
             ga == g[<<lo, m>>]
             fb == f[<<m + 1, hi>>]
             gb == g[<<m + 1, hi>>]
  <2>11. fa \in lo .. m /\ ga \in lo .. m /\ fa <= ga
    BY <2>7, <2>9, <2>10
  <2>12. fb \in m + 1 .. hi /\ gb \in m + 1 .. hi /\ fb <= gb
    BY <2>7, <2>9, <2>10
  <2>13. fl[m] # Pad => gl[m] # Pad
    BY <2>7
  <2>14. \/ f[<<lo, hi>>] = fa /\ g[<<lo, hi>>] = ga
         \/ f[<<lo, hi>>] = fa /\ g[<<lo, hi>>] = gb
         \/ f[<<lo, hi>>] = fb /\ g[<<lo, hi>>] = gb
    BY <2>8, <2>13
  <2> HIDE DEF fa, ga, fb, gb
  <2> QED BY <2>3, <2>4, <2>7, <2>9, <2>11, <2>12, <2>14
<1>5. 1 \in Ends /\ NSec + 1 \in Ends /\ 1 <= NSec + 1 /\ NSec + 1 - 1 <= NSec /\ NSec \in 0 .. NSec
  BY <1>3 DEF Ends
<1>6. f[<<1, NSec + 1>>] <= g[<<1, NSec + 1>>]
  <2>1. ASSUME ~(f[<<1, NSec + 1>>] <= g[<<1, NSec + 1>>]) PROVE NSec \in T
    BY <1>5, <2>1
  <2> QED BY <1>4, <2>1
<1> QED BY <1>1, <1>2, <1>6

LEMMA FirstPadIs == FirstPad = FoundIn(file) /\ FirstPad' = FoundIn(file')
BY DEF FirstPad, FoundIn, Ends

-----------------------------------------------------------------------------
(* What stands in the first sectors, and the search for it *)

(* What the first b of the sectors fl hold. *)
Upto(fl, b) == FlattenSeq([s \in 1 .. b |-> fl[s]])

LEMMA GlueIs ==
  ASSUME NEW S, NEW n \in Nat, NEW fl, \A i \in 1 .. n : fl[i] \in Seq(S)
  PROVE  /\ Upto(fl, 0) = << >>
         /\ \A b \in 0 .. n : Upto(fl, b) \in Seq(S)
         /\ \A b \in 1 .. n : Upto(fl, b) = Upto(fl, b - 1) \o fl[b]
<1> DEFINE q(b) == [s \in 1 .. b |-> fl[s]]
<1>2. ASSUME NEW b \in 0 .. n
      PROVE  q(b) \in Seq(Seq(S)) /\ Len(q(b)) = b /\ \A s \in 1 .. b : q(b)[s] = fl[s]
  <2>1. \A s \in 1 .. b : fl[s] \in Seq(S)
    OBVIOUS
  <2> QED BY <2>1
<1>3. Upto(fl, 0) = << >>
  <2>1. q(0) = << >>
    BY <1>2, EmptySeq
  <2> QED BY <2>1, FlattenNothing DEF Upto
<1>4. ASSUME NEW b \in 0 .. n PROVE Upto(fl, b) \in Seq(S)
  BY <1>2, FlattenTyped DEF Upto
<1>5. ASSUME NEW b \in 1 .. n PROVE Upto(fl, b) = Upto(fl, b - 1) \o fl[b]
  <2>1. b - 1 \in 0 .. n /\ b \in 0 .. n /\ b \in 1 .. n /\ (b - 1) + 1 = b
    OBVIOUS
  <2>2. fl[b] \in Seq(S)
    BY <2>1
  <2> DEFINE p == q(b - 1)
             r == Append(p, fl[b])
  <2>3. p \in Seq(Seq(S)) /\ Len(p) = b - 1 /\ \A s \in 1 .. b - 1 : p[s] = fl[s]
    BY <1>2, <2>1
  <2>4. /\ q(b) \in Seq(Seq(S)) /\ Len(q(b)) = b /\ \A s \in 1 .. b : q(b)[s] = fl[s]
    BY <1>2, <2>1
  <2> HIDE DEF p, q
  <2>5. /\ r \in Seq(Seq(S)) /\ Len(r) = b /\ r[b] = fl[b]
        /\ \A s \in 1 .. b - 1 : r[s] = fl[s]
    BY <2>1, <2>2, <2>3, AppendProperties
  <2> HIDE DEF r
  <2>6. \A s \in 1 .. b : q(b)[s] = r[s]
    <3> SUFFICES ASSUME NEW s \in 1 .. b PROVE q(b)[s] = r[s]
      OBVIOUS
    <3>1. s = b \/ s \in 1 .. b - 1
      BY <2>1
    <3> QED BY <2>4, <2>5, <3>1
  <2>7. q(b) = r
    BY <2>4, <2>5, <2>6, SeqEqual
  <2>8. FlattenSeq(r) = FlattenSeq(p) \o fl[b]
    BY <2>2, <2>3, FlattenAppend DEF r
  <2> QED BY <2>7, <2>8 DEF Upto, p, q
<1> QED BY <1>3, <1>4, <1>5

LEMMA UptoIs ==
  ASSUME NEW S, NEW fl, \A s \in Sectors : fl[s] \in Seq(S)
  PROVE  /\ Upto(fl, 0) = << >>
         /\ \A b \in 0 .. NSec : Upto(fl, b) \in Seq(S)
         /\ \A b \in 1 .. NSec : Upto(fl, b) = Upto(fl, b - 1) \o fl[b]
<1>1. NSec \in Nat /\ \A s \in 1 .. NSec : fl[s] \in Seq(S)
  BY DlogConstants DEF Sectors
<1> QED BY <1>1, GlueIs

(* Where the units that stay are found in order, the text without the others is inside. *)
LEMMA WithoutInside ==
  ASSUME NEW S, NEW s \in Seq(S), NEW u \in Seq(S), NEW lines,
         NEW e \in [1 .. Len(s) -> Nat],
         \A i, j \in 1 .. Len(s) : i < j => e[i] < e[j],
         \A i \in 1 .. Len(s) : s[i][1] \notin lines => e[i] \in 1 .. Len(u) /\ u[e[i]] = s[i]
  PROVE  Without(s, lines) \in Seq(S) /\ Inside(Without(s, lines), u)
<1> DEFINE n == Len(s)
           l == Len(u)
           Gone(i) == s[i][1] \in lines
           fl == [i \in 1 .. n |-> IF Gone(i) THEN << >> ELSE <<s[i]>>]
           Stay(b, m) == \A i \in 1 .. b : ~Gone(i) => e[i] <= m
           Found(b) == \A m \in 0 .. l : Stay(b, m) => Inside(Upto(fl, b), SubSeq(u, 1, m))
           T == {b \in 0 .. n : ~Found(b)}
<1>1. n \in Nat /\ l \in Nat /\ \A i \in 1 .. n : s[i] \in S
  OBVIOUS
<1>2. \A i \in 1 .. n : fl[i] \in Seq(S) /\ fl[i] = IF Gone(i) THEN << >> ELSE <<s[i]>>
  <2> HIDE DEF n
  <2> QED BY <1>1
<1>3. /\ Upto(fl, 0) = << >>
      /\ \A b \in 0 .. n : Upto(fl, b) \in Seq(S)
      /\ \A b \in 1 .. n : Upto(fl, b) = Upto(fl, b - 1) \o fl[b]
  <2>1. n \in Nat /\ \A i \in 1 .. n : fl[i] \in Seq(S)
    BY <1>1, <1>2
  <2> HIDE DEF fl, n, l, Gone, Stay, Found, T
  <2> QED BY ONLY <2>1, GlueIs
<1>4. ASSUME NEW m \in 0 .. l PROVE SubSeq(u, 1, m) \in Seq(S) /\ Len(SubSeq(u, 1, m)) = m
  <2>1. \A i \in 1 .. m : u[i] \in S
    BY <1>1
  <2> QED BY <1>1, <2>1, SubSeqProperties
<1>5. T = {}
  <2> SUFFICES ASSUME T # {} PROVE FALSE
    OBVIOUS
  <2>1. T \subseteq Nat
    BY <1>1
  <2>2. PICK x \in T : \A y \in T : x <= y
    <3> HIDE DEF T
    <3> QED BY <2>1, LowestExists
  <2>3. x \in 0 .. n /\ ~Found(x)
    BY <2>2
  <2>4. x # 0
    <3>1. Found(0)
      BY <1>3, <1>4, InsideNothing
    <3> QED BY <2>3, <3>1
  <2>5. x \in 1 .. n /\ x - 1 \in 0 .. n /\ ~(x <= x - 1)
    BY <1>1, <2>3, <2>4
  <2>6. Found(x - 1)
    <3>1. x - 1 \notin T
      <4> HIDE DEF T
      <4> QED BY <2>2, <2>5
    <3> HIDE DEF Found
    <3> QED BY <2>5, <3>1
  <2>7. PICK m \in 0 .. l : Stay(x, m) /\ ~Inside(Upto(fl, x), SubSeq(u, 1, m))
    <3> HIDE DEF Stay
    <3> QED BY <2>3
  <2> DEFINE p == Upto(fl, x - 1)
  <2>8. p \in Seq(S) /\ Upto(fl, x) = p \o fl[x]
    <3> HIDE DEF fl
    <3> QED BY <1>3, <2>5
  <2>9. fl[x] = IF Gone(x) THEN << >> ELSE <<s[x]>>
    BY <1>2, <2>5
  <2> HIDE DEF p, fl
  <2>10. CASE Gone(x)
    <3>1. Stay(x - 1, m)
      BY <2>5, <2>7
    <3>2. Inside(p, SubSeq(u, 1, m))
      <4> HIDE DEF Stay
      <4> QED BY <2>6, <2>7, <3>1 DEF p
    <3>3. Upto(fl, x) = p
      BY <2>8, <2>9, <2>10, ConcatEmptySeq
    <3> QED BY <2>7, <3>2, <3>3
  <2>11. CASE ~Gone(x)
    <3> DEFINE k == e[x]
               v == SubSeq(u, 1, k - 1)
               w == SubSeq(u, k, m)
    <3>1. k \in 1 .. l /\ u[k] = s[x] /\ k <= m /\ k \in Nat
      BY <2>5, <2>7, <2>11
    <3>2. k - 1 \in 0 .. l /\ k \in 1 .. m /\ m \in 0 .. l
      BY <1>1, <2>7, <3>1
    <3>3. Stay(x - 1, k - 1)
      <4> SUFFICES ASSUME NEW i \in 1 .. x - 1, ~Gone(i) PROVE e[i] <= k - 1
        OBVIOUS
      <4>1. i \in 1 .. n /\ i < x
        BY <1>1, <2>5
      <4>2. e[i] < e[x] /\ e[i] \in Nat
        BY <2>5, <4>1
      <4> QED BY <3>1, <4>2
    <3>4. Inside(p, v)
      <4> HIDE DEF Stay
      <4> QED BY <2>6, <3>2, <3>3 DEF p
    <3> HIDE DEF k
    <3>5. v \in Seq(S) /\ w \in Seq(S) /\ Len(w) = m - k + 1 /\ w[1] = u[k]
      <4>1. \A i \in k .. m : u[i] \in S
        BY <1>1, <3>2
      <4>2. w \in Seq(S) /\ Len(w) = (IF k <= m THEN m - k + 1 ELSE 0)
            /\ \A i \in 1 .. m - k + 1 : w[i] = u[k + i - 1]
        BY <3>2, <4>1, SubSeqProperties
      <4>3. 1 \in 1 .. m - k + 1 /\ k + 1 - 1 = k
        BY <3>2
      <4>4. v \in Seq(S)
        BY <1>4, <3>2
      <4> HIDE DEF v, w
      <4> QED BY <3>1, <4>2, <4>3, <4>4
    <3>6. v \o w = SubSeq(u, 1, m)
      <4>1. 1 \in 1 .. Len(u) + 1 /\ k - 1 \in 1 - 1 .. Len(u) /\ m \in k - 1 .. Len(u)
            /\ (k - 1) + 1 = k
        BY <1>1, <3>2
      <4> QED BY <4>1, ConcatAdjacentSubSeq
    <3> HIDE DEF v, w
    <3>7. Inside(<<s[x]>>, w)
      <4> DEFINE one == [i \in 1 .. 1 |-> 1]
      <4>1. 1 \in 1 .. Len(w) /\ Len(<<s[x]>>) = 1 /\ <<s[x]>>[1] = w[1]
        BY <3>1, <3>2, <3>5
      <4>2. Embeds(one, <<s[x]>>, w)
        BY <4>1 DEF Embeds
      <4> QED BY <4>2 DEF Inside
    <3>8. <<s[x]>> \in Seq(S)
      BY <1>1, <2>5
    <3>9. Inside(p \o <<s[x]>>, v \o w)
      BY <2>8, <3>4, <3>5, <3>7, <3>8, InsideConcat
    <3>10. Upto(fl, x) = p \o <<s[x]>>
      BY <2>8, <2>9, <2>11
    <3> QED BY <2>7, <3>6, <3>9, <3>10
  <2> QED BY <2>10, <2>11
<1>6. Found(n)
  <2> HIDE DEF Found
  <2> QED BY <1>1, <1>5
<1>7. Stay(n, l)
  BY <1>1
<1>8. Without(s, lines) = Upto(fl, n)
  <2>1. [i \in 1 .. n |-> fl[i]] = fl
    OBVIOUS
  <2> QED BY <2>1 DEF Without, Upto
<1>9. SubSeq(u, 1, l) = u
  BY SubSeqFull
<1>10. n \in 0 .. n /\ l \in 0 .. l
  BY <1>1
<1>11. Inside(Upto(fl, n), SubSeq(u, 1, l))
  <2> HIDE DEF Stay, fl, n, l
  <2> QED BY <1>6, <1>7, <1>10
<1>12. Upto(fl, n) \in Seq(S)
  <2> HIDE DEF fl, n
  <2> QED BY <1>3, <1>10
<1> QED BY <1>8, <1>9, <1>11, <1>12

LEMMA UptoGrows ==
  ASSUME NEW S, NEW fl, \A s \in Sectors : fl[s] \in Seq(S),
         NEW a \in 0 .. NSec, NEW b \in a .. NSec
  PROVE  Inside(Upto(fl, a), Upto(fl, b))
<1> DEFINE T == {m \in a .. NSec : ~Inside(Upto(fl, a), Upto(fl, m))}
<1>1. NSec \in Nat /\ a \in Nat /\ Upto(fl, a) \in Seq(S)
  <2>1. \A m \in 0 .. NSec : Upto(fl, m) \in Seq(S)
    BY UptoIs
  <2> QED BY <2>1, DlogConstants
<1> SUFFICES ASSUME T # {} PROVE FALSE
  OBVIOUS
<1>2. T \subseteq Nat
  BY <1>1
<1>3. PICK x \in T : \A y \in T : x <= y
  <2> HIDE DEF T
  <2> QED BY <1>2, LowestExists
<1>4. x \in a .. NSec /\ ~Inside(Upto(fl, a), Upto(fl, x))
  BY <1>3
<1>5. x # a
  BY <1>1, <1>4, InsideItself
<1>6. x - 1 \in a .. NSec /\ x - 1 \in 0 .. NSec /\ x \in 1 .. NSec /\ x \in Sectors
      /\ ~(x <= x - 1)
  BY <1>1, <1>4, <1>5 DEF Sectors
<1>7. Inside(Upto(fl, a), Upto(fl, x - 1))
  <2>1. x - 1 \notin T
    <3> HIDE DEF T
    <3> QED BY <1>3, <1>6
  <2> QED BY <1>6, <2>1
<1>8. Upto(fl, x) = Upto(fl, x - 1) \o fl[x] /\ Upto(fl, x - 1) \in Seq(S) /\ fl[x] \in Seq(S)
  BY <1>6, UptoIs
<1> DEFINE u == Upto(fl, x - 1)
           v == Upto(fl, a)
<1>9. Inside(v \o << >>, u \o fl[x])
  <2>1. << >> \in Seq(S) /\ Inside(<< >>, fl[x])
    BY <1>8, InsideNothing, EmptySeq
  <2> HIDE DEF T
  <2> QED BY <1>1, <1>7, <1>8, <2>1, InsideConcat
<1>10. v \o << >> = v
  BY <1>1, ConcatEmptySeq
<1> QED BY <1>4, <1>8, <1>9, <1>10

-----------------------------------------------------------------------------
(* A first-come search for s in t finds it where it is inside. *)

Searches(f, s, t, k) ==
  /\ f \in [0 .. Len(t) -> 0 .. Len(s)]
  /\ f[0] = 0
  /\ \A j \in 1 .. k :
       f[j] = IF f[j - 1] < Len(s) /\ s[f[j - 1] + 1] = t[j] THEN f[j - 1] + 1 ELSE f[j - 1]

LEMMA SearchExists ==
  ASSUME NEW S, NEW s \in Seq(S), NEW t \in Seq(S)
  PROVE  \E f : Searches(f, s, t, Len(t))
<1> DEFINE n == Len(t)
           l == Len(s)
           T == {k \in 0 .. n : ~ \E f : Searches(f, s, t, k)}
<1>1. n \in Nat /\ l \in Nat
  OBVIOUS
<1> SUFFICES ASSUME T # {} PROVE FALSE
  BY <1>1
<1>2. T \subseteq Nat
  BY <1>1
<1>3. PICK x \in T : \A y \in T : x <= y
  <2> HIDE DEF T
  <2> QED BY <1>2, LowestExists
<1>4. x \in 0 .. n /\ ~ \E f : Searches(f, s, t, x)
  BY <1>3
<1>5. CASE x = 0
  <2>1. Searches([j \in 0 .. n |-> 0], s, t, 0)
    BY <1>1 DEF Searches
  <2> QED BY <1>4, <1>5, <2>1
<1>6. CASE x # 0
  <2>1. x - 1 \in 0 .. n /\ x - 1 \notin T /\ x \in 1 .. n
    <3>1. x - 1 \in 0 .. n /\ x \in 1 .. n /\ ~(x <= x - 1)
      BY <1>1, <1>4, <1>6
    <3> HIDE DEF T
    <3> QED BY <1>3, <3>1
  <2>2. PICK g : Searches(g, s, t, x - 1)
    BY <2>1
  <2> DEFINE v == IF g[x - 1] < l /\ s[g[x - 1] + 1] = t[x] THEN g[x - 1] + 1 ELSE g[x - 1]
             h == [g EXCEPT ![x] = v]
  <2>3. v \in 0 .. l
    <3>1. g[x - 1] \in 0 .. l
      BY <2>1, <2>2 DEF Searches
    <3> QED BY <1>1, <3>1
  <2>4. h \in [0 .. n -> 0 .. l] /\ h[x] = v /\ \A i \in 0 .. n : i # x => h[i] = g[i]
    <3> HIDE DEF v
    <3> QED BY <1>4, <2>2, <2>3 DEF Searches
  <2> HIDE DEF h
  <2>5. h[0] = 0
    BY <1>1, <1>6, <2>2, <2>4 DEF Searches
  <2>6. ASSUME NEW j \in 1 .. x
        PROVE  h[j] = IF h[j - 1] < l /\ s[h[j - 1] + 1] = t[j] THEN h[j - 1] + 1 ELSE h[j - 1]
    <3>1. j \in Int /\ x \in Int /\ j - 1 \in 0 .. n /\ j \in 0 .. n /\ j - 1 # x
      BY <1>1, <1>4
    <3>2. h[j - 1] = g[j - 1]
      BY <2>4, <3>1
    <3>3. CASE j = x
      BY <2>4, <3>2, <3>3
    <3>4. CASE j # x
      <4>1. j \in 1 .. x - 1
        BY <1>4, <3>1, <3>4
      <4>2. g[j] = IF g[j - 1] < l /\ s[g[j - 1] + 1] = t[j] THEN g[j - 1] + 1 ELSE g[j - 1]
        BY <2>2, <4>1 DEF Searches
      <4>3. h[j] = g[j]
        BY <2>4, <3>1, <3>4
      <4> QED BY <3>2, <4>2, <4>3
    <3> QED BY <3>3, <3>4
  <2>7. Searches(h, s, t, x)
    BY <2>4, <2>5, <2>6 DEF Searches
  <2> QED BY <1>4, <2>7
<1> QED BY <1>5, <1>6

LEMMA SearchFinds ==
  ASSUME NEW S, NEW s \in Seq(S), NEW t \in Seq(S), NEW f, Searches(f, s, t, Len(t)), Inside(s, t)
  PROVE  f[Len(t)] = Len(s)
<1> DEFINE n == Len(t)
           l == Len(s)
<1>1. n \in Nat /\ l \in Nat
  OBVIOUS
<1>2. PICK g : Embeds(g, s, t)
  BY DEF Inside
<1>3. /\ g \in [1 .. l -> 1 .. n]
      /\ \A i, j \in 1 .. l : i < j => g[i] < g[j]
      /\ \A i \in 1 .. l : s[i] = t[g[i]]
  BY <1>2 DEF Embeds
<1>4. /\ f \in [0 .. n -> 0 .. l]
      /\ f[0] = 0
      /\ \A j \in 1 .. n :
           f[j] = IF f[j - 1] < l /\ s[f[j - 1] + 1] = t[j] THEN f[j - 1] + 1 ELSE f[j - 1]
  BY DEF Searches
<1> HIDE DEF n, l
<1> DEFINE T == {k \in 0 .. n : \E i \in 1 .. l : g[i] <= k /\ f[k] < i}
<1>5. T = {}
  <2> SUFFICES ASSUME T # {} PROVE FALSE
    OBVIOUS
  <2>1. T \subseteq Nat
    BY <1>1
  <2>2. PICK x \in T : \A y \in T : x <= y
    <3> HIDE DEF T
    <3> QED BY <2>1, LowestExists
  <2>3. PICK i \in 1 .. l : g[i] <= x /\ f[x] < i
    BY <2>2
  <2>4. x \in 0 .. n /\ g[i] \in 1 .. n /\ i \in Nat /\ x \in Nat
    BY <1>1, <1>3, <2>2
  <2>5. x \in 1 .. n /\ x - 1 \in 0 .. n /\ ~(x <= x - 1)
    BY <1>1, <2>3, <2>4
  <2>6. x - 1 \notin T
    <3> HIDE DEF T
    <3> QED BY <2>2, <2>5
  <2> DEFINE m == f[x - 1]
  <2>7. m \in 0 .. l /\ f[x] = IF m < l /\ s[m + 1] = t[x] THEN m + 1 ELSE m
    BY <1>4, <2>5
  <2>8. \A j \in 1 .. l : g[j] <= x - 1 => m >= j
    <3> SUFFICES ASSUME NEW j \in 1 .. l, g[j] <= x - 1, ~(m >= j) PROVE FALSE
      OBVIOUS
    <3>1. f[x - 1] < j
      BY <1>1, <2>7
    <3> QED BY <2>5, <2>6, <3>1
  <2> HIDE DEF m, T
  <2>9. f[x] >= m /\ f[x] \in Nat /\ m \in Nat
    BY <1>1, <2>7
  <2>10. g[i] = x
    <3>1. ~(g[i] <= x - 1)
      BY <2>3, <2>4, <2>8, <2>9
    <3> QED BY <2>3, <2>4, <3>1
  <2>11. m >= i - 1
    <3>1. CASE i = 1
      BY <2>9, <3>1
    <3>2. CASE i # 1
      <4>1. i - 1 \in 1 .. l /\ i - 1 < i
        BY <1>1, <2>4, <3>2
      <4>2. g[i - 1] < g[i] /\ g[i - 1] \in 1 .. n
        BY <1>3, <4>1
      <4>3. g[i - 1] <= x - 1
        BY <1>1, <2>4, <2>10, <4>2
      <4> QED BY <2>8, <4>1, <4>3
    <3> QED BY <3>1, <3>2
  <2>12. m = i - 1
    BY <2>3, <2>4, <2>9, <2>11
  <2>13. m < l /\ m + 1 = i
    BY <1>1, <2>4, <2>12
  <2>14. s[m + 1] = t[x]
    BY <1>3, <2>10, <2>13
  <2>15. f[x] = i
    BY <2>7, <2>13, <2>14
  <2> QED BY <2>3, <2>4, <2>15
<1>6. CASE l = 0
  <2>1. f[n] \in 0 .. l
    BY <1>1, <1>4
  <2> QED BY <1>6, <2>1 DEF n, l
<1>7. CASE l # 0
  <2>1. l \in 1 .. l /\ n \in 0 .. n
    BY <1>1, <1>7
  <2>2. g[l] \in 1 .. n /\ f[n] \in 0 .. l
    BY <1>3, <1>4, <2>1
  <2>3. g[l] <= n /\ ~(f[n] < l)
    BY <1>1, <1>5, <2>1, <2>2
  <2>4. f[n] = l
    BY <1>1, <2>2, <2>3
  <2> QED BY <2>4 DEF n, l
<1> QED BY <1>6, <1>7

(* NothingVanishes is that what the log answers for is inside Log. *)
LEMMA InsideIsKept ==
  ASSUME NEW S, answer.for \in Seq(S), Log \in Seq(S), Inside(answer.for, Log)
  PROVE  NothingVanishes
<1> DEFINE s == answer.for
           t == Log
           Body(f) == [j \in 0 .. Len(t) |->
                         IF j = 0 THEN 0
                         ELSE IF f[j - 1] < Len(s) /\ s[f[j - 1] + 1] = t[j]
                                THEN f[j - 1] + 1 ELSE f[j - 1]]
           found == CHOOSE f : f = Body(f)
<1>1. PICK g : Searches(g, s, t, Len(t))
  BY SearchExists
<1>2. Len(t) \in Nat
  OBVIOUS
<1>3. g = Body(g)
  <2>1. \A j \in 0 .. Len(t) : g[j] = Body(g)[j]
    BY <1>1, <1>2 DEF Searches
  <2> QED BY <1>1, <2>1 DEF Searches
<1>4. found = Body(found)
  <2> HIDE DEF Body
  <2> QED BY <1>3
<1>5. NothingVanishes <=> found[Len(t)] = Len(s)
  BY DEF NothingVanishes
<1> HIDE DEF found, s, t
<1>6. found = [j \in 0 .. Len(t) |->
                         IF j = 0 THEN 0
                         ELSE IF found[j - 1] < Len(s) /\ s[found[j - 1] + 1] = t[j]
                                THEN found[j - 1] + 1 ELSE found[j - 1]]
  BY <1>4
<1> HIDE DEF Body
<1> DEFINE T == {k \in 0 .. Len(t) : found[k] # g[k]}
<1>7. T = {}
  <2> SUFFICES ASSUME T # {} PROVE FALSE
    OBVIOUS
  <2>1. T \subseteq Nat
    BY <1>2
  <2>2. PICK x \in T : \A y \in T : x <= y
    <3> HIDE DEF T
    <3> QED BY <2>1, LowestExists
  <2>3. x \in 0 .. Len(t) /\ found[x] # g[x]
    BY <2>2
  <2>4. x # 0
    BY <1>1, <1>2, <1>6, <2>3 DEF Searches
  <2>5. x - 1 \in 0 .. Len(t) /\ ~(x <= x - 1) /\ x \in 1 .. Len(t)
    BY <1>2, <2>3, <2>4
  <2>6. found[x - 1] = g[x - 1]
    <3>1. x - 1 \notin T
      <4> HIDE DEF T
      <4> QED BY <2>2, <2>5
    <3> QED BY <2>5, <3>1
  <2>7. g[x] = IF g[x - 1] < Len(s) /\ s[g[x - 1] + 1] = t[x] THEN g[x - 1] + 1 ELSE g[x - 1]
    BY <1>1, <2>5 DEF Searches
  <2>8. found[x] = IF found[x - 1] < Len(s) /\ s[found[x - 1] + 1] = t[x]
                     THEN found[x - 1] + 1 ELSE found[x - 1]
    BY <1>6, <2>3, <2>4
  <2> QED BY <2>3, <2>6, <2>7, <2>8
<1>8. found[Len(t)] = g[Len(t)]
  BY <1>2, <1>7
<1>9. g[Len(t)] = Len(s)
  BY <1>1, SearchFinds DEF s, t
<1> QED BY <1>5, <1>8, <1>9 DEF s, t

-----------------------------------------------------------------------------
(* The types of the log *)

Texts == Seq(Units)
States == {"off", "failed", "wiping", "ready", "active"}
Points == {"no", "say", "look", "fill", "sector", "rest", "full"}
Versions == [from : Nat, to : Nat, lost : Nat]
Drams == [held : Texts, lost : Nat, past : Texts, older : SUBSET Versions]
Logs == [state : States, sec : Sectors, cur : Texts, taken : Nat, dirty : BOOLEAN,
         full : BOOLEAN, abandoned : BOOLEAN, wipe : 0 .. NSec]

\* The end of what is filled in is the beginning of what is held.
Shared(cur, n, held) == \A i \in 1 .. n : cur[Len(cur) - n + i] = held[i]

LogTypes ==
  /\ dram \in Drams /\ Len(dram.held) <= RingSize
  /\ dlog \in Logs
  /\ Len(dlog.cur) <= SecSize /\ dlog.taken <= Len(dram.held) /\ dlog.taken <= Len(dlog.cur)
  /\ Shared(dlog.cur, dlog.taken, dram.held)
  /\ flush \in [at : Points, force : BOOLEAN, left : Nat]
  /\ file \in [Sectors -> Texts] /\ \A s \in Sectors : Len(file[s]) <= SecSize
  /\ answer \in [for : Texts, lines : 0 .. MaxLines, boots : Nat, foreign : BOOLEAN]

LogPlaces ==
  /\ dlog.dirty => dlog.cur # Pad
  /\ dlog.state = "wiping" => dlog.sec <= dlog.wipe
  /\ flush.at \in {"sector", "rest"} => dlog.sec < NSec /\ dlog.cur # Pad
  /\ flush.at = "full" => dlog.sec = NSec /\ dlog.cur # Pad /\ dlog.taken = 0

LogInv == LogTypes /\ LogPlaces

LEMMA UnitsAre ==
  /\ Pad \in Texts /\ Len(Pad) = 0
  /\ Foreign \in Texts /\ Len(Foreign) = 1
  /\ FullMsg \in Texts /\ Len(FullMsg) = 2 /\ FullMsg # Pad
  /\ CutEnd \in Units
  /\ \A n \in 1 .. MaxLines : Line(n) \in Texts /\ Len(Line(n)) = 2
<1>1. MaxLines \in Nat
  BY DlogConstants
<1>2. OldText \in Units /\ Text(0) \in Units /\ End(0) \in Units
      /\ \A n \in 1 .. MaxLines : Text(n) \in Units /\ End(n) \in Units
  BY <1>1 DEF OldText, Text, End, Units
<1> QED BY <1>2 DEF Pad, Foreign, FullMsg, CutEnd, Line, Texts

LEMMA EmptyIs == Empty \in Drams /\ Empty.held = << >> /\ Len(Empty.held) <= RingSize
<1>1. << >> \in Texts /\ Len(<< >>) = 0 /\ 0 <= RingSize
  BY UnitsAre, DlogConstants DEF Pad
<1> QED BY <1>1 DEF Empty, Drams

LEMMA RestsAre ==
  /\ Off \in Logs /\ Off.sec = 1 /\ Off.cur = Pad /\ Off.taken = 0 /\ Off.dirty = FALSE
  /\ Off.state = "off" /\ Off.abandoned = FALSE
  /\ Resting \in [at : Points, force : BOOLEAN, left : Nat] /\ Resting.at = "no"
<1>1. 1 \in Sectors /\ 0 \in 0 .. NSec
  BY DlogConstants DEF Sectors
<1> QED BY <1>1, UnitsAre DEF Off, Resting, Logs, Points, States

LEMMA NextSector ==
  ASSUME NEW s \in Sectors, s < NSec
  PROVE  s + 1 \in Sectors /\ (s + 1) - 1 = s /\ s \in 0 .. NSec
BY DlogConstants DEF Sectors

(* The ring *)

LEMMA VersionIs ==
  ASSUME dram \in Drams
  PROVE  /\ Version \in Versions /\ Version.lost = dram.lost
         /\ Version.from = Len(dram.past) /\ Version.to = Len(dram.past) + Len(dram.held)
         /\ Len(dram.past) \in Nat /\ Len(dram.held) \in Nat
         /\ dram.older \union {Version} \in SUBSET Versions
<1>1. Len(dram.past) \in Nat /\ Len(dram.held) \in Nat /\ dram.lost \in Nat
  BY LenProperties DEF Drams, Texts
<1>2. Version \in Versions
  <2> DEFINE a == Len(dram.past)
             b == Len(dram.held)
             c == dram.lost
  <2>1. a \in Nat /\ b \in Nat /\ c \in Nat
    BY <1>1
  <2>2. Version = [from |-> a, to |-> a + b, lost |-> c]
    BY DEF Version
  <2> HIDE DEF a, b, c
  <2>3. a + b \in Nat
    BY <2>1
  <2> QED BY <2>1, <2>2, <2>3 DEF Versions
<1> QED BY <1>1, <1>2 DEF Version, Drams

LEMMA PutIs ==
  ASSUME dram \in Drams, Len(dram.held) <= RingSize, NEW text \in Texts
  PROVE  LET d == Put(text)
         IN  /\ d \in Drams /\ Len(d.held) <= RingSize
             /\ d.past = dram.past /\ d.older = dram.older \union {Version}
             /\ \/ Len(text) > RingSize - Len(dram.held) /\ d.held = dram.held
                \/ ~(Len(text) > RingSize - Len(dram.held)) /\ d.held = dram.held \o text
<1> DEFINE full == Len(text) > Room
           h == IF full THEN dram.held ELSE dram.held \o text
           n == IF full THEN dram.lost + 1 ELSE dram.lost
           o == dram.older \union {Version}
           d == Put(text)
<1>1. /\ dram.held \in Texts /\ dram.lost \in Nat /\ RingSize \in Nat /\ Len(dram.held) \in Nat
      /\ Len(text) \in Nat /\ dram.held \o text \in Texts
      /\ Len(dram.held \o text) = Len(dram.held) + Len(text)
  BY DlogConstants, ConcatProperties DEF Drams, Texts
<1>2. o \in SUBSET Versions
  BY VersionIs
<1>3. h \in Texts /\ n \in Nat
  <2> HIDE DEF full
  <2> QED BY <1>1
<1>4. Len(h) <= RingSize
  BY <1>1 DEF Room
<1>5. d = [dram EXCEPT !.held = h, !.lost = n, !.older = o]
  BY DEF Put, Drams
<1>6. /\ full => h = dram.held /\ Len(text) > RingSize - Len(dram.held)
      /\ ~full => h = dram.held \o text /\ ~(Len(text) > RingSize - Len(dram.held))
  BY DEF Room
<1> HIDE DEF h, n, o, d
<1>7. d \in Drams /\ d.held = h /\ d.past = dram.past /\ d.older = o
  BY <1>2, <1>3, <1>5 DEF Drams
<1> HIDE DEF full
<1> QED BY <1>4, <1>6, <1>7 DEF d, o

LEMMA SharedGrows ==
  ASSUME NEW cur, NEW n \in Nat, NEW held \in Texts, NEW text \in Texts, n <= Len(held),
         Shared(cur, n, held)
  PROVE  Shared(cur, n, held \o text) /\ n <= Len(held \o text)
<1>1. \A i \in 1 .. n : (held \o text)[i] = held[i]
  BY ConcatProperties DEF Texts
<1>2. Len(held \o text) = Len(held) + Len(text) /\ Len(held) \in Nat /\ Len(text) \in Nat
  BY DEF Texts
<1> QED BY <1>1, <1>2 DEF Shared

(* A line is put: it is held, and answered for, where there is room for it. *)
Puts(text) ==
  \/ dram'.held = dram.held /\ answer'.for = answer.for
  \/ dram'.held = dram.held \o text /\ answer'.for = answer.for \o text

LEMMA AnsweredTyped ==
  ASSUME LogTypes, answer.lines < MaxLines
  PROVE  LET text == Line(answer.lines + 1)
             a == Answered(text)
         IN  /\ text \in Texts /\ Len(text) \in Nat
             /\ a \in [for : Texts, lines : 0 .. MaxLines, boots : Nat, foreign : BOOLEAN]
             /\ a.for = IF Len(text) > RingSize - Len(dram.held)
                             THEN answer.for ELSE answer.for \o text
<1> DEFINE n == answer.lines + 1
           text == Line(n)
           f == IF Len(text) > Room THEN answer.for ELSE answer.for \o text
<1>1. answer \in [for : Texts, lines : 0 .. MaxLines, boots : Nat, foreign : BOOLEAN]
  BY DEF LogTypes
<1>2. n \in 1 .. MaxLines /\ n \in 0 .. MaxLines
  BY <1>1, DlogConstants
<1>3. text \in Texts /\ Len(text) \in Nat
  BY <1>2, UnitsAre
<1> HIDE DEF n
<1>4. Answered(text) = [answer EXCEPT !.lines = n, !.for = f]
  BY <1>1 DEF Answered, n
<1>5. f \in Texts
  BY <1>1, <1>3, ConcatProperties DEF Texts
<1>6. f = IF Len(text) > RingSize - Len(dram.held)
                THEN answer.for ELSE answer.for \o text
  BY DEF Room
<1> HIDE DEF f, text
<1>7. /\ Answered(text) \in [for : Texts, lines : 0 .. MaxLines, boots : Nat, foreign : BOOLEAN]
      /\ Answered(text).for = f
  BY <1>1, <1>2, <1>4, <1>5
<1> QED BY <1>3, <1>6, <1>7 DEF text, n

LEMMA PutsTyped ==
  ASSUME LogInv, NEW text \in Texts, Puts(text),
         dram' \in Drams, Len(dram'.held) <= RingSize,
         answer' \in [for : Texts, lines : 0 .. MaxLines, boots : Nat, foreign : BOOLEAN],
         dlog' = dlog, file' = file,
         \/ flush' = flush
         \/ flush' \in [at : {"no", "say", "look", "fill"}, force : BOOLEAN, left : Nat]
  PROVE  LogInv'
<1>1. Shared(dlog.cur, dlog.taken, dram'.held) /\ dlog.taken <= Len(dram'.held)
  <2>1. dlog.taken \in Nat /\ dram.held \in Texts
    BY DEF LogInv, LogTypes, Logs, Drams
  <2>2. dlog.taken <= Len(dram.held) /\ Shared(dlog.cur, dlog.taken, dram.held)
    BY DEF LogInv, LogTypes
  <2>3. CASE dram'.held = dram.held
    BY <2>2, <2>3
  <2>4. CASE dram'.held = dram.held \o text
    <3>1. /\ Shared(dlog.cur, dlog.taken, dram.held \o text)
          /\ dlog.taken <= Len(dram.held \o text)
      BY <2>1, <2>2, SharedGrows
    <3> QED BY <2>4, <3>1
  <2> QED BY <2>3, <2>4 DEF Puts
<1>2. flush' \in [at : Points, force : BOOLEAN, left : Nat]
  BY DEF LogInv, LogTypes, Points
<1>3. LogTypes'
  BY <1>1, <1>2 DEF LogInv, LogTypes
<1>4. LogPlaces'
  BY DEF LogInv, LogPlaces
<1> QED BY <1>3, <1>4 DEF LogInv

LEMMA PrintfTyped ==
  ASSUME LogInv, NEW who \in Callers, DlogPrintf(who)
  PROVE  LogInv' /\ \E text \in Texts : Puts(text)
<1> DEFINE text == Line(answer.lines + 1)
<1>1. /\ dram' = Put(text) /\ answer' = Answered(text) /\ answer.lines < MaxLines
      /\ dlog' = dlog /\ file' = file
      /\ flush' = IF who = "main" /\ flush.at = "say" THEN [flush EXCEPT !.at = "look"] ELSE flush
  BY DEF DlogPrintf
<1>2. /\ text \in Texts /\ Len(text) \in Nat
      /\ answer' \in [for : Texts, lines : 0 .. MaxLines, boots : Nat, foreign : BOOLEAN]
      /\ answer'.for = IF Len(text) > RingSize - Len(dram.held)
                      THEN answer.for ELSE answer.for \o text
  BY <1>1, AnsweredTyped DEF LogInv
<1> HIDE DEF text
<1>3. /\ dram' \in Drams /\ Len(dram'.held) <= RingSize
      /\ \/ Len(text) > RingSize - Len(dram.held) /\ dram'.held = dram.held
         \/ ~(Len(text) > RingSize - Len(dram.held)) /\ dram'.held = dram.held \o text
  BY <1>1, <1>2, PutIs DEF LogInv, LogTypes
<1>4. Puts(text)
  BY <1>2, <1>3 DEF Puts
<1>5. \/ flush' = flush
      \/ flush' \in [at : {"no", "say", "look", "fill"}, force : BOOLEAN, left : Nat]
  BY <1>1 DEF LogInv, LogTypes
<1> QED BY <1>1, <1>2, <1>3, <1>4, <1>5, PutsTyped

LEMMA PushTyped ==
  ASSUME LogInv, NEW who \in Callers, PushIndices(who) \/ PushLine(who)
  PROVE  /\ LogInv' /\ dram'.held = dram.held /\ dlog' = dlog /\ file' = file /\ answer' = answer
<1> DEFINE past == << >>
           older == {}
<1>1. /\ dlog' = dlog /\ file' = file /\ answer' = answer /\ flush' = flush
      /\ \/ dram' = [dram EXCEPT !.past = past, !.older = older]
         \/ dram' = dram
  BY DEF PushIndices, PushLine
<1>2. past \in Texts /\ older \in SUBSET Versions
  BY DEF Texts
<1> HIDE DEF past, older
<1>3. dram' \in Drams /\ dram'.held = dram.held
  BY <1>1, <1>2 DEF LogInv, LogTypes, Drams
<1> QED BY <1>1, <1>3 DEF LogInv, LogTypes, LogPlaces

LEMMA PollTyped ==
  ASSUME LogInv, DlogPoll \/ DlogPollLooks
  PROVE  /\ LogInv' /\ dlog' = dlog /\ file' = file /\ answer' = answer
         /\ dram'.held = dram.held /\ dram'.past = dram.past
         /\ \/ dram' = dram
            \/ dram'.older = dram.older \union {Version}
<1> DEFINE Started == [at : {"no", "say", "look", "fill"}, force : BOOLEAN, left : Nat]
<1>1. dram \in Drams /\ MaxFlush \in Nat
  BY DlogConstants DEF LogInv, LogTypes
<1>2. dlog' = dlog /\ file' = file /\ answer' = answer
  BY DEF DlogPoll, DlogPollLooks
<1>3. CASE DlogPoll
  <2> DEFINE none == 0
             o == dram.older \union {Version}
  <2>1. /\ dram' = IF dram.lost = 0 THEN dram ELSE [dram EXCEPT !.lost = none, !.older = o]
        /\ flush' = [Resting EXCEPT !.at = IF dram.lost = 0 THEN "look" ELSE "say"]
    BY <1>3 DEF DlogPoll
  <2>2. o \in SUBSET Versions /\ none \in Nat
    BY <1>1, VersionIs
  <2>3. flush' \in Started
    BY <2>1 DEF Resting
  <2> HIDE DEF o, none
  <2>4. /\ dram' \in Drams /\ dram'.held = dram.held /\ dram'.past = dram.past
        /\ dram' = dram \/ dram'.older = o
    BY <1>1, <2>1, <2>2 DEF Drams
  <2>5. LogInv'
    <3>1. Pad \in Texts /\ Puts(Pad) /\ Len(dram'.held) <= RingSize
      BY <1>2, <2>4, UnitsAre DEF Puts, LogInv, LogTypes
    <3> QED BY <1>2, <2>3, <2>4, <3>1, PutsTyped DEF LogInv, LogTypes
  <2> QED BY <1>2, <2>4, <2>5 DEF o
<1>4. CASE DlogPollLooks
  <2>1. flush' \in Started
    <3>1. \/ flush' = Resting
          \/ flush' = [at |-> "fill", force |-> FALSE, left |-> MaxFlush]
          \/ flush' = [at |-> "fill", force |-> TRUE, left |-> 1]
      <4> DEFINE pending == Len(dram.held) - dlog.taken
                 whole   == pending >= SecSize - Len(dlog.cur)
      <4>1. PICK aSecond \in BOOLEAN :
             flush' = CASE dlog.full -> Resting
                        [] ~dlog.full /\ whole -> [at |-> "fill", force |-> FALSE, left |-> MaxFlush]
                        [] ~dlog.full /\ ~whole /\ aSecond /\ (pending > 0 \/ dlog.dirty)
                             -> [at |-> "fill", force |-> TRUE, left |-> 1]
                        [] OTHER -> Resting
        BY <1>4 DEF DlogPollLooks
      <4> HIDE DEF pending, whole
      <4> QED BY <4>1
    <3>2. /\ [at |-> "fill", force |-> FALSE, left |-> MaxFlush] \in Started
          /\ [at |-> "fill", force |-> TRUE, left |-> 1] \in Started
          /\ Resting \in Started
      BY <1>1 DEF Resting
    <3> QED BY <3>1, <3>2
  <2>2. dram' = dram
    BY <1>4 DEF DlogPollLooks
  <2>3. LogInv'
    <3>1. Pad \in Texts /\ Puts(Pad)
      BY <1>2, <2>2, UnitsAre DEF Puts
    <3> QED BY <1>1, <1>2, <2>1, <2>2, <3>1, PutsTyped DEF LogInv, LogTypes
  <2> QED BY <1>2, <2>2, <2>3
<1> QED BY <1>3, <1>4

\* What is filled in that is not held: the card has it, or it ends a text cut off.
Safe(cur, n) == SubSeq(cur, 1, Len(cur) - n)

Splits(cur, n, held) ==
  LET shared == SubSeq(held, 1, n)
      rest   == SubSeq(held, n + 1, Len(held))
  IN  /\ Safe(cur, n) \in Texts /\ shared \in Texts /\ rest \in Texts
      /\ Len(shared) = n /\ Len(rest) = Len(held) - n
      /\ cur = Safe(cur, n) \o shared
      /\ held = shared \o rest

LEMMA SafeIs ==
  ASSUME NEW cur \in Texts, NEW held \in Texts, NEW n \in Nat, n <= Len(cur), n <= Len(held),
         Shared(cur, n, held)
  PROVE  Splits(cur, n, held)
<1> DEFINE k == Len(cur) - n
           lc == Len(cur)
           lh == Len(held)
           a == SubSeq(cur, 1, k)
           b == SubSeq(held, 1, n)
           c == SubSeq(held, n + 1, lh)
<1>1. lc \in Nat /\ lh \in Nat /\ k \in 0 .. lc /\ lc = k + n /\ n <= lh
  BY DEF Texts
<1>2. a \in Texts /\ Len(a) = k /\ \A i \in 1 .. k : a[i] = cur[i]
  <2>1. \A i \in 1 .. k : cur[i] \in Units
    <3>1. \A i \in 1 .. k : i \in 1 .. lc
      BY <1>1
    <3> QED BY <3>1, ElementOfSeq DEF Texts
  <2>2. k \in Int /\ 1 \in Int
    BY <1>1
  <2> HIDE DEF k
  <2>3. a \in Seq(Units) /\ Len(a) = (IF 1 <= k THEN k - 1 + 1 ELSE 0)
        /\ \A i \in 1 .. k - 1 + 1 : a[i] = cur[1 + i - 1]
    BY <2>1, <2>2, SubSeqProperties
  <2>4. k - 1 + 1 = k /\ \A i \in 1 .. k : 1 + i - 1 = i
    BY <2>2
  <2> QED BY <1>1, <2>3, <2>4 DEF Texts
<1>3. b \in Texts /\ Len(b) = n /\ \A i \in 1 .. n : b[i] = held[i]
  <2>1. \A i \in 1 .. n : held[i] \in Units
    <3>1. \A i \in 1 .. n : i \in 1 .. lh
      BY <1>1
    <3> QED BY <3>1, ElementOfSeq DEF Texts
  <2>3. b \in Seq(Units) /\ Len(b) = (IF 1 <= n THEN n - 1 + 1 ELSE 0)
        /\ \A i \in 1 .. n - 1 + 1 : b[i] = held[1 + i - 1]
    BY <2>1, SubSeqProperties
  <2>4. n - 1 + 1 = n /\ \A i \in 1 .. n : 1 + i - 1 = i
    OBVIOUS
  <2> QED BY <1>1, <2>3, <2>4 DEF Texts
<1>4. c \in Texts /\ Len(c) = lh - n /\ \A i \in 1 .. lh - n : c[i] = held[n + i]
  <2>1. \A i \in n + 1 .. lh : held[i] \in Units
    <3>1. \A i \in n + 1 .. lh : i \in 1 .. lh
      BY <1>1
    <3> QED BY <3>1, ElementOfSeq DEF Texts
  <2>2. n + 1 \in Int /\ lh \in Int
    BY <1>1
  <2> HIDE DEF lh
  <2>3. c \in Seq(Units) /\ Len(c) = (IF n + 1 <= lh THEN lh - (n + 1) + 1 ELSE 0)
        /\ \A i \in 1 .. lh - (n + 1) + 1 : c[i] = held[n + 1 + i - 1]
    BY <2>1, <2>2, SubSeqProperties
  <2>4. lh - (n + 1) + 1 = lh - n /\ \A i \in 1 .. lh - n : n + 1 + i - 1 = n + i
    BY <2>2
  <2> QED BY <1>1, <2>3, <2>4 DEF Texts
<1> HIDE DEF a, b, c, k, lc, lh
<1> DEFINE ab == a \o b
           bc == b \o c
<1>5. /\ ab \in Texts /\ Len(ab) = k + n
      /\ \A i \in 1 .. k + n : ab[i] = IF i <= k THEN a[i] ELSE b[i - k]
  <2>1. a \in Seq(Units) /\ b \in Seq(Units)
    BY <1>2, <1>3 DEF Texts
  <2>2. /\ ab \in Seq(Units) /\ Len(ab) = Len(a) + Len(b)
        /\ \A i \in 1 .. Len(a) + Len(b) : ab[i] = IF i <= Len(a) THEN a[i] ELSE b[i - Len(a)]
    BY <2>1, ConcatProperties
  <2> HIDE DEF ab
  <2> QED BY <1>2, <1>3, <2>2 DEF Texts
<1>6. /\ bc \in Texts /\ Len(bc) = n + (lh - n)
      /\ \A i \in 1 .. n + (lh - n) : bc[i] = IF i <= n THEN b[i] ELSE c[i - n]
  <2>1. /\ bc \in Texts /\ Len(bc) = Len(b) + Len(c)
        /\ \A i \in 1 .. Len(b) + Len(c) : bc[i] = IF i <= Len(b) THEN b[i] ELSE c[i - Len(b)]
    <3>1. b \in Seq(Units) /\ c \in Seq(Units)
      BY <1>3, <1>4 DEF Texts
    <3> QED BY <3>1, ConcatProperties DEF Texts
  <2>2. Len(b) = n /\ Len(c) = lh - n
    BY <1>3, <1>4
  <2> HIDE DEF bc
  <2> QED BY <2>1, <2>2
<1> HIDE DEF ab, bc
<1>7. cur = ab
  <2>1. \A i \in 1 .. n : cur[k + i] = held[i]
    BY <1>1 DEF Shared, k, lc
  <2>2. ASSUME NEW i \in 1 .. lc PROVE cur[i] = ab[i]
    <3>1. i \in 1 .. k + n /\ k \in Nat /\ i \in Nat
      BY <1>1
    <3>2. CASE i <= k
      <4>1. i \in 1 .. k
        BY <3>1, <3>2
      <4> QED BY <1>2, <1>5, <3>1, <3>2, <4>1
    <3>3. CASE ~(i <= k)
      <4>1. i - k \in 1 .. n /\ k + (i - k) = i
        BY <3>1, <3>3
      <4> QED BY <1>3, <1>5, <2>1, <3>1, <3>3, <4>1
    <3> QED BY <3>2, <3>3
  <2>3. Len(cur) = Len(ab) /\ Len(cur) = lc
    BY <1>1, <1>5 DEF lc
  <2> QED BY <1>5, <2>2, <2>3, SeqEqual DEF Texts
<1>8. held = bc
  <2>1. ASSUME NEW i \in 1 .. lh PROVE held[i] = bc[i]
    <3>1. i \in 1 .. n + (lh - n) /\ i \in Nat
      BY <1>1
    <3>2. CASE i <= n
      <4>1. i \in 1 .. n
        BY <3>1, <3>2
      <4> QED BY <1>3, <1>6, <3>1, <3>2, <4>1
    <3>3. CASE ~(i <= n)
      <4>1. i - n \in 1 .. lh - n /\ n + (i - n) = i
        BY <1>1, <3>1, <3>3
      <4> QED BY <1>4, <1>6, <3>1, <3>3, <4>1
    <3> QED BY <3>2, <3>3
  <2>2. Len(held) = Len(bc) /\ Len(held) = lh
    BY <1>1, <1>6 DEF lh
  <2> QED BY <1>6, <2>1, <2>2, SeqEqual DEF Texts
<1> QED BY <1>1, <1>2, <1>3, <1>4, <1>7, <1>8 DEF Splits, Safe, a, b, c, k, lc, lh, ab, bc

(* Filling in more of what is held leaves what is safe. *)
FillsIn(cur, n, m, held) ==
  LET new == cur \o SubSeq(held, n + 1, n + m)
  IN  /\ new \in Texts /\ Len(new) = Len(cur) + m
      /\ Shared(new, n + m, held)
      /\ Safe(new, n + m) = Safe(cur, n)

LEMMA FillShares ==
  ASSUME NEW cur \in Texts, NEW held \in Texts, NEW n \in Nat, n <= Len(cur), n <= Len(held),
         Shared(cur, n, held), NEW m \in Nat, n + m <= Len(held)
  PROVE  FillsIn(cur, n, m, held)
<1> DEFINE lc == Len(cur)
           lh == Len(held)
           x == SubSeq(held, n + 1, n + m)
           new == cur \o x
<1>1. lc \in Nat /\ lh \in Nat /\ n <= lc /\ n + m <= lh
  BY DEF Texts
<1>2. x \in Texts /\ Len(x) = m /\ \A i \in 1 .. m : x[i] = held[n + i]
  <2>1. \A i \in n + 1 .. n + m : held[i] \in Units
    <3>1. \A i \in n + 1 .. n + m : i \in 1 .. lh
      BY <1>1
    <3> QED BY <3>1, ElementOfSeq DEF Texts
  <2>2. n + 1 \in Int /\ n + m \in Int
    OBVIOUS
  <2>3. x \in Seq(Units) /\ Len(x) = (IF n + 1 <= n + m THEN n + m - (n + 1) + 1 ELSE 0)
        /\ \A i \in 1 .. n + m - (n + 1) + 1 : x[i] = held[n + 1 + i - 1]
    BY <2>1, <2>2, SubSeqProperties
  <2>4. n + m - (n + 1) + 1 = m /\ \A i \in 1 .. m : n + 1 + i - 1 = n + i
    OBVIOUS
  <2> QED BY <2>3, <2>4 DEF Texts
<1> HIDE DEF lc, lh, x
<1>3. /\ new \in Texts /\ Len(new) = lc + m
      /\ \A i \in 1 .. lc + m : new[i] = IF i <= lc THEN cur[i] ELSE x[i - lc]
  BY <1>2, ConcatProperties DEF Texts, lc
<1> HIDE DEF new
<1>4. ASSUME NEW i \in 1 .. n + m PROVE new[(lc + m) - (n + m) + i] = held[i]
  <2>1. (lc + m) - (n + m) + i = lc - n + i /\ lc - n + i \in 1 .. lc + m
    BY <1>1
  <2>2. CASE i <= n
    <3>1. i \in 1 .. n /\ lc - n + i <= lc
      BY <1>1, <2>2
    <3>2. cur[lc - n + i] = held[i]
      BY <3>1 DEF Shared, lc
    <3> QED BY <1>3, <2>1, <3>1, <3>2
  <2>3. CASE ~(i <= n)
    <3>1. i - n \in 1 .. m /\ ~(lc - n + i <= lc) /\ (lc - n + i) - lc = i - n /\ n + (i - n) = i
      BY <1>1, <2>3
    <3>2. x[i - n] = held[i]
      BY <1>2, <3>1
    <3>3. new[lc - n + i] = x[(lc - n + i) - lc]
      BY <1>3, <2>1, <3>1
    <3> QED BY <2>1, <3>1, <3>2, <3>3
  <2> QED BY <2>2, <2>3
<1>5. Shared(new, n + m, held)
  BY <1>3, <1>4 DEF Shared
<1>6. Safe(new, n + m) = Safe(cur, n)
  <2> DEFINE k == lc - n
  <2>1. k \in Int /\ k <= lc /\ Len(new) - (n + m) = k /\ Len(cur) - n = k /\ 0 <= k
    BY <1>1, <1>3 DEF lc
  <2>2. \A i \in 1 .. k : i \in 1 .. lc /\ i \in 1 .. lc + m /\ i <= lc
    BY <1>1, <2>1
  <2>3. \A i \in 1 .. k : cur[i] \in Units /\ new[i] \in Units /\ new[i] = cur[i]
    <3>1. \A i \in 1 .. k : cur[i] \in Units
      BY <2>2, ElementOfSeq DEF lc, Texts
    <3> QED BY <1>3, <2>2, <3>1
  <2>10. (\A i \in 1 .. k : new[i] \in Units) /\ (\A i \in 1 .. k : cur[i] \in Units)
    BY <2>3
  <2>11. 1 \in Int /\ k \in Int
    BY <2>1
  <2> HIDE DEF k
  <2> DEFINE s == SubSeq(new, 1, k)
             t == SubSeq(cur, 1, k)
  <2>4. k - 1 + 1 = k /\ \A i \in 1 .. k : 1 + i - 1 = i
    BY <2>1
  <2>5. s \in Seq(Units) /\ Len(s) = (IF 1 <= k THEN k - 1 + 1 ELSE 0)
        /\ \A i \in 1 .. k - 1 + 1 : s[i] = new[1 + i - 1]
    BY <2>10, <2>11, SubSeqProperties
  <2>6. t \in Seq(Units) /\ Len(t) = (IF 1 <= k THEN k - 1 + 1 ELSE 0)
        /\ \A i \in 1 .. k - 1 + 1 : t[i] = cur[1 + i - 1]
    BY <2>10, <2>11, SubSeqProperties
  <2>7. Len(s) = Len(t) /\ Len(s) = k
    BY <2>1, <2>4, <2>5, <2>6
  <2>8. \A i \in 1 .. Len(s) : s[i] = t[i]
    BY <2>3, <2>4, <2>5, <2>6, <2>7
  <2>9. s = t
    BY <2>5, <2>6, <2>7, <2>8, SeqEqual
  <2> QED BY <2>1, <2>9 DEF Safe
<1> QED BY <1>3, <1>5, <1>6 DEF FillsIn, new, x, lc

Flushes == [at : Points, force : BOOLEAN, left : Nat]
Answering == [for : Texts, lines : 0 .. MaxLines, boots : Nat, foreign : BOOLEAN]

LEMMA FillTyped ==
  ASSUME LogInv, FlushFill
  PROVE  /\ LogInv'
         /\ dram' = dram /\ file' = file /\ answer' = answer
         /\ dlog'.state = dlog.state /\ dlog'.abandoned = dlog.abandoned /\ dlog'.sec = dlog.sec
         /\ \/ dlog.sec = NSec
            \/ Safe(dlog'.cur, dlog'.taken) = Safe(dlog.cur, dlog.taken)
<1>1. /\ dram' = dram /\ file' = file /\ answer' = answer /\ flush.at = "fill"
  BY DEF FlushFill
<1>2. /\ dlog \in Logs /\ Len(dlog.cur) <= SecSize /\ dlog.taken <= Len(dram.held)
      /\ dlog.taken <= Len(dlog.cur) /\ Shared(dlog.cur, dlog.taken, dram.held)
      /\ dram.held \in Texts /\ dlog.cur \in Texts /\ dlog.taken \in Nat /\ dlog.sec \in Sectors
      /\ flush \in Flushes /\ dlog.dirty \in BOOLEAN
  BY DEF LogInv, LogTypes, Logs, Drams, Flushes
<1>3. NSec \in Nat /\ SecSize \in Nat /\ SecSize >= 2
  BY DlogConstants
<1>4. CASE dlog.sec >= NSec
  <2>1. dlog.sec = NSec
    BY <1>2, <1>3, <1>4 DEF Sectors
  <2>2. /\ dlog' = [dlog EXCEPT !.cur = FullMsg, !.sec = NSec, !.taken = 0]
        /\ flush' = [flush EXCEPT !.at = "full"]
    BY <1>4 DEF FlushFill
  <2>3. FullMsg \in Texts /\ Len(FullMsg) = 2 /\ FullMsg # Pad
    BY UnitsAre
  <2> DEFINE msg == FullMsg
  <2>4. dlog' = [dlog EXCEPT !.cur = msg, !.sec = NSec, !.taken = 0]
    BY <2>2
  <2> HIDE DEF msg
  <2>5. msg \in Texts /\ NSec \in Sectors
    BY <1>2, <2>1, <2>3 DEF msg
  <2>6. /\ dlog' \in Logs /\ dlog'.cur = msg /\ dlog'.sec = NSec /\ dlog'.taken = 0
        /\ dlog'.state = dlog.state /\ dlog'.abandoned = dlog.abandoned /\ dlog'.wipe = dlog.wipe
    BY <1>2, <2>4, <2>5 DEF Logs
  <2>7. flush' \in Flushes /\ flush'.at = "full"
    BY <1>2, <2>2 DEF Flushes, Points
  <2>8. Shared(msg, 0, dram.held)
    BY DEF Shared
  <2>9. LogTypes'
    <3>1. 0 <= Len(dram.held) /\ Len(msg) <= SecSize /\ 0 <= Len(msg)
      BY <1>2, <1>3, <2>3 DEF msg, Texts
    <3> QED BY <1>1, <2>6, <2>7, <2>8, <3>1 DEF LogInv, LogTypes, Flushes
  <2>10. LogPlaces'
    BY <2>1, <2>3, <2>6, <2>7 DEF LogInv, LogPlaces, msg
  <2> QED BY <1>1, <2>1, <2>6, <2>9, <2>10 DEF LogInv
<1>5. CASE ~(dlog.sec >= NSec)
  <2> DEFINE avail == Len(dram.held) - dlog.taken
             room  == SecSize - Len(dlog.cur)
             n     == IF avail < room THEN avail ELSE room
             cur   == dlog.cur \o SubSeq(dram.held, dlog.taken + 1, dlog.taken + n)
             taken == dlog.taken + n
             dirty == dlog.dirty \/ n > 0
  <2>1. /\ dlog' = [dlog EXCEPT !.cur = cur, !.taken = @ + n, !.dirty = dirty]
        /\ flush' = CASE Len(cur) = SecSize -> [flush EXCEPT !.at = "sector"]
                      [] Len(cur) < SecSize /\ flush.force /\ dirty
                           -> [flush EXCEPT !.at = "rest"]
                      [] OTHER -> Resting
    BY <1>5 DEF FlushFill
  <2>2. n \in Nat /\ dlog.taken + n <= Len(dram.held) /\ Len(dlog.cur) + n <= SecSize
        /\ Len(dlog.cur) \in Nat
    <3> DEFINE lh == Len(dram.held)
               lc == Len(dlog.cur)
               t == dlog.taken
    <3>1. lh \in Nat /\ lc \in Nat
      BY <1>2, LenProperties DEF Texts
    <3>2. t \in Nat /\ t <= lh /\ lc <= SecSize
      BY <1>2
    <3> HIDE DEF lh, lc, t
    <3>3. n = IF lh - t < SecSize - lc THEN lh - t ELSE SecSize - lc
      BY DEF lh, lc, t
    <3> HIDE DEF n
    <3>4. n \in Nat /\ t + n <= lh /\ lc + n <= SecSize
      BY <1>3, <3>1, <3>2, <3>3
    <3> QED BY <3>1, <3>4 DEF lh, lc, t
  <2> HIDE DEF n
  <2>3. /\ cur \in Texts /\ Len(cur) = Len(dlog.cur) + n
        /\ Shared(cur, taken, dram.held)
        /\ Safe(cur, taken) = Safe(dlog.cur, dlog.taken)
    <3>1. FillsIn(dlog.cur, dlog.taken, n, dram.held)
      BY <1>2, <2>2, FillShares
    <3> QED BY <3>1 DEF FillsIn
  <2>4. taken \in Nat /\ dirty \in BOOLEAN
        /\ dlog' = [dlog EXCEPT !.cur = cur, !.taken = taken, !.dirty = dirty]
    BY <1>2, <2>1, <2>2 DEF Logs
  <2>5. taken <= Len(dram.held) /\ taken <= Len(cur) /\ Len(cur) <= SecSize
    BY <1>2, <2>2, <2>3
  <2>6. dirty => cur # Pad
    <3>1. dlog.dirty => dlog.cur # Pad
      BY DEF LogInv, LogPlaces
    <3>2. dlog.cur # Pad => Len(dlog.cur) # 0
      BY <1>2, EmptySeq DEF Pad, Texts
    <3> HIDE DEF cur
    <3>3. dirty => Len(cur) # 0
      BY <2>2, <2>3, <3>1, <3>2
    <3> QED BY <3>3, UnitsAre
  <2>7. Len(cur) = SecSize => cur # Pad
    <3> HIDE DEF cur
    <3>1. cur = Pad => Len(cur) = 0
      BY UnitsAre
    <3> QED BY <1>3, <3>1
  <2> HIDE DEF cur, taken, dirty
  <2>8. /\ dlog' \in Logs /\ dlog'.cur = cur /\ dlog'.sec = dlog.sec /\ dlog'.taken = taken
        /\ dlog'.dirty = dirty
        /\ dlog'.state = dlog.state /\ dlog'.abandoned = dlog.abandoned /\ dlog'.wipe = dlog.wipe
    BY <1>2, <2>3, <2>4 DEF Logs
  <2>9. \/ flush' = [flush EXCEPT !.at = "sector"] /\ Len(cur) = SecSize
        \/ flush' = [flush EXCEPT !.at = "rest"] /\ dirty
        \/ flush' = Resting
    BY <2>1
  <2>10. flush' \in Flushes /\ flush'.at \in {"sector", "rest", "no"}
         /\ (flush'.at # "no" => cur # Pad)
    BY <1>2, <2>6, <2>7, <2>9, RestsAre DEF Flushes, Points
  <2>11. LogTypes'
    BY <1>1, <2>3, <2>5, <2>8, <2>10 DEF LogInv, LogTypes, Flushes
  <2>12. LogPlaces'
    <3>1. dlog.sec < NSec
      BY <1>2, <1>3, <1>5 DEF Sectors
    <3> QED BY <2>6, <2>8, <2>10, <3>1 DEF LogInv, LogPlaces
  <2> QED BY <1>1, <2>3, <2>8, <2>11, <2>12 DEF LogInv
<1> QED BY <1>4, <1>5

LEMMA ForgottenIs ==
  ASSUME LogInv
  PROVE  /\ Forgotten \in Drams /\ Len(Forgotten.held) <= RingSize
         /\ Forgotten.held = SubSeq(dram.held, dlog.taken + 1, Len(dram.held))
         /\ Forgotten.older = dram.older \union {Version}
         /\ Len(Forgotten.past) = Len(dram.past) + dlog.taken
         /\ Len(Forgotten.held) = Len(dram.held) - dlog.taken
<1> DEFINE n == dlog.taken
           b == SubSeq(dram.held, 1, n)
           c == SubSeq(dram.held, n + 1, Len(dram.held))
           u == dram.past \o b
           o == dram.older \union {Version}
<1>1. /\ dram \in Drams /\ dram.held \in Texts /\ dram.past \in Texts /\ n \in Nat
      /\ n <= Len(dram.held) /\ Len(dram.held) <= RingSize
      /\ Len(dram.held) \in Nat /\ RingSize \in Nat
  BY DlogConstants, LenProperties DEF LogInv, LogTypes, Drams, Logs, Texts
<1>2. b \in Texts /\ c \in Texts /\ Len(b) = n /\ Len(c) = Len(dram.held) - n
  <2>1. /\ dlog.cur \in Texts /\ n <= Len(dlog.cur) /\ Shared(dlog.cur, n, dram.held)
    BY DEF LogInv, LogTypes, Drams, Logs
  <2>2. Splits(dlog.cur, n, dram.held)
    <3> HIDE DEF n
    <3> QED BY <1>1, <2>1, SafeIs
  <2> QED BY <2>2 DEF Splits
<1>3. u \in Texts /\ Len(u) = Len(dram.past) + n
  <2>1. dram.past \in Seq(Units) /\ b \in Seq(Units) /\ Len(b) = n
    BY <1>1, <1>2 DEF Texts
  <2> HIDE DEF b, n
  <2> QED BY <2>1, ConcatProperties DEF Texts
<1>4. Forgotten = [dram EXCEPT !.held = c, !.past = u, !.older = o]
  BY <1>1 DEF Forgotten, Drams
<1>5. o \in SUBSET Versions
  BY <1>1, VersionIs
<1> HIDE DEF b, c, u, o
<1>6. Forgotten \in Drams /\ Forgotten.held = c /\ Forgotten.past = u /\ Forgotten.older = o
  BY <1>1, <1>2, <1>3, <1>4, <1>5 DEF Drams
<1>7. Len(c) <= RingSize
  BY <1>1, <1>2
<1> QED BY <1>2, <1>3, <1>6, <1>7 DEF c, o

(* A write that may have reached the card, and one that was reported done. *)
Stays == dlog'.sec = dlog.sec /\ dlog'.cur = dlog.cur

LEMMA PutTyped ==
  ASSUME LogInv, HostInv, PutSector
  PROVE  /\ LogInv'
         /\ answer' = answer /\ dlog'.state = dlog.state /\ dlog'.abandoned = dlog.abandoned
         /\ \/ file' = file /\ dram' = dram /\ Stays /\ dlog'.taken = dlog.taken
            \/ /\ ~dlog.abandoned /\ dlog.cur # Pad
               /\ file' = [file EXCEPT ![dlog.sec] = dlog.cur]
               /\ \/ dram' = dram /\ Stays /\ dlog'.taken = dlog.taken
                  \/ /\ dram'.held = SubSeq(dram.held, dlog.taken + 1, Len(dram.held))
                     /\ dlog'.taken = 0
                     /\ \/ Stays
                        \/ dlog'.sec = dlog.sec + 1 /\ dlog.sec < NSec /\ dlog'.cur = Pad
<1>1. /\ dlog \in Logs /\ dlog.cur \in Texts /\ Len(dlog.cur) <= SecSize /\ dlog.taken \in Nat
      /\ dlog.sec \in Sectors /\ flush \in Flushes /\ dram \in Drams
      /\ file \in [Sectors -> Texts] /\ \A s \in Sectors : Len(file[s]) <= SecSize
      /\ dlog.cur # Pad
      /\ flush.at = "sector" => dlog.sec < NSec
      /\ flush.at = "full" => dlog.sec = NSec
      /\ flush.at \in {"sector", "rest", "full"}
  BY DEF LogInv, LogTypes, LogPlaces, Logs, Drams, Flushes, PutSector
<1>2. PICK ok \in BOOLEAN, landed \in BOOLEAN :
       /\ ok => landed /\ MayWrite
       /\ landed => MayWrite
       /\ file' = IF landed THEN [file EXCEPT ![dlog.sec] = dlog.cur] ELSE file
       /\ dram' = AfterPut(ok)
       /\ LET put == IF ok THEN [dlog EXCEPT !.taken = 0, !.dirty = FALSE] ELSE dlog
              more == ok /\ flush.at = "sector"
          IN  /\ dlog' = CASE flush.at = "full" -> [put EXCEPT !.full = TRUE]
                           [] more -> [put EXCEPT !.sec = @ + 1, !.cur = Pad]
                           [] OTHER -> put
              /\ flush' = IF more /\ flush.left > 1
                            THEN [flush EXCEPT !.at = "fill", !.left = @ - 1]
                            ELSE Resting
  BY DEF PutSector
<1> DEFINE put == IF ok THEN [dlog EXCEPT !.taken = 0, !.dirty = FALSE] ELSE dlog
           more == ok /\ flush.at = "sector"
           next == dlog.sec + 1
<1>3. /\ put \in Logs /\ put.sec = dlog.sec /\ put.cur = dlog.cur /\ put.state = dlog.state
      /\ put.abandoned = dlog.abandoned /\ put.wipe = dlog.wipe
      /\ put.taken = (IF ok THEN 0 ELSE dlog.taken)
      /\ put.dirty = (IF ok THEN FALSE ELSE dlog.dirty)
  BY <1>1 DEF Logs
<1>4. /\ dlog' = CASE flush.at = "full" -> [put EXCEPT !.full = TRUE]
                   [] more -> [put EXCEPT !.sec = @ + 1, !.cur = Pad]
                   [] OTHER -> put
      /\ flush' = IF more /\ flush.left > 1
                    THEN [flush EXCEPT !.at = "fill", !.left = @ - 1]
                    ELSE Resting
  BY <1>2
<1> HIDE DEF put
<1>5. flush' \in Flushes /\ flush'.at \in {"fill", "no"}
  <2> DEFINE left == flush.left - 1
  <2>1. CASE more /\ flush.left > 1
    <3>1. left \in Nat
      BY <1>1, <2>1 DEF Flushes
    <3>2. flush' = [flush EXCEPT !.at = "fill", !.left = left]
      BY <1>1, <1>4, <2>1 DEF Flushes
    <3> HIDE DEF left
    <3> QED BY <1>1, <3>1, <3>2 DEF Flushes, Points
  <2>2. CASE ~(more /\ flush.left > 1)
    BY <1>4, <2>2, RestsAre DEF Flushes
  <2> QED BY <2>1, <2>2
<1>6. /\ dlog' \in Logs /\ dlog'.state = dlog.state /\ dlog'.abandoned = dlog.abandoned
      /\ dlog'.wipe = dlog.wipe /\ dlog'.taken = put.taken /\ dlog'.dirty = put.dirty
      /\ \/ Stays
         \/ ok /\ dlog'.sec = dlog.sec + 1 /\ dlog.sec < NSec /\ dlog'.cur = Pad
  <2>1. CASE flush.at = "full"
    <3>1. dlog' = [put EXCEPT !.full = TRUE]
      BY <1>4, <2>1
    <3> QED BY <1>3, <3>1 DEF Logs, Stays
  <2>2. CASE flush.at # "full" /\ more
    <3> DEFINE blank == Pad
    <3>1. next \in Sectors /\ blank \in Texts /\ dlog.sec < NSec
      <4>1. dlog.sec < NSec
        BY <1>1, <2>2
      <4> QED BY <1>1, <4>1, NextSector, UnitsAre
    <3>2. dlog' = [put EXCEPT !.sec = next, !.cur = blank]
      BY <1>3, <1>4, <2>2 DEF Logs
    <3> HIDE DEF next, blank
    <3>3. /\ dlog' \in Logs /\ dlog'.state = dlog.state /\ dlog'.abandoned = dlog.abandoned
          /\ dlog'.wipe = dlog.wipe /\ dlog'.taken = put.taken /\ dlog'.dirty = put.dirty
          /\ dlog'.sec = next /\ dlog'.cur = blank
      BY <1>3, <3>1, <3>2 DEF Logs
    <3> QED BY <2>2, <3>1, <3>3 DEF next, blank
  <2>3. CASE flush.at # "full" /\ ~more
    <3>1. dlog' = put
      BY <1>4, <2>3
    <3> QED BY <1>3, <3>1 DEF Stays
  <2> QED BY <2>1, <2>2, <2>3
<1>7. /\ file' \in [Sectors -> Texts] /\ \A s \in Sectors : Len(file'[s]) <= SecSize
  <2>1. CASE landed
    <3>1. file' = [file EXCEPT ![dlog.sec] = dlog.cur]
      BY <1>2, <2>1
    <3> QED BY <1>1, <3>1
  <2>2. CASE ~landed
    BY <1>1, <1>2, <2>2
  <2> QED BY <2>1, <2>2
<1>8. /\ dram' \in Drams /\ Len(dram'.held) <= RingSize
      /\ dram' = IF ok THEN Forgotten ELSE dram
  BY <1>2, ForgottenIs DEF AfterPut, LogInv, LogTypes
<1>9. /\ dlog'.taken <= Len(dram'.held) /\ dlog'.taken <= Len(dlog'.cur)
      /\ Shared(dlog'.cur, dlog'.taken, dram'.held)
  <2>1. CASE ok
    <3>1. dlog'.taken = 0 /\ dram'.held \in Texts /\ dlog'.cur \in Texts
      BY <1>3, <1>6, <1>8, <2>1 DEF Drams, Logs
    <3>2. Len(dram'.held) \in Nat /\ Len(dlog'.cur) \in Nat
      BY <3>1 DEF Texts
    <3>3. Shared(dlog'.cur, 0, dram'.held)
      BY DEF Shared
    <3> QED BY <3>1, <3>2, <3>3
  <2>2. CASE ~ok
    <3>1. dlog'.taken = dlog.taken /\ dlog'.cur = dlog.cur /\ dram' = dram
      BY <1>3, <1>6, <1>8, <2>2 DEF Stays
    <3> QED BY <3>1 DEF LogInv, LogTypes
  <2> QED BY <2>1, <2>2
<1>10. answer' = answer
  BY DEF PutSector
<1>11. LogTypes'
  <2>1. Len(dlog'.cur) <= SecSize
    BY <1>1, <1>6, UnitsAre, DlogConstants DEF Stays
  <2> QED BY <1>5, <1>6, <1>7, <1>8, <1>9, <1>10, <2>1 DEF LogInv, LogTypes, Flushes
<1>12. LogPlaces'
  <2>1. dlog'.dirty => dlog'.cur # Pad
    <3>1. CASE ok
      BY <1>3, <1>6, <3>1
    <3>2. CASE ~ok
      BY <1>1, <1>6, <3>2 DEF Stays
    <3> QED BY <3>1, <3>2
  <2>2. dlog'.state = "wiping" => dlog'.sec <= dlog'.wipe
    <3>1. dlog.state # "wiping"
      BY <1>1, RestsAre DEF HostInv
    <3> QED BY <1>6, <3>1
  <2> QED BY <1>5, <2>1, <2>2 DEF LogPlaces
<1>13. landed => ~dlog.abandoned
  BY <1>2 DEF MayWrite
<1>14. CASE ~landed
  <2>1. ~ok /\ file' = file /\ dram' = dram
    BY <1>2, <1>8, <1>14
  <2> QED BY <1>3, <1>6, <1>10, <1>11, <1>12, <2>1 DEF LogInv
<1>15. CASE landed
  <2>1. file' = [file EXCEPT ![dlog.sec] = dlog.cur] /\ ~dlog.abandoned
    BY <1>2, <1>13, <1>15
  <2>2. CASE ok
    <3>1. dram'.held = SubSeq(dram.held, dlog.taken + 1, Len(dram.held)) /\ dlog'.taken = 0
      BY <1>3, <1>6, <1>8, <2>2, ForgottenIs
    <3> QED BY <1>1, <1>6, <1>10, <1>11, <1>12, <2>1, <3>1 DEF LogInv
  <2>3. CASE ~ok
    <3>1. dram' = dram /\ dlog'.taken = dlog.taken /\ Stays
      BY <1>3, <1>6, <1>8, <2>3
    <3> QED BY <1>1, <1>6, <1>10, <1>11, <1>12, <2>1, <3>1 DEF LogInv
  <2> QED BY <2>2, <2>3
<1> QED BY <1>14, <1>15

LEMMA HostTyped ==
  ASSUME LogInv, NEW first \in 0 .. NSec + 1, NEW count \in 1 .. 2, HostWrites(first, count)
  PROVE  /\ LogInv'
         /\ dram' = dram /\ dlog'.state # "wiping"
         /\ \/ file' = file /\ answer' = answer
            \/ answer'.for = dram.held
         /\ \/ dlog'.state = "failed"
            \/ dlog'.abandoned
            \/ dlog' = dlog /\ file' = file
<1>1. /\ file' = [s \in Sectors |-> IF s \in first .. (first + count - 1) THEN Foreign
                                   ELSE file[s]]
      /\ dlog' = IF Touches(first, count) /\ dlog.state # "failed"
                   THEN [dlog EXCEPT !.abandoned = TRUE, !.state = "ready"] ELSE dlog
      /\ answer' = IF file' = file THEN answer
                   ELSE [answer EXCEPT !.for = dram.held, !.foreign = TRUE]
      /\ flush' = flush /\ dram' = dram /\ dlog.state \in {"ready", "active", "failed"}
  BY DEF HostWrites
<1>2. /\ dlog \in Logs /\ file \in [Sectors -> Texts] /\ dram.held \in Texts
      /\ answer \in Answering /\ \A s \in Sectors : Len(file[s]) <= SecSize
  BY DEF LogInv, LogTypes, Drams, Answering
<1>3. file' \in [Sectors -> Texts] /\ \A s \in Sectors : Len(file'[s]) <= SecSize
  <2>1. Foreign \in Texts /\ Len(Foreign) <= SecSize
    BY UnitsAre, DlogConstants
  <2> QED BY <1>1, <1>2, <2>1
<1>4. /\ answer' \in Answering
      /\ \/ file' = file /\ answer' = answer
         \/ answer'.for = dram.held
  BY <1>1, <1>2 DEF Answering
<1>5. /\ dlog' \in Logs /\ dlog'.sec = dlog.sec /\ dlog'.cur = dlog.cur /\ dlog'.taken = dlog.taken
      /\ dlog'.dirty = dlog.dirty /\ dlog'.state # "wiping"
  BY <1>1, <1>2 DEF Logs, States
<1>6. LogInv'
  BY <1>1, <1>3, <1>4, <1>5 DEF LogInv, LogTypes, LogPlaces, Answering
<1>7. \/ dlog'.state = "failed"
      \/ dlog'.abandoned
      \/ dlog' = dlog /\ file' = file
  <2>1. CASE Touches(first, count) /\ dlog.state # "failed"
    BY <1>1, <1>2, <2>1 DEF Logs
  <2>2. CASE dlog.state = "failed"
    BY <1>1, <2>2
  <2>3. CASE ~Touches(first, count)
    <3>1. NSec \in Nat
      BY DlogConstants
    <3>2. \A s \in Sectors : s \notin first .. (first + count - 1)
      BY <2>3, <3>1 DEF Touches, Sectors
    <3>3. file' = [s \in Sectors |-> file[s]]
      BY <1>1, <3>2
    <3> QED BY <1>1, <1>2, <2>3, <3>3
  <2> QED BY <2>1, <2>2, <2>3
<1> QED BY <1>1, <1>4, <1>6, <1>7

(* What locate reads from the sectors. *)
LEMMA LocatedIs ==
  ASSUME LogInv
  PROVE  /\ Located.sec \in Ends /\ Located.cur \in Texts /\ Len(Located.cur) <= SecSize
         /\ Located.cut \in BOOLEAN /\ (Located.cut => Len(Located.cur) < SecSize)
         /\ \/ Located.sec = FoundIn(file) /\ Located.cur = Pad
            \/ /\ Located.sec = FoundIn(file) - 1 /\ Located.sec \in Sectors
               /\ Located.cur = file[Located.sec]
<1> DEFINE pad  == FirstPad
           last == IF pad = 1 THEN Pad ELSE file[pad - 1]
           part == last # Pad /\ Len(last) < SecSize
           cut  == last # Pad /\ Last(last)[2] # "end"
<1>1. pad = FoundIn(file) /\ pad \in Ends /\ NSec \in Nat
  BY FirstPadIs, FoundIsEdge, DlogConstants
<1>2. /\ Located.sec = (IF part THEN pad - 1 ELSE pad)
      /\ Located.cur = (IF part THEN last ELSE Pad)
      /\ Located.cut = cut
  BY DEF Located
<1>3. file \in [Sectors -> Texts] /\ \A s \in Sectors : Len(file[s]) <= SecSize
  BY DEF LogInv, LogTypes
<1>4. pad # 1 => pad - 1 \in Sectors /\ pad - 1 \in Ends
  BY <1>1 DEF Ends, Sectors
<1>5. last \in Texts /\ Len(last) <= SecSize /\ (last # Pad => pad # 1)
  <2>1. Len(Pad) <= SecSize
    BY UnitsAre, DlogConstants
  <2> HIDE DEF pad
  <2> QED BY <1>3, <1>4, <2>1, UnitsAre
<1>6. cut \in BOOLEAN
  OBVIOUS
<1>7. last # Pad => last = file[pad - 1]
  BY <1>5
<1> HIDE DEF last, cut, pad
<1>8. CASE part
  <2>1. Located.sec = pad - 1 /\ Located.cur = last /\ pad # 1
    BY <1>2, <1>5, <1>8
  <2> QED BY <1>1, <1>2, <1>4, <1>5, <1>6, <1>7, <1>8, <2>1
<1>9. CASE ~part
  <2>1. Located.sec = pad /\ Located.cur = Pad
    BY <1>2, <1>9
  <2>2. Len(Pad) < SecSize /\ Len(Pad) <= SecSize
    BY UnitsAre, DlogConstants
  <2> QED BY <1>1, <1>2, <1>6, <2>1, <2>2, UnitsAre
<1> QED BY <1>8, <1>9

LEMMA PrepareTyped ==
  ASSUME LogInv, HostInv, NEW fresh \in BOOLEAN, DlogPrepare(fresh)
  PROVE  /\ LogInv'
         /\ dram' = dram
         /\ \/ dlog'.state = "wiping" /\ answer'.for = dram.held
            \/ /\ dlog'.state = "ready" /\ answer'.for = answer.for /\ file' = file
               /\ dlog'.taken = 0 /\ dlog'.sec < NSec
               /\ \/ dlog'.sec = FoundIn(file)
                  \/ dlog'.sec = FoundIn(file) - 1 /\ Inside(file[dlog'.sec], dlog'.cur)
<1> DEFINE at   == Located
           used == at.sec - 1 + (IF at.cur # Pad THEN 1 ELSE 0)
           some == IF used < NSec THEN used ELSE NSec
           s == at.sec
           c == IF at.cut THEN Append(at.cur, CutEnd) ELSE at.cur
           d == at.cut
           n == answer.boots + 1
           for == IF dlog'.state = "wiping" THEN dram.held ELSE answer.for
           empty == [i \in Sectors |-> Foreign]
<1>1. /\ dlog' = Opened(fresh) /\ flush' = flush /\ dram' = dram
      /\ answer' = [answer EXCEPT !.boots = n, !.foreign = FALSE, !.for = for]
      /\ file' = IF fresh THEN empty ELSE file
  <2>1. answer \in Answering
    BY DEF LogInv, LogTypes, Answering
  <2> QED BY <2>1 DEF DlogPrepare, Answering
<1>2. \/ Opened(fresh) = [Off EXCEPT !.state = "wiping", !.wipe = NSec]
      \/ Opened(fresh) = [Off EXCEPT !.state = "wiping", !.wipe = some] /\ NSec + 1 - s < Quarter
      \/ /\ Opened(fresh) = [Off EXCEPT !.state = "ready", !.sec = s, !.cur = c, !.dirty = d]
         /\ ~fresh /\ ~(NSec + 1 - s < Quarter)
  BY DEF Opened
<1>3. /\ answer \in Answering /\ file \in [Sectors -> Texts] /\ dram.held \in Texts
      /\ flush \in Flushes /\ \A i \in Sectors : Len(file[i]) <= SecSize
      /\ dram \in Drams /\ Len(dram.held) <= RingSize
  BY DEF LogInv, LogTypes, Answering, Flushes, Drams
<1>4. /\ s \in Ends /\ at.cur \in Texts /\ Len(at.cur) <= SecSize
      /\ d \in BOOLEAN /\ (d => Len(at.cur) < SecSize)
      /\ \/ s = FoundIn(file) /\ at.cur = Pad
         \/ s = FoundIn(file) - 1 /\ s \in Sectors /\ at.cur = file[s]
  BY LocatedIs
<1> HIDE DEF at
<1>5. /\ c \in Texts /\ Len(c) <= SecSize /\ (d => c # Pad) /\ Inside(at.cur, c)
  <2>1. CASE d
    <3> DEFINE b == at.cur
    <3>1. b \in Seq(Units) /\ Len(b) < SecSize /\ CutEnd \in Units /\ c = Append(b, CutEnd)
      BY <1>4, <2>1, UnitsAre DEF Texts
    <3> HIDE DEF b, c
    <3>2. c \in Seq(Units) /\ c # << >> /\ Len(c) = Len(b) + 1
      BY <3>1, AppendProperties
    <3>3. Len(b) \in Nat /\ SecSize \in Nat
      BY <3>1, DlogConstants
    <3>4. c = b \o <<CutEnd>> /\ <<CutEnd>> \in Seq(Units)
      BY <3>1, AppendIsConcat
    <3>5. Inside(b \o << >>, b \o <<CutEnd>>)
      <4>1. Inside(b, b) /\ << >> \in Seq(Units)
        BY <3>1, InsideItself
      <4>2. Inside(<< >>, <<CutEnd>>)
        BY <3>4, InsideNothing
      <4> QED BY <3>1, <3>4, <4>1, <4>2, InsideConcat
    <3>6. b \o << >> = b
      BY <3>1, ConcatEmptySeq
    <3> QED BY <3>1, <3>2, <3>3, <3>4, <3>5, <3>6 DEF b, Texts, Pad
  <2>2. CASE ~d
    <3>1. c = at.cur
      BY <2>2
    <3>2. Inside(at.cur, at.cur)
      BY <1>4, InsideItself DEF Texts
    <3> QED BY <1>4, <2>2, <3>1, <3>2
  <2> QED BY <2>1, <2>2, <1>4
<1>6. NSec \in Nat /\ Quarter \in Nat /\ Quarter >= 2 /\ NSec > Quarter /\ SecSize \in Nat
      /\ SecSize >= 2
  BY DlogConstants
<1>7. NSec + 1 - s < Quarter => some \in 0 .. NSec /\ some >= 1
  BY <1>4, <1>6 DEF Ends
<1>8. ~(NSec + 1 - s < Quarter) => s \in Sectors /\ s < NSec
  BY <1>4, <1>6 DEF Ends, Sectors
<1> HIDE DEF some, s, c, d
<1>9. /\ dlog' \in Logs /\ dlog'.taken = 0
      /\ \/ /\ dlog'.state = "wiping" /\ dlog'.sec = 1 /\ dlog'.cur = Pad /\ dlog'.dirty = FALSE
            /\ dlog'.wipe >= 1
         \/ /\ dlog'.state = "ready" /\ dlog'.sec = s /\ dlog'.cur = c /\ dlog'.dirty = d
            /\ ~fresh /\ s < NSec
  <2>1. CASE Opened(fresh) = [Off EXCEPT !.state = "wiping", !.wipe = NSec]
    <3>1. NSec \in 0 .. NSec /\ NSec >= 1
      BY <1>6
    <3> QED BY <1>1, <2>1, <3>1, RestsAre DEF Logs, States
  <2>2. CASE Opened(fresh) = [Off EXCEPT !.state = "wiping", !.wipe = some]
        /\ NSec + 1 - s < Quarter
    <3>1. some \in 0 .. NSec /\ some >= 1
      BY <1>7, <2>2
    <3> QED BY <1>1, <2>2, <3>1, RestsAre DEF Logs, States
  <2>3. CASE /\ Opened(fresh) = [Off EXCEPT !.state = "ready", !.sec = s, !.cur = c, !.dirty = d]
             /\ ~fresh /\ ~(NSec + 1 - s < Quarter)
    BY <1>1, <1>4, <1>5, <1>8, <2>3, RestsAre DEF Logs, States
  <2> QED BY <1>2, <2>1, <2>2, <2>3
<1>10. Len(dlog'.cur) <= SecSize /\ (dlog'.dirty => dlog'.cur # Pad) /\ dlog'.cur \in Texts
  BY <1>5, <1>6, <1>9, UnitsAre
<1>11. /\ dlog'.taken <= Len(dram.held) /\ dlog'.taken <= Len(dlog'.cur)
       /\ Shared(dlog'.cur, dlog'.taken, dram.held)
  <2>1. Len(dram.held) \in Nat /\ Len(dlog'.cur) \in Nat
    BY <1>3, <1>10 DEF Texts
  <2> QED BY <1>9, <2>1 DEF Shared
<1>12. file' \in [Sectors -> Texts] /\ \A i \in Sectors : Len(file'[i]) <= SecSize
  <2>1. Foreign \in Texts /\ Len(Foreign) <= SecSize
    BY UnitsAre, <1>6
  <2>2. CASE fresh
    <3>1. \A i \in Sectors : empty[i] = Foreign
      OBVIOUS
    <3> QED BY <1>1, <2>1, <2>2, <3>1
  <2>3. CASE ~fresh
    BY <1>1, <1>3, <2>3
  <2> QED BY <2>2, <2>3
<1>13. answer' \in Answering
       /\ answer'.for = IF dlog'.state = "wiping" THEN dram.held ELSE answer.for
  <2>1. n \in Nat /\ for \in Texts
    BY <1>3 DEF Answering
  <2>2. for = IF dlog'.state = "wiping" THEN dram.held ELSE answer.for
    OBVIOUS
  <2> HIDE DEF n, for
  <2> QED BY <1>1, <1>3, <2>1, <2>2 DEF Answering
<1>14. flush' = Resting
  BY <1>1 DEF HostInv, DlogPrepare
<1>15. LogTypes'
  BY <1>1, <1>3, <1>9, <1>10, <1>11, <1>12, <1>13 DEF LogTypes, Answering, Flushes
<1>16. LogPlaces'
  <2>1. dlog'.state = "wiping" => dlog'.sec <= dlog'.wipe
    <3>1. dlog'.wipe \in Nat
      BY <1>9 DEF Logs
    <3> QED BY <1>9, <3>1
  <2> QED BY <1>10, <1>14, <2>1, RestsAre DEF LogPlaces
<1>17. \/ dlog'.state = "wiping" /\ answer'.for = dram.held
       \/ /\ dlog'.state = "ready" /\ answer'.for = answer.for /\ file' = file
          /\ dlog'.taken = 0 /\ dlog'.sec < NSec
          /\ \/ dlog'.sec = FoundIn(file)
             \/ dlog'.sec = FoundIn(file) - 1 /\ Inside(file[dlog'.sec], dlog'.cur)
  <2>1. CASE dlog'.state = "wiping"
    BY <1>13, <2>1
  <2>2. CASE dlog'.state # "wiping"
    <3>1. /\ dlog'.state = "ready" /\ dlog'.sec = s /\ dlog'.cur = c /\ ~fresh /\ s < NSec
      BY <1>9, <2>2
    <3>2. answer'.for = answer.for /\ file' = file
      BY <1>1, <1>13, <2>2, <3>1
    <3> QED BY <1>4, <1>5, <1>9, <3>1, <3>2
  <2> QED BY <2>1, <2>2
<1> QED BY <1>1, <1>15, <1>16, <1>17 DEF LogInv

(* The log as it rests: nothing is filled in. *)
LEMMA FreshTyped ==
  ASSUME dlog' \in Logs, dlog'.cur = Pad, dlog'.taken = 0, dlog'.dirty = FALSE,
         dlog'.state # "wiping", flush' = Resting,
         dram' \in Drams, Len(dram'.held) <= RingSize,
         file' \in [Sectors -> Texts], \A s \in Sectors : Len(file'[s]) <= SecSize,
         answer' \in Answering
  PROVE  LogInv'
<1>1. Len(Pad) <= SecSize /\ 0 <= Len(Pad)
  BY UnitsAre, DlogConstants
<1>2. 0 <= Len(dram'.held)
  <2>1. dram'.held \in Texts
    BY DEF Drams
  <2> QED BY <2>1, LenProperties DEF Texts
<1>3. Shared(dlog'.cur, 0, dram'.held)
  BY DEF Shared
<1>4. LogTypes'
  BY <1>1, <1>2, <1>3, RestsAre DEF LogTypes, Answering
<1>5. LogPlaces'
  BY RestsAre DEF LogPlaces
<1> QED BY <1>4, <1>5 DEF LogInv

LEMMA NoCardTyped ==
  ASSUME LogInv, HostInv, DlogNoCard
  PROVE  LogInv' /\ dram' = dram /\ file' = file /\ answer'.for = answer.for
  /\ dlog'.state = "failed"
<1> DEFINE n == answer.boots + 1
<1>1. /\ dlog' = [Off EXCEPT !.state = "failed"] /\ flush' = flush /\ file' = file /\ dram' = dram
      /\ answer' = [answer EXCEPT !.boots = n] /\ dlog.state = "off"
  <2>1. answer \in Answering
    BY DEF LogInv, LogTypes, Answering
  <2> QED BY <2>1 DEF DlogNoCard, Answering
<1>2. flush' = Resting
  BY <1>1 DEF HostInv
<1>3. /\ dlog' \in Logs /\ dlog'.cur = Pad /\ dlog'.taken = 0 /\ dlog'.dirty = FALSE
      /\ dlog'.state = "failed"
  BY <1>1, RestsAre DEF Logs, States
<1>4. answer \in Answering /\ n \in Nat
  BY DEF LogInv, LogTypes, Answering
<1>5. answer' \in Answering /\ answer'.for = answer.for
  <2> HIDE DEF n
  <2> QED BY <1>1, <1>4 DEF Answering
<1>6. LogInv'
  BY <1>1, <1>2, <1>3, <1>5, FreshTyped DEF LogInv, LogTypes
<1> QED BY <1>1, <1>3, <1>5, <1>6

LEMMA WipeTyped ==
  ASSUME LogInv, HostInv, WipeSector
  PROVE  /\ LogInv' /\ dram' = dram /\ answer' = answer /\ dlog.state = "wiping"
         /\ \/ dlog'.state \in {"wiping", "failed"}
            \/ dlog'.state = "ready" /\ dlog'.sec = 1 /\ dlog'.cur = Pad /\ dlog'.taken = 0
<1> DEFINE n == dlog.sec + 1
<1>1. /\ dlog.state = "wiping" /\ flush' = flush /\ answer' = answer /\ dram' = dram
      /\ \/ dlog' = [Off EXCEPT !.state = "ready"]
         \/ dlog' = [dlog EXCEPT !.sec = n] /\ dlog.sec # dlog.wipe
         \/ dlog' = [Off EXCEPT !.state = "failed"]
      /\ \/ file' = file
         \/ file' = [file EXCEPT ![dlog.sec] = Pad]
  <2>1. dlog \in Logs
    BY DEF LogInv, LogTypes
  <2> QED BY <2>1 DEF WipeSector, Logs
<1>2. /\ dlog \in Logs /\ dram \in Drams /\ answer \in Answering
      /\ Len(dram.held) <= RingSize
      /\ file \in [Sectors -> Texts] /\ \A s \in Sectors : Len(file[s]) <= SecSize
      /\ dlog.sec <= dlog.wipe
  BY <1>1 DEF LogInv, LogTypes, LogPlaces, Answering
<1>3. flush' = Resting
  BY <1>1 DEF HostInv
<1>4. file' \in [Sectors -> Texts] /\ \A s \in Sectors : Len(file'[s]) <= SecSize
  <2>1. Pad \in Texts /\ Len(Pad) <= SecSize
    BY UnitsAre, DlogConstants
  <2>2. CASE file' = file
    BY <1>2, <2>2
  <2>3. CASE file' = [file EXCEPT ![dlog.sec] = Pad]
    BY <1>2, <2>1, <2>3
  <2> QED BY <1>1, <2>2, <2>3
<1>5. CASE \E st \in {"ready", "failed"} : dlog' = [Off EXCEPT !.state = st]
  <2>1. /\ dlog' \in Logs /\ dlog'.cur = Pad /\ dlog'.taken = 0 /\ dlog'.dirty = FALSE
        /\ dlog'.sec = 1 /\ dlog'.state \in {"ready", "failed"}
    BY <1>5, RestsAre DEF Logs, States
  <2>2. LogInv'
    BY <1>1, <1>2, <1>3, <1>4, <2>1, FreshTyped
  <2> QED BY <1>1, <2>1, <2>2
<1>6. CASE dlog' = [dlog EXCEPT !.sec = n] /\ dlog.sec # dlog.wipe
  <2>1. n \in Sectors /\ n <= dlog.wipe
    <3>1. dlog.sec \in Sectors /\ dlog.wipe \in 0 .. NSec
      BY <1>2 DEF Logs
    <3>2. dlog.sec < dlog.wipe /\ dlog.sec < NSec /\ dlog.sec + 1 <= dlog.wipe
      BY <1>2, <1>6, <3>1, DlogConstants DEF Sectors
    <3> QED BY <3>1, <3>2, NextSector
  <2> HIDE DEF n
  <2>2. /\ dlog' \in Logs /\ dlog'.cur = dlog.cur /\ dlog'.taken = dlog.taken
        /\ dlog'.dirty = dlog.dirty /\ dlog'.wipe = dlog.wipe /\ dlog'.sec = n
        /\ dlog'.state = "wiping"
    BY <1>1, <1>2, <1>6, <2>1 DEF Logs
  <2>3. LogTypes'
    BY <1>1, <1>3, <1>4, <2>2, RestsAre DEF LogInv, LogTypes
  <2>4. LogPlaces'
    BY <1>3, <2>1, <2>2, RestsAre DEF LogInv, LogPlaces
  <2> QED BY <1>1, <2>2, <2>3, <2>4 DEF LogInv
<1> QED BY <1>1, <1>5, <1>6

LEMMA ActivateTyped ==
  ASSUME LogInv, DlogActivate
  PROVE  /\ LogInv' /\ dram' = dram /\ file' = file /\ answer' = answer
         /\ dlog.state = "ready" /\ ~dlog.abandoned
         /\ Stays /\ dlog'.taken = dlog.taken /\ dlog'.state = "active"
<1>1. /\ dlog' = [dlog EXCEPT !.state = "active"] /\ flush' = flush /\ file' = file /\ dram' = dram
      /\ answer' = answer /\ dlog.state = "ready" /\ ~dlog.abandoned
  BY DEF DlogActivate
<1>2. dlog \in Logs
  BY DEF LogInv, LogTypes
<1>3. /\ dlog' \in Logs /\ dlog'.cur = dlog.cur /\ dlog'.taken = dlog.taken /\ dlog'.sec = dlog.sec
      /\ dlog'.dirty = dlog.dirty /\ dlog'.state = "active"
  BY <1>1, <1>2 DEF Logs, States
<1>4. LogInv'
  BY <1>1, <1>3 DEF LogInv, LogTypes, LogPlaces
<1> QED BY <1>1, <1>3, <1>4 DEF Stays

-----------------------------------------------------------------------------
(* What DRAM may have of the ring *)

\* The lines whose indices have not been pushed.
Putting == {calls[who].line : who \in {w \in Callers : calls[w].at = "put"}}

\* v is the indices of p units released and a part of those held: past them are only lines that
\* are being put.
Window(v, p, held, lines) ==
  /\ v.from <= p /\ p <= v.to /\ v.to <= p + Len(held) /\ v.to - v.from <= RingSize
  /\ \A k \in 1 .. Len(held) : p + k > v.to => held[k][1] \in lines

Calling == [Callers -> [at : {"no", "put", "head"}, line : 0 .. MaxLines]]

Windows ==
  /\ calls \in Calling
  /\ \A v \in dram.older : Window(v, Len(dram.past), dram.held, Putting)

LEMMA VersionWindow ==
  ASSUME LogInv, NEW lines
  PROVE  Window(Version, Len(dram.past), dram.held, lines)
<1> DEFINE p == Len(dram.past)
           n == Len(dram.held)
           v == Version
<1>1. p \in Nat /\ n \in Nat /\ v.from = p /\ v.to = p + n /\ n <= RingSize /\ RingSize \in Nat
  BY VersionIs, DlogConstants DEF LogInv, LogTypes
<1> HIDE DEF p, n, v
<1>2. v.from <= p /\ p <= v.to /\ v.to <= p + n /\ v.to - v.from <= RingSize
      /\ \A k \in 1 .. n : ~(p + k > v.to)
  BY <1>1
<1> QED BY <1>2 DEF Window, p, n, v

LEMMA WindowGrows ==
  ASSUME NEW v \in Versions, NEW p \in Nat, NEW held \in Texts, NEW text \in Texts,
         NEW lines, NEW more, lines \subseteq more,
         \A j \in 1 .. Len(text) : text[j][1] \in more,
         Window(v, p, held, lines)
  PROVE  Window(v, p, held \o text, more)
<1> DEFINE n == Len(held)
           m == Len(text)
           both == held \o text
<1>1. /\ n \in Nat /\ m \in Nat /\ Len(both) = n + m
      /\ \A i \in 1 .. n + m : both[i] = IF i <= n THEN held[i] ELSE text[i - n]
  BY ConcatProperties, LenProperties DEF Texts
<1>2. /\ v.from <= p /\ p <= v.to /\ v.to <= p + n /\ v.to - v.from <= RingSize
      /\ \A k \in 1 .. n : p + k > v.to => held[k][1] \in lines
      /\ v.to \in Nat
  BY DEF Window, Versions
<1> HIDE DEF n, m, both
<1>3. v.to <= p + (n + m)
  BY <1>1, <1>2
<1>4. ASSUME NEW k \in 1 .. n + m, p + k > v.to PROVE both[k][1] \in more
  <2>1. CASE k <= n
    <3>1. k \in 1 .. n /\ both[k] = held[k]
      BY <1>1, <2>1
    <3> QED BY <1>2, <1>4, <3>1
  <2>2. CASE ~(k <= n)
    <3>1. k - n \in 1 .. m /\ both[k] = text[k - n]
      BY <1>1, <2>2
    <3> QED BY <3>1 DEF m
  <2> QED BY <2>1, <2>2
<1> QED BY <1>1, <1>2, <1>3, <1>4 DEF Window, both

LEMMA OlderAre == ASSUME LogInv PROVE \A v \in dram.older : v \in Versions
BY DEF LogInv, LogTypes, Drams

\* The window stays where the ring does, and the version of now is one.
LEMMA SameRing ==
  ASSUME LogInv, Windows, calls' = calls,
         dram'.held = dram.held, dram'.past = dram.past,
         dram'.older \subseteq dram.older \union {Version}
  PROVE  Windows'
<1>1. ASSUME NEW v \in dram'.older PROVE Window(v, Len(dram.past), dram.held, Putting)
  BY <1>1, VersionWindow DEF Windows
<1>2. Putting' = Putting
  BY DEF Putting
<1> QED BY <1>1, <1>2 DEF Windows

LEMMA LineIs == \A n : Len(Line(n)) = 2 /\ \A j \in 1 .. Len(Line(n)) : Line(n)[j][1] = n
<1> SUFFICES ASSUME NEW n PROVE Len(Line(n)) = 2 /\ \A j \in 1 .. 2 : Line(n)[j][1] = n
  BY DEF Line
<1>1. Len(Line(n)) = 2 /\ Line(n)[1] = Text(n) /\ Line(n)[2] = End(n)
  BY DEF Line
<1>2. Text(n)[1] = n /\ End(n)[1] = n
  BY DEF Text, End
<1>3. \A j \in 1 .. 2 : j = 1 \/ j = 2
  OBVIOUS
<1> QED BY <1>1, <1>2, <1>3

LEMMA PrintfWindows ==
  ASSUME LogInv, Windows, NEW who \in Callers, DlogPrintf(who)
  PROVE  Windows'
<1> DEFINE n == answer.lines + 1
           text == Line(n)
           p == Len(dram.past)
<1>1. /\ dram' = Put(text) /\ answer.lines < MaxLines
      /\ calls' = [calls EXCEPT ![who] = [at |-> "put", line |-> n]]
      /\ calls[who].at = "no"
  BY DEF DlogPrintf, NoInterrupt, MainGoesOn, Callers
<1>2. n \in 1 .. MaxLines /\ n \in 0 .. MaxLines
  <2>1. answer.lines \in 0 .. MaxLines
    BY DEF LogInv, LogTypes
  <2> QED BY <1>1, <2>1, DlogConstants
<1>3. text \in Texts /\ \A j \in 1 .. Len(text) : text[j][1] = n
  BY <1>2, UnitsAre, LineIs
<1>4. calls' \in Calling
  BY <1>1, <1>2 DEF Windows, Calling
<1>5. Putting \subseteq Putting' /\ n \in Putting'
  <2>1. calls'[who].at = "put" /\ calls'[who].line = n
    BY <1>1 DEF Windows, Calling
  <2>2. \A w \in Callers : calls[w].at = "put" => w # who /\ calls'[w] = calls[w]
    BY <1>1 DEF Windows, Calling
  <2> QED BY <2>1, <2>2 DEF Putting
<1> HIDE DEF text, n
<1>6. /\ dram \in Drams /\ dram.held \in Texts /\ p \in Nat
      /\ dram'.past = dram.past /\ dram'.older = dram.older \union {Version}
      /\ dram'.held = dram.held \/ dram'.held = dram.held \o text
  <2>1. dram \in Drams /\ Len(dram.held) <= RingSize
    BY DEF LogInv, LogTypes
  <2> QED BY <1>1, <1>3, <2>1, PutIs, LenProperties DEF Drams, Texts
<1>7. ASSUME NEW v \in dram'.older PROVE Window(v, p, dram'.held, Putting')
  <2>1. v \in Versions /\ Window(v, p, dram.held, Putting)
    BY <1>6, <1>7, VersionWindow, VersionIs, OlderAre DEF Windows
  <2>2. Window(v, p, dram.held \o text, Putting')
    BY <1>3, <1>5, <1>6, <2>1, WindowGrows
  <2>3. Window(v, p, dram.held, Putting')
    BY <1>5, <2>1 DEF Window
  <2> QED BY <1>6, <2>2, <2>3
<1> QED BY <1>4, <1>6, <1>7 DEF Windows

LEMMA PushWindows ==
  ASSUME LogInv, Windows, NEW who \in Callers, PushIndices(who) \/ PushLine(who)
  PROVE  Windows'
<1>1. CASE PushIndices(who)
  <2>1. /\ dram' = [dram EXCEPT !.past = << >>, !.older = {}]
        /\ calls' = [calls EXCEPT ![who].at = "head"]
    BY <1>1 DEF PushIndices
  <2>2. calls' \in Calling
    BY <2>1 DEF Windows, Calling
  <2>3. dram'.older = {}
    BY <2>1 DEF LogInv, LogTypes, Drams
  <2> QED BY <2>2, <2>3 DEF Windows
<1>2. CASE PushLine(who)
  <2>1. /\ dram' = dram /\ calls[who].at = "head"
        /\ calls' = [calls EXCEPT ![who] = [at |-> "no", line |-> 0]]
    BY <1>2 DEF PushLine
  <2>2. 0 \in 0 .. MaxLines
    BY DlogConstants
  <2>3. calls' \in Calling
    BY <2>1, <2>2 DEF Windows, Calling
  <2>4. Putting' = Putting
    <3>1. \A w \in Callers : calls'[w].at = "put" <=> calls[w].at = "put"
      BY <2>1 DEF Windows, Calling
    <3>2. \A w \in Callers : calls[w].at = "put" => calls'[w] = calls[w]
      BY <2>1 DEF Windows, Calling
    <3> QED BY <3>1, <3>2 DEF Putting
  <2> QED BY <2>1, <2>3, <2>4 DEF Windows
<1> QED BY <1>1, <1>2

(* While the main loop goes on, no line is being put: every version has all that is held. *)
LEMMA PutWindows == ASSUME LogInv, Windows, PutSector PROVE Windows'
<1>1. MainGoesOn /\ calls' = calls /\ (dram' = dram \/ dram' = Forgotten)
  BY DEF PutSector, AfterPut
<1>2. CASE dram' = dram
  BY <1>1, <1>2, SameRing
<1>3. CASE dram' = Forgotten
  <2> DEFINE p == Len(dram.past)
             n == Len(dram.held)
             t == dlog.taken
  <2>1. Putting = {}
    BY <1>1 DEF Putting, MainGoesOn, NoInterrupt, Callers
  <2>2. /\ p \in Nat /\ n \in Nat /\ t \in Nat /\ t <= n
        /\ dram'.older = dram.older \union {Version}
        /\ Len(dram'.past) = p + t /\ Len(dram'.held) = n - t
    BY <1>3, ForgottenIs, VersionIs DEF LogInv, LogTypes, Logs
  <2>3. ASSUME NEW v \in dram'.older
        PROVE  Window(v, Len(dram'.past), dram'.held, Putting')
    <3>1. v \in Versions /\ Window(v, p, dram.held, {})
      <4>1. CASE v \in dram.older
        BY <4>1, <2>1, OlderAre DEF Windows
      <4>2. CASE v = Version
        <5>1. dram \in Drams
          BY DEF LogInv, LogTypes
        <5> QED BY <4>2, <5>1, VersionWindow, VersionIs
      <4> QED BY <4>1, <4>2, <2>2, <2>3
    <3>2. v.from <= p /\ p <= v.to /\ v.to <= p + n /\ v.to - v.from <= RingSize
          /\ (\A k \in 1 .. n : ~(p + k > v.to)) /\ v.to \in Nat /\ v.from \in Nat
      BY <3>1 DEF Window, Versions
    <3> HIDE DEF p, n, t
    <3>3. v.to = p + n
      <4>1. CASE n = 0
        BY <2>2, <3>2, <4>1
      <4>2. CASE n # 0
        <5>1. n \in 1 .. n
          BY <2>2, <4>2
        <5>2. ~(p + n > v.to)
          BY <3>2, <5>1
        <5> QED BY <2>2, <3>2, <5>2
      <4> QED BY <4>1, <4>2
    <3>4. /\ v.from <= p + t /\ p + t <= v.to /\ v.to <= (p + t) + (n - t)
          /\ \A k \in 1 .. n - t : ~((p + t) + k > v.to)
      BY <2>2, <3>2, <3>3
    <3> QED BY <2>2, <3>2, <3>4 DEF Window
  <2> QED BY <1>1, <2>3 DEF Windows
<1> QED BY <1>1, <1>2, <1>3

LEMMA RestartWindows ==
  ASSUME dram'.older = {}, calls' = NoCalls
  PROVE  Windows'
<1>1. 0 \in 0 .. MaxLines
  BY DlogConstants
<1>2. calls' \in Calling
  BY <1>1 DEF NoCalls, Calling
<1> QED BY <1>2 DEF Windows

LEMMA WindowsInit == DlogInit => Windows
<1>1. 0 \in 0 .. MaxLines
  BY DlogConstants
<1> QED BY <1>1 DEF DlogInit, Windows, Calling, NoCalls, Empty

LEMMA WindowsStep ==
  ASSUME LogInv, Windows, [DlogNext]_dlogVars
  PROVE  Windows'
<1>1. ASSUME NEW who \in Callers, DlogPrintf(who) PROVE Windows'
  BY <1>1, PrintfWindows
<1>2. ASSUME NEW who \in Callers, PushIndices(who) \/ PushLine(who) PROVE Windows'
  BY <1>2, PushWindows
<1>3. CASE dram' = dram /\ calls' = calls
  BY <1>3, SameRing
<1>4. CASE DlogPoll
  <2>1. calls' = calls
    BY <1>4 DEF DlogPoll
  <2>2. /\ dram'.held = dram.held /\ dram'.past = dram.past
        /\ dram' = dram \/ dram'.older = dram.older \union {Version}
    BY <1>4, PollTyped
  <2> QED BY <2>1, <2>2, SameRing
<1>5. CASE PutSector
  BY <1>5, PutWindows
<1>6. CASE WarmReset
  <2>1. dram'.older = {} /\ calls' = NoCalls
    <3>1. PICK lost, held : dram' = [Empty EXCEPT !.lost = lost, !.held = held]
      BY <1>6 DEF WarmReset
    <3> QED BY <1>6, <3>1 DEF WarmReset, Empty
  <2> QED BY <2>1, RestartWindows
<1>7. CASE PowerCut
  <2>1. dram'.older = {} /\ calls' = NoCalls
    BY <1>7 DEF PowerCut, Empty
  <2> QED BY <2>1, RestartWindows
<1> QED BY <1>1, <1>2, <1>3, <1>4, <1>5, <1>6, <1>7
        DEF DlogNext, DlogNoCard, DlogPrepare, WipeSector, DlogActivate, DlogPollLooks, FlushFill,
            HostWrites, dlogVars

LEMMA WithoutTyped == ASSUME NEW text \in Texts, NEW lines PROVE Without(text, lines) \in Texts
<1> DEFINE e == [i \in 1 .. Len(text) |-> i]
<1>1. Len(text) \in Nat
  BY LenProperties DEF Texts
<1>2. /\ e \in [1 .. Len(text) -> Nat]
      /\ \A i, j \in 1 .. Len(text) : i < j => e[i] < e[j]
      /\ \A i \in 1 .. Len(text) : e[i] \in 1 .. Len(text) /\ text[e[i]] = text[i]
  BY <1>1
<1> HIDE DEF e
<1> QED BY <1>2, WithoutInside DEF Texts

(* What a reset keeps: the same units from some place on, but for the lines being put. *)
Keeps(held, kept, lines) ==
  \E shift \in Nat : \A k \in 1 .. Len(held) :
    held[k][1] \notin lines => k + shift \in 1 .. Len(kept) /\ kept[k + shift] = held[k]

LEMMA ResetTyped ==
  ASSUME LogInv, Windows, WarmReset
  PROVE  /\ LogInv' /\ file' = file /\ dlog'.state = "off"
         /\ answer'.for = Without(answer.for, Unreturned)
         /\ Keeps(dram.held, dram'.held, Unreturned)
<1> DEFINE ring == dram.past \o dram.held
           p == Len(dram.past)
           n == Len(dram.held)
           Doubtful(i) == ring[i][1] \in Unreturned \/ i + RingSize <= Len(ring)
           f == Without(answer.for, Unreturned)
<1>1. /\ dram \in Drams /\ dram.held \in Texts /\ dram.past \in Texts /\ n <= RingSize
      /\ file \in [Sectors -> Texts] /\ \A s \in Sectors : Len(file[s]) <= SecSize
      /\ answer \in Answering /\ answer.for \in Texts /\ RingSize \in Nat
  BY DlogConstants DEF LogInv, LogTypes, Drams, Answering
<1>2. /\ dlog' = Off /\ flush' = Resting /\ file' = file
      /\ answer' = [answer EXCEPT !.for = f]
  BY <1>1 DEF WarmReset, Answering
<1>3. PICK v \in dram.older \union {Version} :
        \E bad \in SUBSET {i \in v.from + 1 .. v.to : Doubtful(i)} :
          dram' = [Empty EXCEPT !.lost = v.lost,
                     !.held = [j \in 1 .. v.to - v.from |->
                                 IF v.from + j \in bad THEN Stale ELSE ring[v.from + j]]]
  BY DEF WarmReset
<1> PICK bad \in SUBSET {i \in v.from + 1 .. v.to : Doubtful(i)} :
          dram' = [Empty EXCEPT !.lost = v.lost,
                     !.held = [j \in 1 .. v.to - v.from |->
                                 IF v.from + j \in bad THEN Stale ELSE ring[v.from + j]]]
  BY <1>3
<1>4. v \in Versions /\ Window(v, p, dram.held, Putting)
  BY <1>1, <1>3, VersionWindow, VersionIs, OlderAre DEF Windows
<1>5. /\ p \in Nat /\ n \in Nat /\ Len(ring) = p + n
      /\ \A i \in 1 .. p + n : ring[i] \in Units
      /\ \A k \in 1 .. n : p + k \in 1 .. p + n /\ ring[p + k] = dram.held[k]
  <2>1. /\ p \in Nat /\ n \in Nat /\ Len(ring) = p + n
        /\ \A i \in 1 .. p + n : ring[i] = IF i <= p THEN dram.past[i] ELSE dram.held[i - p]
    BY <1>1, ConcatProperties, LenProperties DEF Texts
  <2>2. ring \in Seq(Units)
    BY <1>1, ConcatProperties DEF Texts
  <2>3. \A i \in 1 .. p + n : ring[i] \in Units
    BY <2>1, <2>2, ElementOfSeq
  <2> HIDE DEF p, n, ring
  <2>4. \A k \in 1 .. n : p + k \in 1 .. p + n /\ ~(p + k <= p) /\ (p + k) - p = k
    BY <2>1
  <2> QED BY <2>1, <2>3, <2>4
<1>6. /\ v.from <= p /\ p <= v.to /\ v.to <= p + n /\ v.to - v.from <= RingSize
      /\ \A k \in 1 .. n : p + k > v.to => dram.held[k][1] \in Putting
      /\ v.from \in Nat /\ v.to \in Nat /\ v.lost \in Nat
  BY <1>4 DEF Window, Versions
<1> DEFINE m == v.to - v.from
           h == [j \in 1 .. m |-> IF v.from + j \in bad THEN Stale ELSE ring[v.from + j]]
<1>7. m \in Nat /\ m <= RingSize
  BY <1>6
<1>8. h \in Texts /\ Len(h) = m
  <2>1. Stale \in Units
    <3>1. -1 \in -1 .. MaxLines
      BY DlogConstants
    <3> QED BY <3>1 DEF Stale, Units
  <2>2. \A j \in 1 .. m : v.from + j \in 1 .. p + n
    <3>1. v.from \in Nat /\ v.to \in Nat /\ v.to <= p + n /\ p \in Nat /\ n \in Nat
      BY <1>5, <1>6
    <3> HIDE DEF p, n
    <3> QED BY <3>1
  <2>4. ASSUME NEW j \in 1 .. m PROVE (IF v.from + j \in bad THEN Stale ELSE ring[v.from + j]) \in Units
    <3> HIDE DEF ring, m, p, n
    <3> QED BY <1>5, <2>1, <2>2
  <2>3. h \in [1 .. m -> Units]
    <3> HIDE DEF ring, m, p, n
    <3> QED BY <2>4
  <2> HIDE DEF h
  <2> QED BY <1>7, <2>3 DEF Texts
<1>9. Putting \subseteq Unreturned
  BY DEF Putting, Unreturned
<1>10. ASSUME NEW k \in 1 .. n, dram.held[k][1] \notin Unreturned
       PROVE  k + (p - v.from) \in 1 .. m /\ h[k + (p - v.from)] = dram.held[k]
  <2> DEFINE j == k + (p - v.from)
  <2>1. ~(p + k > v.to)
    BY <1>6, <1>9, <1>10
  <2>2. j \in 1 .. m /\ v.from + j = p + k
    BY <1>5, <1>6, <2>1
  <2>3. ring[p + k] = dram.held[k] /\ Len(ring) = p + n
    BY <1>5
  <2>4. ~(p + k + RingSize <= p + n)
    <3>1. n <= RingSize /\ RingSize \in Nat /\ k \in Nat /\ k >= 1
      BY <1>1, <1>5, DlogConstants DEF LogInv, LogTypes
    <3> HIDE DEF p, n
    <3> QED BY <1>5, <3>1
  <2>5. ~Doubtful(p + k)
    BY <1>10, <2>3, <2>4
  <2>6. p + k \notin bad
    BY <2>5
  <2> HIDE DEF j, ring, Doubtful, m
  <2>7. h[j] = ring[v.from + j]
    BY <2>2, <2>6
  <2> QED BY <2>2, <2>3, <2>7 DEF j
<1>11. p - v.from \in Nat
  BY <1>5, <1>6
<1>12. dram' = [Empty EXCEPT !.lost = v.lost, !.held = h]
  OBVIOUS
<1> HIDE DEF h, m, f, ring, p, n
<1>13. dram' \in Drams /\ dram'.held = h
  <2>1. << >> \in Texts
    BY UnitsAre DEF Pad
  <2> QED BY <1>6, <1>8, <1>12, <2>1 DEF Empty, Drams
<1>14. answer' \in Answering /\ answer'.for = f
  <2>1. f \in Texts
    BY <1>1, WithoutTyped DEF f
  <2> QED BY <1>1, <1>2, <2>1 DEF Answering
<1>15. LogInv'
  BY <1>1, <1>2, <1>7, <1>8, <1>13, <1>14, RestsAre, FreshTyped
<1>16. Keeps(dram.held, dram'.held, Unreturned)
  BY <1>8, <1>10, <1>11, <1>13 DEF Keeps, n
<1> QED BY <1>2, <1>14, <1>15, <1>16, RestsAre DEF f

LEMMA PowerTyped ==
  ASSUME LogInv, PowerCut
  PROVE  /\ LogInv' /\ file' = file /\ dram'.held = << >> /\ dlog'.state = "off"
         /\ answer'.for = SubSeq(answer.for, 1, Len(answer.for) - Len(dram.held))
<1> DEFINE f == SubSeq(answer.for, 1, Len(answer.for) - Len(dram.held))
<1>1. /\ dram.held \in Texts /\ answer \in Answering /\ answer.for \in Texts
      /\ file \in [Sectors -> Texts] /\ \A s \in Sectors : Len(file[s]) <= SecSize
  BY DEF LogInv, LogTypes, Drams, Answering
<1>2. /\ dlog' = Off /\ flush' = Resting /\ file' = file
      /\ answer' = [answer EXCEPT !.for = f]
      /\ dram' = Empty
  BY <1>1 DEF PowerCut, Answering
<1>3. f \in Texts
  <2> DEFINE a == answer.for
             k == Len(a) - Len(dram.held)
  <2>1. Len(a) \in Nat /\ k \in Int /\ k <= Len(a)
    <3> DEFINE la == Len(a)
               lh == Len(dram.held)
    <3>1. la \in Nat /\ lh \in Nat
      BY <1>1, LenProperties DEF Texts
    <3>2. la - lh \in Int /\ la - lh <= la
      <4> HIDE DEF la, lh
      <4> QED BY <3>1
    <3> QED BY <3>1, <3>2
  <2>2. \A i \in 1 .. k : a[i] \in Units
    <3>1. \A i \in 1 .. k : i \in 1 .. Len(a)
      BY <2>1
    <3> QED BY <1>1, <3>1, ElementOfSeq DEF Texts
  <2> HIDE DEF a, k
  <2>3. SubSeq(a, 1, k) \in Seq(Units)
    BY <2>1, <2>2, SubSeqProperties
  <2> QED BY <2>3 DEF a, k, Texts
<1>4. dram' \in Drams /\ dram'.held = << >> /\ Len(dram'.held) <= RingSize
  BY <1>2, EmptyIs
<1> HIDE DEF f
<1>5. answer' \in Answering /\ answer'.for = f
  BY <1>1, <1>2, <1>3 DEF Answering
<1>6. LogInv'
  BY <1>1, <1>2, <1>4, <1>5, RestsAre, FreshTyped
<1> QED BY <1>2, <1>4, <1>5, <1>6, RestsAre DEF f

-----------------------------------------------------------------------------
(* What the log keeps *)

\* What of the log's is on the card or safe in the sector being filled, and what is held.
Filling ==
  /\ dlog.sec <= FoundIn(file)
  /\ \E p \in Texts :
       /\ Inside(p, file[dlog.sec]) /\ Inside(p, Safe(dlog.cur, dlog.taken))
       /\ dlog.sec = NSec => p = Pad
       /\ Inside(answer.for, (Upto(file, dlog.sec - 1) \o p) \o dram.held)

Kept ==
  /\ dlog.state = "wiping" => Inside(answer.for, dram.held)
  /\ dlog.state \in {"ready", "active"} /\ ~dlog.abandoned => Filling
  /\ Inside(answer.for, Upto(file, FoundIn(file) - 1) \o dram.held)

(* The parts, as sequences of units. *)
LEMMA PartsAre ==
  ASSUME LogInv
  PROVE  /\ dram.held \in Texts /\ answer.for \in Texts /\ dlog.cur \in Texts
         /\ dlog.sec \in Sectors /\ dlog.sec \in Ends /\ dlog.taken \in Nat
         /\ dlog.sec - 1 \in 0 .. NSec /\ dlog.sec \in 1 .. NSec
         /\ \A s \in Sectors : file[s] \in Texts
         /\ \A b \in 0 .. NSec : Upto(file, b) \in Texts
         /\ FoundIn(file) \in Ends /\ FoundIn(file) - 1 \in 0 .. NSec
<1>1. /\ dram.held \in Texts /\ answer.for \in Texts /\ dlog.cur \in Texts
      /\ dlog.sec \in Sectors /\ dlog.taken \in Nat
      /\ \A s \in Sectors : file[s] \in Texts
  BY DEF LogInv, LogTypes, Drams, Logs
<1>2. dlog.sec \in Ends /\ dlog.sec - 1 \in 0 .. NSec /\ dlog.sec \in 1 .. NSec
  BY <1>1, DlogConstants DEF Sectors, Ends
<1>3. \A b \in 0 .. NSec : Upto(file, b) \in Texts
  BY <1>1, UptoIs DEF Texts
<1>4. FoundIn(file) \in Ends /\ FoundIn(file) - 1 \in 0 .. NSec
  <2>1. FoundIn(file) \in Ends
    BY FoundIsEdge
  <2> QED BY <2>1, DlogConstants DEF Ends
<1> QED BY <1>1, <1>2, <1>3, <1>4

Regroups(a, b, c) == a \o (b \o c) = (a \o b) \o c

LEMMA Regroup ==
  ASSUME NEW a \in Texts, NEW b \in Texts, NEW c \in Texts
  PROVE  Regroups(a, b, c)
<1>1. a \in Seq(Units) /\ b \in Seq(Units) /\ c \in Seq(Units)
  BY DEF Texts
<1>2. (a \o b) \o c = a \o (b \o c)
  BY <1>1, ConcatAssociative
<1> QED BY <1>2 DEF Regroups

LEMMA InsideLeft ==
  ASSUME NEW a \in Texts, NEW b \in Texts, NEW c \in Texts, NEW d \in Texts,
         Inside(a, b \o c), Inside(b, d)
  PROVE  Inside(a, d \o c)
<1>1. b \o c \in Texts /\ d \o c \in Texts
  BY ConcatProperties DEF Texts
<1>2. Inside(b \o c, d \o c)
  BY InsideItself, InsideConcat DEF Texts
<1> QED BY <1>1, <1>2, InsideChain DEF Texts

LEMMA InsideAfter ==
  ASSUME NEW a \in Texts, NEW b \in Texts, NEW c \in Texts, Inside(a, c)
  PROVE  Inside(a, b \o c)
<1>1. << >> \in Texts /\ << >> \o a = a
  BY ConcatEmptySeq DEF Texts
<1>2. Inside(<< >>, b)
  BY InsideNothing DEF Texts
<1>3. Inside(<< >> \o a, b \o c)
  BY <1>1, <1>2, InsideConcat DEF Texts
<1> QED BY <1>1, <1>3

LEMMA InsideBefore ==
  ASSUME NEW a \in Texts, NEW b \in Texts, NEW c \in Texts, Inside(a, b)
  PROVE  Inside(a, b \o c)
<1>1. << >> \in Texts /\ a \o << >> = a
  BY ConcatEmptySeq DEF Texts
<1>2. Inside(<< >>, c)
  BY InsideNothing DEF Texts
<1>3. Inside(a \o << >>, b \o c)
  BY <1>1, <1>2, InsideConcat DEF Texts
<1> QED BY <1>1, <1>3

LEMMA InsideEmpty == ASSUME NEW p \in Texts, Inside(p, Pad) PROVE p = Pad
<1>1. PICK g : Embeds(g, p, Pad)
  BY DEF Inside
<1>2. Len(p) \in Nat /\ Len(Pad) = 0
  BY UnitsAre, LenProperties DEF Texts
<1>3. g \in [1 .. Len(p) -> 1 .. 0]
  BY <1>1, <1>2 DEF Embeds
<1>4. Len(p) = 0
  <2>1. ASSUME Len(p) # 0 PROVE FALSE
    <3>1. 1 \in 1 .. Len(p)
      BY <1>2, <2>1
    <3>2. g[1] \in 1 .. 0
      BY <1>3, <3>1
    <3> QED BY <3>2
  <2> QED BY <2>1
<1> QED BY <1>4, EmptySeq DEF Pad, Texts

(* A boot would find all of it. *)
LEMMA FillingIsFound ==
  ASSUME LogInv, Filling
  PROVE  Inside(answer.for, Upto(file, FoundIn(file) - 1) \o dram.held)
<1> DEFINE e == FoundIn(file)
           u == Upto(file, dlog.sec - 1)
           v == Upto(file, e - 1)
<1>1. PICK p \in Texts :
       /\ Inside(p, file[dlog.sec])
       /\ Inside(answer.for, (u \o p) \o dram.held)
  BY DEF Filling
<1>2. /\ dram.held \in Texts /\ answer.for \in Texts
      /\ dlog.sec \in Sectors /\ dlog.sec - 1 \in 0 .. NSec /\ dlog.sec \in 1 .. NSec
      /\ \A s \in Sectors : file[s] \in Texts
      /\ u \in Texts /\ v \in Texts
      /\ e \in Ends /\ e - 1 \in 0 .. NSec /\ dlog.sec <= e /\ NSec \in Nat
  BY PartsAre, DlogConstants DEF Filling
<1>3. u \o p \in Texts
  BY <1>2, ConcatProperties DEF Texts
<1>4. CASE dlog.sec = e
  <2>1. e <= NSec /\ file[e] = Pad
    BY <1>2, <1>4, FoundIsEdge DEF Sectors
  <2>2. p = Pad
    BY <1>1, <1>4, <2>1, InsideEmpty
  <2>3. u \o p = u
    BY <1>2, <2>2, ConcatEmptySeq DEF Pad, Texts
  <2> QED BY <1>1, <1>4, <2>3
<1>5. CASE dlog.sec # e
  <2> DEFINE w == Upto(file, dlog.sec)
  <2>1. dlog.sec \in 0 .. NSec /\ e - 1 \in dlog.sec .. NSec
    BY <1>2, <1>5 DEF Ends
  <2>2. w = u \o file[dlog.sec] /\ w \in Texts
    BY <1>2, <2>1, UptoIs DEF Texts
  <2>3. Inside(w, v)
    BY <1>2, <2>1, UptoGrows DEF Texts
  <2>4. Inside(u \o p, u \o file[dlog.sec])
    BY <1>1, <1>2, InsideItself, InsideConcat DEF Texts
  <2> HIDE DEF u, v, w
  <2>5. Inside(u \o p, v)
    BY <1>2, <1>3, <2>2, <2>3, <2>4, InsideChain DEF Texts
  <2>6. Inside(answer.for, v \o dram.held)
    BY <1>1, <1>2, <1>3, <2>5, InsideLeft
  <2> QED BY <2>6 DEF v
<1> QED BY <1>4, <1>5

(* Nothing vanishes where all is kept. *)
LEMMA KeptIsEnough == ASSUME LogInv, Kept PROVE NothingVanishes
<1> DEFINE e == FoundIn(file) - 1
           u == Upto(file, e)
           v == Upto(file, NSec)
<1>1. /\ dram.held \in Texts /\ answer.for \in Texts /\ u \in Texts /\ v \in Texts
      /\ e \in 0 .. NSec /\ NSec \in 0 .. NSec /\ NSec \in e .. NSec
      /\ \A s \in Sectors : file[s] \in Texts
  BY PartsAre, DlogConstants
<1>2. Inside(answer.for, u \o dram.held)
  BY DEF Kept
<1>3. Inside(u, v)
  BY <1>1, UptoGrows DEF Texts
<1>4. Inside(answer.for, v \o dram.held)
  <2> HIDE DEF u, v
  <2> QED BY <1>1, <1>2, <1>3, InsideLeft
<1>5. Log = v \o dram.held
  BY DEF Log, InFile, Upto, Sectors
<1>6. v \o dram.held \in Texts
  BY <1>1, ConcatProperties DEF Texts
<1> QED BY <1>1, <1>4, <1>5, <1>6, InsideIsKept DEF Texts

(* The same of the state a step leads to. *)
LEMMA FoundNow ==
  LogInv /\ Filling => Inside(answer.for, Upto(file, FoundIn(file) - 1) \o dram.held)
BY FillingIsFound

LEMMA FoundNext ==
  (LogInv /\ Filling => Inside(answer.for, Upto(file, FoundIn(file) - 1) \o dram.held))'
BY FoundNow, PTL

Parts ==
  /\ dram.held \in Texts /\ answer.for \in Texts /\ dlog.cur \in Texts
  /\ dlog.sec \in Sectors /\ dlog.sec \in Ends /\ dlog.taken \in Nat
  /\ dlog.sec - 1 \in 0 .. NSec /\ dlog.sec \in 1 .. NSec
  /\ \A s \in Sectors : file[s] \in Texts
  /\ \A b \in 0 .. NSec : Upto(file, b) \in Texts
  /\ FoundIn(file) \in Ends /\ FoundIn(file) - 1 \in 0 .. NSec

LEMMA PartsNow == LogInv => Parts
BY PartsAre DEF Parts

LEMMA PartsNext == (LogInv => Parts)'
BY PartsNow, PTL

LEMMA SafeWhole ==
  ASSUME NEW held \in Texts, NEW n \in Nat, n = 0
  PROVE  SubSeq(held, n + 1, Len(held)) = held
<1>1. n + 1 = 1
  OBVIOUS
<1> QED BY <1>1, SubSeqFull DEF Texts

LEMMA SafeParts ==
  ASSUME LogInv
  PROVE  /\ Splits(dlog.cur, dlog.taken, dram.held)
         /\ dlog.taken = 0 => SubSeq(dram.held, dlog.taken + 1, Len(dram.held)) = dram.held
<1>1. /\ dram.held \in Texts /\ dlog.cur \in Texts /\ dlog.taken \in Nat
      /\ dlog.taken <= Len(dlog.cur) /\ dlog.taken <= Len(dram.held)
      /\ Shared(dlog.cur, dlog.taken, dram.held)
  BY DEF LogInv, LogTypes, Logs, Drams
<1> QED BY <1>1, SafeIs, SafeWhole

LEMMA SafeNow == LogInv => Safe(dlog.cur, dlog.taken) \in Texts
BY SafeParts DEF Splits

LEMMA SafeNext == (LogInv => Safe(dlog.cur, dlog.taken) \in Texts)'
BY SafeNow, PTL

(* Where the log fills its file, its filling is all there is to show. *)
LEMMA KeptByFilling ==
  ASSUME LogInv', Filling', dlog'.state # "wiping"
  PROVE  Kept'
BY FoundNext DEF Kept

LEMMA KeptByHeld ==
  ASSUME LogInv', Inside(answer'.for, dram'.held),
         dlog'.state \in {"ready", "active"} /\ ~dlog'.abandoned => Filling'
  PROVE  Kept'
<1>1. Inside(answer'.for, Upto(file', FoundIn(file') - 1) \o dram'.held)
  <2> DEFINE e == FoundIn(file') - 1
             v == Upto(file', e)
  <2>1. e \in 0 .. NSec /\ answer'.for \in Texts /\ dram'.held \in Texts
    BY PartsNext DEF Parts
  <2>2. v \in Texts
    BY <2>1, PartsNext DEF Parts
  <2> HIDE DEF v
  <2>3. Inside(answer'.for, v \o dram'.held)
    BY <2>1, <2>2, InsideAfter
  <2> QED BY <2>3 DEF v
<1> QED BY <1>1 DEF Kept

(* What is put is held behind the rest. *)
LEMMA PutsInside ==
  ASSUME NEW text \in Texts, Puts(text), LogInv, NEW b \in Texts,
         Inside(answer.for, b \o dram.held)
  PROVE  Inside(answer'.for, b \o dram'.held)
<1> DEFINE a == answer.for
           c == dram.held
<1>1. a \in Texts /\ c \in Texts
  BY PartsAre
<1>2. CASE dram'.held = c /\ answer'.for = a
  BY <1>2
<1>3. CASE dram'.held = c \o text /\ answer'.for = a \o text
  <2> HIDE DEF a, c
  <2>1. b \o c \in Texts /\ (b \o c) \o text = b \o (c \o text)
    <3>1. b \o c \in Texts
      BY <1>1, ConcatProperties DEF Texts
    <3>2. (b \o c) \o text = b \o (c \o text)
      <4>1. Regroups(b, c, text)
        BY <1>1, Regroup
      <4> QED BY <4>1 DEF Regroups
    <3> QED BY <3>1, <3>2
  <2>2. Inside(a \o text, (b \o c) \o text)
    <3>1. Inside(text, text)
      BY InsideItself DEF Texts
    <3>2. Inside(a, b \o c)
      BY DEF a, c
    <3> QED BY <1>1, <2>1, <3>1, <3>2, InsideConcat DEF Texts
  <2> QED BY <1>3, <2>1, <2>2
<1> QED BY <1>2, <1>3 DEF Puts

LEMMA PutsKept ==
  ASSUME LogInv, LogInv', Kept, NEW text \in Texts, Puts(text), dlog' = dlog, file' = file
  PROVE  Kept'
<1>1. dlog.state = "wiping" => Inside(answer'.for, dram'.held)
  <2>1. << >> \o dram.held = dram.held /\ << >> \o dram'.held = dram'.held /\ << >> \in Texts
    BY PartsAre, PartsNext, ConcatEmptySeq DEF Texts, Parts
  <2>2. Inside(answer.for, dram.held) => Inside(answer.for, << >> \o dram.held)
    BY <2>1
  <2>3. Inside(answer.for, << >> \o dram.held) => Inside(answer'.for, << >> \o dram'.held)
    BY <2>1, PutsInside
  <2> QED BY <2>1, <2>2, <2>3 DEF Kept
<1>2. Filling => Filling'
  <2> SUFFICES ASSUME Filling PROVE Filling'
    OBVIOUS
  <2>1. PICK p \in Texts :
       /\ Inside(p, file[dlog.sec]) /\ Inside(p, Safe(dlog.cur, dlog.taken))
       /\ dlog.sec = NSec => p = Pad
       /\ Inside(answer.for, (Upto(file, dlog.sec - 1) \o p) \o dram.held)
    BY DEF Filling
  <2>2. Upto(file, dlog.sec - 1) \o p \in Texts
    BY PartsAre, ConcatProperties DEF Texts
  <2>3. Inside(answer'.for, (Upto(file, dlog.sec - 1) \o p) \o dram'.held)
    BY <2>1, <2>2, PutsInside
  <2> QED BY <2>1, <2>3 DEF Filling
<1>3. Inside(answer'.for, Upto(file, FoundIn(file) - 1) \o dram'.held)
  <2>1. Upto(file, FoundIn(file) - 1) \in Texts
    BY PartsAre
  <2> QED BY <2>1, PutsInside DEF Kept
<1> QED BY <1>1, <1>2, <1>3 DEF Kept

LEMMA FillKept == ASSUME LogInv, HostInv, Kept, FlushFill PROVE Kept'
<1>1. /\ LogInv'
      /\ dram' = dram /\ file' = file /\ answer' = answer
      /\ dlog'.state = dlog.state /\ dlog'.abandoned = dlog.abandoned /\ dlog'.sec = dlog.sec
      /\ \/ dlog.sec = NSec
         \/ Safe(dlog'.cur, dlog'.taken) = Safe(dlog.cur, dlog.taken)
  BY FillTyped
<1>2. dlog.state # "wiping"
  BY RestsAre DEF HostInv, FlushFill
<1>3. Filling => Filling'
  <2> SUFFICES ASSUME Filling PROVE Filling'
    OBVIOUS
  <2>1. PICK p \in Texts :
       /\ Inside(p, file[dlog.sec]) /\ Inside(p, Safe(dlog.cur, dlog.taken))
       /\ dlog.sec = NSec => p = Pad
       /\ Inside(answer.for, (Upto(file, dlog.sec - 1) \o p) \o dram.held)
    BY DEF Filling
  <2>2. Inside(p, Safe(dlog'.cur, dlog'.taken))
    <3>1. CASE dlog.sec = NSec
      BY <1>1, <2>1, <3>1, SafeNext, InsideNothing DEF Pad, Texts
    <3>2. CASE dlog.sec # NSec
      BY <1>1, <2>1, <3>2
    <3> QED BY <3>1, <3>2
  <2> QED BY <1>1, <2>1, <2>2 DEF Filling
<1> QED BY <1>1, <1>2, <1>3 DEF Kept

(* The sector as it is written takes in what is forgotten. *)
LEMMA TakesIn ==
  ASSUME NEW for \in Texts, NEW u \in Texts, NEW p \in Texts, NEW safe \in Texts,
         NEW b \in Texts, NEW c \in Texts,
         Inside(p, safe), Inside(for, (u \o p) \o (b \o c))
  PROVE  Inside(for, (u \o (safe \o b)) \o c)
<1>1. /\ safe \o b \in Texts /\ p \o b \in Texts /\ b \o c \in Texts
      /\ u \o p \in Texts /\ (u \o p) \o b \in Texts /\ u \o (p \o b) \in Texts
      /\ u \o (safe \o b) \in Texts
  BY ConcatProperties DEF Texts
<1>2. (u \o p) \o (b \o c) = ((u \o p) \o b) \o c
  <2>1. Regroups(u \o p, b, c)
    <3>1. u \o p \in Texts
      BY <1>1
    <3> QED BY <3>1, Regroup
  <2> QED BY <2>1 DEF Regroups
<1>3. (u \o p) \o b = u \o (p \o b)
  <2>1. Regroups(u, p, b)
    BY Regroup
  <2> QED BY <2>1 DEF Regroups
<1>4. Inside(p \o b, safe \o b)
  BY InsideItself, InsideConcat DEF Texts
<1>5. Inside(u \o (p \o b), u \o (safe \o b))
  <2> DEFINE x == p \o b
             y == safe \o b
  <2>1. x \in Texts /\ y \in Texts /\ Inside(x, y)
    BY <1>1, <1>4
  <2> HIDE DEF x, y
  <2>2. Inside(u \o x, u \o y)
    BY <2>1, InsideItself, InsideConcat DEF Texts
  <2> QED BY <2>2 DEF x, y
<1> DEFINE v == u \o (p \o b)
           w == u \o (safe \o b)
<1>6. Inside(for, v \o c)
  BY <1>2, <1>3
<1>7. v \in Texts /\ w \in Texts /\ Inside(v, w)
  BY <1>1, <1>5
<1> HIDE DEF v, w
<1>8. Inside(for, w \o c)
  BY <1>6, <1>7, InsideLeft
<1> QED BY <1>8 DEF w

(* What a boot finds after a sector is written. *)
LEMMA FoundPast ==
  ASSUME NEW s \in Sectors, s <= FoundIn(file), file' = [file EXCEPT ![s] = dlog.cur],
         dlog.cur # Pad, LogInv
  PROVE  /\ file'[s] = dlog.cur /\ s + 1 <= FoundIn(file') /\ s <= FoundIn(file')
         /\ Upto(file', s - 1) = Upto(file, s - 1)
<1>1. file'[s] = dlog.cur /\ \A i \in Sectors : i # s => file'[i] = file[i]
  BY DEF LogInv, LogTypes
<1>2. \A i \in Sectors : file[i] # Pad => file'[i] # Pad
  BY <1>1
<1>3. FoundIn(file) <= FoundIn(file')
  BY <1>2, FoundLater
<1>4. FoundIn(file) \in Nat /\ FoundIn(file') \in Nat /\ s \in 1 .. NSec /\ NSec \in Nat
  <2>1. FoundIn(file) \in Ends /\ FoundIn(file') \in Ends
    BY FoundIsEdge
  <2> QED BY <2>1, DlogConstants DEF Ends, Sectors
<1>5. FoundIn(file') # s
  <2>1. FoundIn(file') <= NSec => file'[FoundIn(file')] = Pad
    BY FoundIsEdge
  <2>2. FoundIn(file') = s => file'[s] = Pad
    BY <1>4, <2>1
  <2> QED BY <1>1, <2>2
<1>6. Upto(file', s - 1) = Upto(file, s - 1)
  <2>1. \A i \in 1 .. s - 1 : i \in Sectors /\ i # s
    BY <1>4 DEF Sectors
  <2>2. \A i \in 1 .. s - 1 : file'[i] = file[i]
    BY <1>1, <2>1
  <2> DEFINE b == s - 1
  <2>3. \A i \in 1 .. b : file'[i] = file[i]
    BY <2>2
  <2> HIDE DEF b
  <2>4. Upto(file', b) = Upto(file, b)
    <3>1. [i \in 1 .. b |-> file'[i]] = [i \in 1 .. b |-> file[i]]
      BY <2>3
    <3> QED BY <3>1 DEF Upto
  <2> QED BY <2>4 DEF b
<1> QED BY <1>1, <1>3, <1>4, <1>5, <1>6

(* A write puts what is held where a boot would find it; nothing after it was needed. *)
LEMMA PutKept == ASSUME LogInv, HostInv, Kept, PutSector PROVE Kept'
<1>1. /\ LogInv'
      /\ answer' = answer /\ dlog'.state = dlog.state /\ dlog'.abandoned = dlog.abandoned
      /\ \/ file' = file /\ dram' = dram /\ Stays /\ dlog'.taken = dlog.taken
         \/ /\ ~dlog.abandoned /\ dlog.cur # Pad
            /\ file' = [file EXCEPT ![dlog.sec] = dlog.cur]
            /\ \/ dram' = dram /\ Stays /\ dlog'.taken = dlog.taken
               \/ /\ dram'.held = SubSeq(dram.held, dlog.taken + 1, Len(dram.held))
                  /\ dlog'.taken = 0
                  /\ \/ Stays
                     \/ dlog'.sec = dlog.sec + 1 /\ dlog.sec < NSec /\ dlog'.cur = Pad
  BY PutTyped
<1>2. /\ dlog.state \notin {"off", "wiping", "failed"} /\ dlog.state \in States
      /\ dlog.sec = NSec => dlog.taken = 0
  <2>1. flush.at \in {"sector", "rest", "full"}
    BY DEF PutSector
  <2>2. dlog.state \notin {"off", "wiping", "failed"} /\ dlog.state \in States
    BY <2>1, RestsAre DEF HostInv, LogInv, LogTypes, Logs
  <2>3. dlog.sec = NSec => flush.at \notin {"sector", "rest"}
    BY DlogConstants DEF LogInv, LogPlaces
  <2> QED BY <2>1, <2>2, <2>3 DEF LogInv, LogPlaces
<1>3. CASE file' = file /\ dram' = dram /\ Stays /\ dlog'.taken = dlog.taken
  <2>1. Filling => Filling'
    BY <1>1, <1>3 DEF Filling, Stays
  <2> QED BY <1>1, <1>3, <2>1 DEF Kept
<1>4. CASE /\ ~dlog.abandoned /\ dlog.cur # Pad
           /\ file' = [file EXCEPT ![dlog.sec] = dlog.cur]
  <2> DEFINE s == dlog.sec
             n == dlog.taken
             b == SubSeq(dram.held, 1, n)
             c == SubSeq(dram.held, n + 1, Len(dram.held))
             safe == Safe(dlog.cur, n)
             u == Upto(file, s - 1)
  <2>1. Filling
    BY <1>2, <1>4 DEF Kept, States
  <2>2. PICK p \in Texts :
       /\ Inside(p, safe)
       /\ s = NSec => p = Pad
       /\ Inside(answer.for, (u \o p) \o dram.held)
    BY <2>1 DEF Filling
  <2>3. /\ dram.held \in Texts /\ answer.for \in Texts /\ dlog.cur \in Texts /\ s \in Sectors
        /\ s \in 1 .. NSec /\ u \in Texts /\ NSec \in Nat /\ s <= FoundIn(file) /\ n \in Nat
    BY <2>1, PartsAre, DlogConstants DEF Filling
  <2>4. /\ safe \in Texts /\ b \in Texts /\ c \in Texts
        /\ dlog.cur = safe \o b /\ dram.held = b \o c
        /\ n = 0 => c = dram.held
    BY SafeParts DEF Splits
  <2>5. /\ file'[s] = dlog.cur /\ s + 1 <= FoundIn(file') /\ s <= FoundIn(file')
        /\ Upto(file', s - 1) = u
    BY <1>4, <2>3, FoundPast
  <2>6. Inside(p, dlog.cur)
    <3> HIDE DEF safe, b
    <3>1. Inside(safe, safe \o b)
      BY <2>4, InsideItself, InsideBefore DEF Texts
    <3> QED BY <2>2, <2>3, <2>4, <3>1, InsideChain DEF Texts
  <2> HIDE DEF u
  <2>7. CASE dram'.held = dram.held /\ Stays /\ dlog'.taken = n
    <3>1. Filling'
      <4>1. dlog'.sec <= FoundIn(file') /\ Inside(p, file'[dlog'.sec])
        BY <2>5, <2>6, <2>7 DEF Stays
      <4>2. Inside(p, Safe(dlog'.cur, dlog'.taken)) /\ (dlog'.sec = NSec => p = Pad)
        BY <2>2, <2>7 DEF Stays
      <4>3. Inside(answer'.for, (Upto(file', dlog'.sec - 1) \o p) \o dram'.held)
        BY <1>1, <2>2, <2>5, <2>7 DEF Stays
      <4> QED BY <4>1, <4>2, <4>3 DEF Filling
    <3> QED BY <1>1, <1>2, <3>1, KeptByFilling
  <2>8. Inside(answer.for, (u \o dlog.cur) \o c)
    <3> HIDE DEF safe, b, c
    <3>1. Inside(answer.for, (u \o p) \o (b \o c))
      BY <2>2, <2>4
    <3>2. Inside(answer.for, (u \o (safe \o b)) \o c)
      BY <2>2, <2>3, <2>4, <3>1, TakesIn
    <3> QED BY <2>4, <3>2
  <2>9. CASE dram'.held = c /\ dlog'.taken = 0 /\ Stays /\ s # NSec
    <3>1. Safe(dlog'.cur, dlog'.taken) = dlog.cur
      <4>1. Len(dlog.cur) - 0 = Len(dlog.cur)
        BY <2>3, LenProperties DEF Texts
      <4> QED BY <2>3, <2>9, <4>1, SubSeqFull DEF Stays, Safe, Texts
    <3>2. Inside(dlog.cur, dlog.cur)
      BY <2>3, InsideItself DEF Texts
    <3>3. Filling'
      <4>1. dlog'.sec <= FoundIn(file')
        BY <2>5, <2>9 DEF Stays
      <4>2. Inside(answer'.for, (Upto(file', dlog'.sec - 1) \o dlog.cur) \o dram'.held)
        BY <1>1, <2>5, <2>8, <2>9 DEF Stays
      <4>3. Inside(dlog.cur, file'[dlog'.sec]) /\ dlog'.sec # NSec
        BY <2>5, <2>9, <3>2 DEF Stays
      <4> QED BY <2>3, <3>1, <3>2, <4>1, <4>2, <4>3 DEF Filling
    <3> QED BY <1>1, <1>2, <3>3, KeptByFilling
  <2>10. CASE /\ dram'.held = c /\ dlog'.taken = 0
              /\ dlog'.sec = s + 1 /\ s < NSec /\ dlog'.cur = Pad
    <3>1. dlog'.sec - 1 = s /\ dlog'.sec \in Sectors /\ s \in 0 .. NSec
      BY <2>3, <2>10, NextSector
    <3>2. Parts'
      BY <1>1, PartsNext
    <3>3. Upto(file', s) = u \o dlog.cur
      <4>1. \A i \in Sectors : file'[i] \in Texts
        BY <3>2 DEF Parts
      <4>2. \A i \in 1 .. NSec : Upto(file', i) = Upto(file', i - 1) \o file'[i]
        BY <4>1, UptoIs DEF Texts
      <4>3. Upto(file', s) = Upto(file', s - 1) \o file'[s]
        BY <2>3, <4>2
      <4> QED BY <2>5, <4>3
    <3> DEFINE v == Upto(file', s)
    <3>4. v \in Texts /\ v \o Pad = v /\ Pad \in Texts
      <4>1. v \in Texts
        BY <3>1, <3>2 DEF Parts
      <4> HIDE DEF v
      <4> QED BY <4>1, ConcatEmptySeq DEF Pad, Texts
    <3>5. Inside(Pad, file'[dlog'.sec]) /\ Inside(Pad, Safe(dlog'.cur, dlog'.taken))
      <4>1. file'[dlog'.sec] \in Texts /\ Safe(dlog'.cur, dlog'.taken) \in Texts
        BY <1>1, <3>1, <3>2, SafeNext DEF Parts
      <4> QED BY <4>1, InsideNothing DEF Pad, Texts
    <3>6. Filling'
      <4>1. Inside(answer'.for, (Upto(file', dlog'.sec - 1) \o Pad) \o dram'.held)
        BY <1>1, <2>8, <2>10, <3>1, <3>3, <3>4
      <4>2. dlog'.sec <= FoundIn(file')
        BY <2>5, <2>10
      <4> QED BY <3>4, <3>5, <4>1, <4>2 DEF Filling
    <3> QED BY <1>1, <1>2, <3>6, KeptByFilling
  <2>11. CASE dram'.held = c /\ dlog'.taken = 0 /\ Stays /\ s = NSec
    <3>1. dram'.held = dram.held /\ dlog'.taken = n
      BY <1>2, <2>4, <2>11
    <3> QED BY <2>7, <2>11, <3>1
  <2> QED BY <1>1, <1>4, <2>7, <2>9, <2>10, <2>11
<1> QED BY <1>1, <1>3, <1>4

(* Nothing of a sector is needed: what is on the card before it, and what is held, suffice. *)
LEMMA FillingAfresh ==
  ASSUME LogInv', dlog'.sec <= FoundIn(file'),
         Inside(answer'.for, Upto(file', dlog'.sec - 1) \o dram'.held)
  PROVE  Filling'
<1>1. Parts' /\ Safe(dlog'.cur, dlog'.taken) \in Texts /\ Pad \in Texts
  BY PartsNext, SafeNext, UnitsAre
<1>2. Upto(file', dlog'.sec - 1) \in Texts /\ file'[dlog'.sec] \in Texts
  BY <1>1 DEF Parts
<1> DEFINE u == Upto(file', dlog'.sec - 1)
<1>3. u \o Pad = u
  <2>1. u \in Texts
    BY <1>2
  <2> HIDE DEF u
  <2> QED BY <2>1, ConcatEmptySeq DEF Pad, Texts
<1>4. Inside(Pad, file'[dlog'.sec]) /\ Inside(Pad, Safe(dlog'.cur, dlog'.taken))
  BY <1>1, <1>2, InsideNothing DEF Pad, Texts
<1> QED BY <1>1, <1>3, <1>4 DEF Filling

LEMMA FillingByHeld ==
  ASSUME LogInv', dlog'.sec <= FoundIn(file'), Inside(answer'.for, dram'.held)
  PROVE  Filling'
<1> DEFINE u == Upto(file', dlog'.sec - 1)
<1>1. u \in Texts /\ answer'.for \in Texts /\ dram'.held \in Texts
  BY PartsNext DEF Parts
<1> HIDE DEF u
<1>2. Inside(answer'.for, u \o dram'.held)
  BY <1>1, InsideAfter
<1> QED BY <1>2, FillingAfresh DEF u

LEMMA HostKept ==
  ASSUME LogInv, Kept, NEW first \in 0 .. NSec + 1, NEW count \in 1 .. 2, HostWrites(first, count)
  PROVE  Kept'
<1>1. /\ LogInv'
      /\ dram' = dram /\ dlog'.state # "wiping"
      /\ \/ file' = file /\ answer' = answer
         \/ answer'.for = dram.held
      /\ \/ dlog'.state = "failed"
         \/ dlog'.abandoned
         \/ dlog' = dlog /\ file' = file
  BY HostTyped
<1>2. CASE answer'.for = dram.held
  <2>1. Inside(answer'.for, dram'.held)
    BY <1>1, <1>2, PartsAre, InsideItself DEF Texts
  <2>2. ASSUME dlog'.state \in {"ready", "active"}, ~dlog'.abandoned PROVE Filling'
    <3>1. dlog' = dlog /\ file' = file
      BY <1>1, <2>2
    <3>2. dlog'.sec <= FoundIn(file')
      BY <2>2, <3>1 DEF Kept, Filling
    <3> QED BY <1>1, <2>1, <3>2, FillingByHeld
  <2> QED BY <1>1, <2>1, <2>2, KeptByHeld
<1>3. CASE file' = file /\ answer' = answer
  <2>1. dlog' = dlog /\ Filling => Filling'
    BY <1>1, <1>3 DEF Filling
  <2> QED BY <1>1, <1>3, <2>1 DEF Kept
<1> QED BY <1>1, <1>2, <1>3

LEMMA NoCardKept == ASSUME LogInv, HostInv, Kept, DlogNoCard PROVE Kept'
BY NoCardTyped DEF Kept

LEMMA PrepareKept ==
  ASSUME LogInv, HostInv, Kept, NEW fresh \in BOOLEAN, DlogPrepare(fresh)
  PROVE  Kept'
<1>1. /\ LogInv' /\ dram' = dram
      /\ \/ dlog'.state = "wiping" /\ answer'.for = dram.held
         \/ /\ dlog'.state = "ready" /\ answer'.for = answer.for /\ file' = file
            /\ dlog'.taken = 0 /\ dlog'.sec < NSec
            /\ \/ dlog'.sec = FoundIn(file)
               \/ dlog'.sec = FoundIn(file) - 1 /\ Inside(file[dlog'.sec], dlog'.cur)
  BY PrepareTyped
<1>2. CASE dlog'.state = "wiping" /\ answer'.for = dram.held
  <2>1. Inside(answer'.for, dram'.held)
    BY <1>1, <1>2, PartsAre, InsideItself DEF Texts
  <2> QED BY <1>1, <1>2, <2>1, KeptByHeld
<1>3. CASE /\ dlog'.state = "ready" /\ answer'.for = answer.for /\ file' = file
           /\ dlog'.taken = 0 /\ dlog'.sec < NSec
           /\ dlog'.sec = FoundIn(file)
  <2>1. dlog'.sec <= FoundIn(file')
    <3>1. FoundIn(file) \in Nat
      BY FoundIsEdge, DlogConstants DEF Ends
    <3> QED BY <1>3, <3>1
  <2>2. Inside(answer'.for, Upto(file', dlog'.sec - 1) \o dram'.held)
    BY <1>1, <1>3 DEF Kept
  <2>3. Filling'
    BY <1>1, <2>1, <2>2, FillingAfresh
  <2> QED BY <1>1, <1>3, <2>3, KeptByFilling
<1>4. CASE /\ dlog'.state = "ready" /\ answer'.for = answer.for /\ file' = file
           /\ dlog'.taken = 0 /\ dlog'.sec < NSec
           /\ dlog'.sec = FoundIn(file) - 1 /\ Inside(file[dlog'.sec], dlog'.cur)
  <2> DEFINE s == dlog'.sec
             p == file[s]
             u == Upto(file, s - 1)
  <2>1. /\ s \in Sectors /\ s \in 1 .. NSec /\ dlog'.cur \in Texts
        /\ \A i \in Sectors : file[i] \in Texts
    BY <1>1, PartsNext, PartsAre DEF Parts
  <2>2. s <= FoundIn(file')
    <3>1. FoundIn(file) \in Nat
      BY FoundIsEdge, DlogConstants DEF Ends
    <3> QED BY <1>4, <3>1
  <2>3. Upto(file, s) = u \o p
    <3>1. \A i \in 1 .. NSec : Upto(file, i) = Upto(file, i - 1) \o file[i]
      BY <2>1, UptoIs DEF Texts
    <3> QED BY <2>1, <3>1
  <2>4. Inside(answer.for, (u \o p) \o dram.held)
    BY <1>4, <2>3 DEF Kept
  <2>5. Safe(dlog'.cur, dlog'.taken) = dlog'.cur
    <3>1. Len(dlog'.cur) - 0 = Len(dlog'.cur)
      BY <2>1, LenProperties DEF Texts
    <3> QED BY <1>4, <2>1, <3>1, SubSeqFull DEF Safe, Texts
  <2>6. p \in Texts /\ Inside(p, file'[s]) /\ Inside(p, Safe(dlog'.cur, dlog'.taken))
    <3>1. p \in Texts
      BY <2>1
    <3>2. Inside(p, p)
      BY <3>1, InsideItself DEF Texts
    <3> QED BY <1>4, <2>5, <3>1, <3>2
  <2>7. s # NSec
    BY <1>4, <2>1, DlogConstants
  <2>8. Inside(answer'.for, (Upto(file', s - 1) \o p) \o dram'.held)
    BY <1>1, <1>4, <2>4
  <2>9. Filling'
    <3> HIDE DEF p
    <3> QED BY <2>2, <2>6, <2>7, <2>8 DEF Filling
  <2> QED BY <1>1, <1>4, <2>9, KeptByFilling
<1> QED BY <1>1, <1>2, <1>3, <1>4

LEMMA WipeKept == ASSUME LogInv, HostInv, Kept, WipeSector PROVE Kept'
<1>1. /\ LogInv' /\ dram' = dram /\ answer' = answer /\ dlog.state = "wiping"
      /\ \/ dlog'.state \in {"wiping", "failed"}
         \/ dlog'.state = "ready" /\ dlog'.sec = 1 /\ dlog'.cur = Pad /\ dlog'.taken = 0
  BY WipeTyped
<1>2. Inside(answer'.for, dram'.held)
  BY <1>1 DEF Kept
<1>3. ASSUME dlog'.state = "ready" PROVE Filling'
  <2>1. FoundIn(file') >= 1 /\ FoundIn(file') \in Nat
    BY FoundIsEdge, DlogConstants DEF Ends
  <2>2. dlog'.sec <= FoundIn(file')
    BY <1>1, <1>3, <2>1
  <2> QED BY <1>1, <1>2, <2>2, FillingByHeld
<1> QED BY <1>1, <1>2, <1>3, KeptByHeld

LEMMA ActivateKept == ASSUME LogInv, Kept, DlogActivate PROVE Kept'
<1>1. /\ LogInv' /\ dram' = dram /\ file' = file /\ answer' = answer
      /\ dlog.state = "ready" /\ ~dlog.abandoned
      /\ Stays /\ dlog'.taken = dlog.taken /\ dlog'.state = "active"
  BY ActivateTyped
<1>2. Filling'
  BY <1>1 DEF Kept, Filling, Stays
<1> QED BY <1>1, <1>2, KeptByFilling

(* Where what stays of a text is moved in d, the text without the rest is inside. *)
LEMMA ShiftInside ==
  ASSUME NEW s \in Texts, NEW b \in Texts, NEW c \in Texts, NEW d \in Texts, NEW lines,
         Inside(s, b \o c), Keeps(c, d, lines)
  PROVE  Inside(Without(s, lines), b \o d)
<1> DEFINE ls == Len(s)
           lb == Len(b)
           lc == Len(c)
           ld == Len(d)
           bc == b \o c
           bd == b \o d
<1>1. PICK g : Embeds(g, s, bc)
  BY DEF Inside
<1>2. PICK shift \in Nat : \A k \in 1 .. lc :
        c[k][1] \notin lines => k + shift \in 1 .. ld /\ d[k + shift] = c[k]
  BY DEF Keeps
<1>3. /\ ls \in Nat /\ lb \in Nat /\ lc \in Nat /\ ld \in Nat
      /\ Len(bc) = lb + lc /\ Len(bd) = lb + ld
      /\ \A i \in 1 .. lb + lc : bc[i] = IF i <= lb THEN b[i] ELSE c[i - lb]
      /\ \A i \in 1 .. lb + ld : bd[i] = IF i <= lb THEN b[i] ELSE d[i - lb]
  BY ConcatProperties, LenProperties DEF Texts
<1>4. /\ g \in [1 .. ls -> 1 .. lb + lc]
      /\ \A i, j \in 1 .. ls : i < j => g[i] < g[j]
      /\ \A i \in 1 .. ls : s[i] = bc[g[i]]
  BY <1>1, <1>3 DEF Embeds
<1>5. bd \in Seq(Units)
  BY ConcatProperties DEF Texts
<1> HIDE DEF ls, lb, lc, ld, bc, bd
<1> DEFINE e == [i \in 1 .. ls |-> IF g[i] <= lb THEN g[i] ELSE g[i] + shift]
<1>6. \A i \in 1 .. ls : g[i] \in Nat /\ g[i] \in 1 .. lb + lc
  <2>1. \A m \in 1 .. lb + lc : m \in Nat
    BY <1>3
  <2> QED BY <1>4, <2>1
<1>7. e \in [1 .. ls -> Nat] /\ \A i, j \in 1 .. ls : i < j => e[i] < e[j]
  <2>1. ASSUME NEW i \in 1 .. ls PROVE e[i] \in Nat
    BY <1>2, <1>6
  <2>2. ASSUME NEW i \in 1 .. ls, NEW j \in 1 .. ls, i < j PROVE e[i] < e[j]
    <3> DEFINE x == g[i]
               y == g[j]
    <3>1. x \in Nat /\ y \in Nat /\ x < y
      BY <1>4, <1>6, <2>2
    <3>2. e[i] = (IF x <= lb THEN x ELSE x + shift) /\ e[j] = (IF y <= lb THEN y ELSE y + shift)
      OBVIOUS
    <3> HIDE DEF x, y, e
    <3> QED BY <1>2, <1>3, <3>1, <3>2
  <2> HIDE DEF e
  <2>3. e = [i \in 1 .. ls |-> e[i]]
    BY DEF e
  <2> QED BY <2>1, <2>2, <2>3
<1>8. ASSUME NEW i \in 1 .. ls, s[i][1] \notin lines
      PROVE  e[i] \in 1 .. Len(bd) /\ bd[e[i]] = s[i]
  <2> DEFINE x == g[i]
  <2>1. x \in 1 .. lb + lc /\ s[i] = bc[x] /\ x \in Nat
    BY <1>4, <1>6
  <2>2. e[i] = IF x <= lb THEN x ELSE x + shift
    OBVIOUS
  <2> HIDE DEF x, e
  <2>3. CASE x <= lb
    <3>1. x \in 1 .. lb + ld /\ bd[x] = b[x] /\ s[i] = b[x]
      BY <1>3, <2>1, <2>3
    <3> QED BY <1>3, <2>2, <2>3, <3>1
  <2>4. CASE ~(x <= lb)
    <3> DEFINE k == x - lb
    <3>1. k \in 1 .. lc /\ s[i] = c[k]
      BY <1>3, <2>1, <2>4
    <3>2. k + shift \in 1 .. ld /\ d[k + shift] = c[k]
      BY <1>2, <1>8, <3>1
    <3>3. x + shift \in 1 .. lb + ld /\ ~(x + shift <= lb) /\ (x + shift) - lb = k + shift
      BY <1>2, <1>3, <2>1, <2>4, <3>2
    <3> HIDE DEF k
    <3>4. bd[x + shift] = d[k + shift]
      BY <1>3, <3>3
    <3> QED BY <1>3, <2>2, <2>4, <3>1, <3>2, <3>3, <3>4
  <2> QED BY <2>3, <2>4
<1> HIDE DEF e
<1> QED BY <1>5, <1>7, <1>8, WithoutInside DEF ls, bd, Texts

LEMMA ResetKept == ASSUME LogInv, Windows, Kept, WarmReset PROVE Kept'
<1>1. /\ LogInv' /\ file' = file /\ dlog'.state = "off"
      /\ answer'.for = Without(answer.for, Unreturned)
      /\ Keeps(dram.held, dram'.held, Unreturned)
  BY ResetTyped
<1> DEFINE v == Upto(file, FoundIn(file) - 1)
<1>2. /\ v \in Texts /\ dram.held \in Texts /\ answer.for \in Texts
      /\ Inside(answer.for, v \o dram.held)
  BY PartsAre DEF Kept
<1>3. dram'.held \in Texts
  BY <1>1, PartsNext DEF Parts
<1> HIDE DEF v
<1>4. Inside(answer'.for, v \o dram'.held)
  BY <1>1, <1>2, <1>3, ShiftInside
<1> QED BY <1>1, <1>4 DEF Kept, v

LEMMA PowerKept == ASSUME LogInv, Kept, PowerCut PROVE Kept'
<1>1. /\ file' = file /\ dram'.held = << >> /\ dlog'.state = "off"
      /\ answer'.for = SubSeq(answer.for, 1, Len(answer.for) - Len(dram.held))
  BY PowerTyped
<1> DEFINE v == Upto(file, FoundIn(file) - 1)
<1>2. v \in Texts /\ dram.held \in Texts /\ answer.for \in Texts
      /\ Inside(answer.for, v \o dram.held)
  BY PartsAre DEF Kept
<1> HIDE DEF v
<1>3. Inside(answer'.for, v)
  BY <1>1, <1>2, InsideCut DEF Texts
<1>4. v \o << >> = v
  BY <1>2, ConcatEmptySeq DEF Texts
<1> QED BY <1>1, <1>3, <1>4 DEF Kept, v

LEMMA KeptInit == DlogInit => LogInv /\ Kept
<1> SUFFICES ASSUME DlogInit PROVE LogInv /\ Kept
  OBVIOUS
<1>1. /\ dram = Empty
      /\ dlog = Off /\ flush = Resting /\ file = [s \in Sectors |-> Foreign]
      /\ answer = [for |-> << >>, lines |-> 0, boots |-> 0, foreign |-> TRUE]
  BY DEF DlogInit
<1>2. << >> \in Texts /\ Len(<< >>) = 0
  BY UnitsAre DEF Pad
<1>3. dram \in Drams /\ dram.held = << >> /\ Len(dram.held) <= RingSize
  BY <1>1, EmptyIs
<1>4. file \in [Sectors -> Texts] /\ \A s \in Sectors : Len(file[s]) <= SecSize
  <2>1. Foreign \in Texts /\ Len(Foreign) <= SecSize
    BY UnitsAre, DlogConstants
  <2> QED BY <1>1, <2>1
<1>5. answer \in Answering /\ answer.for = << >>
  <2>1. 0 \in 0 .. MaxLines
    BY DlogConstants
  <2> QED BY <1>1, <1>2, <2>1 DEF Answering
<1>6. Shared(Off.cur, 0, dram.held) /\ 0 <= Len(Off.cur) /\ Len(Off.cur) <= SecSize
  BY RestsAre, UnitsAre, DlogConstants DEF Shared
<1>7. LogTypes
  BY <1>1, <1>2, <1>3, <1>4, <1>5, <1>6, RestsAre DEF LogTypes, Answering
<1>8. LogInv
  BY <1>1, <1>7, RestsAre DEF LogInv, LogPlaces
<1>9. Kept
  <2> DEFINE v == Upto(file, FoundIn(file) - 1)
  <2>1. v \in Texts
    BY <1>8, PartsAre
  <2> HIDE DEF v
  <2>2. v \o << >> = v /\ Inside(<< >>, v)
    BY <2>1, ConcatEmptySeq, InsideNothing DEF Texts
  <2>3. Inside(answer.for, v \o dram.held)
    BY <1>3, <1>5, <2>2
  <2> QED BY <1>1, <2>3, RestsAre DEF Kept, v
<1> QED BY <1>8, <1>9

LEMMA KeptStep ==
  ASSUME LogInv, Windows, HostInv, Kept, [DlogNext]_dlogVars
  PROVE  LogInv' /\ Kept'
<1>1. ASSUME NEW who \in Callers, DlogPrintf(who) PROVE LogInv' /\ Kept'
  <2>1. LogInv' /\ (\E text \in Texts : Puts(text)) /\ dlog' = dlog /\ file' = file
    BY <1>1, PrintfTyped DEF DlogPrintf
  <2> QED BY <2>1, PutsKept
<1>2. CASE DlogNoCard
  BY <1>2, NoCardTyped, NoCardKept
<1>3. CASE \E fresh \in BOOLEAN : DlogPrepare(fresh)
  BY <1>3, PrepareTyped, PrepareKept
<1>4. CASE WipeSector
  BY <1>4, WipeTyped, WipeKept
<1>5. CASE DlogActivate
  BY <1>5, ActivateTyped, ActivateKept
<1>6. ASSUME LogInv', dram'.held = dram.held, dlog' = dlog, file' = file, answer' = answer
      PROVE  LogInv' /\ Kept'
  BY <1>6 DEF Kept, Filling
<1>7. ASSUME NEW who \in Callers, PushIndices(who) \/ PushLine(who) PROVE LogInv' /\ Kept'
  BY <1>6, <1>7, PushTyped
<1>8. CASE DlogPoll \/ DlogPollLooks
  BY <1>6, <1>8, PollTyped
<1>9. CASE FlushFill
  BY <1>9, FillTyped, FillKept
<1>10. CASE PutSector
  BY <1>10, PutTyped, PutKept
<1>11. CASE \E first \in 0 .. NSec + 1, count \in 1 .. 2 : HostWrites(first, count)
  BY <1>11, HostTyped, HostKept
<1>12. CASE WarmReset
  BY <1>12, ResetTyped, ResetKept
<1>13. CASE PowerCut
  BY <1>13, PowerTyped, PowerKept
<1>14. CASE UNCHANGED dlogVars
  <2>1. dram' = dram /\ dlog' = dlog /\ flush' = flush /\ file' = file /\ answer' = answer
    BY <1>14 DEF dlogVars
  <2> QED BY <2>1 DEF LogInv, LogTypes, LogPlaces, Kept, Filling
<1> QED BY <1>1, <1>2, <1>3, <1>4, <1>5, <1>7, <1>8, <1>9, <1>10, <1>11, <1>12, <1>13, <1>14
        DEF DlogNext

(***************************************************************************)
(* The indices of the log stay where they belong, and whatever the state   *)
(* of this boot, what the log answers for is in the sectors that the next  *)
(* boot's bisection would keep, followed by what is held.  The parts of    *)
(* the invariant that speak of the sector being filled carry that through  *)
(* a write that was cut, failed after it landed, or was reported done;     *)
(* Windows says that indices DRAM may have leave out only lines being put. *)
(***************************************************************************)
THEOREM LogInvariant == DlogSpec => [](LogInv /\ Windows /\ Kept)
<1>1. DlogInit => LogInv /\ Windows /\ Kept
  BY KeptInit, WindowsInit
<1>2. LogInv /\ Windows /\ Kept /\ HostInv /\ [DlogNext]_dlogVars => (LogInv /\ Windows /\ Kept)'
  BY KeptStep, WindowsStep
<1> QED BY <1>1, <1>2, HostInvariant, PTL DEF DlogSpec

(***************************************************************************)
(* NothingVanishes: a line that dlog_ring_put accepted and whose           *)
(* dlog_printf returned is in the file or still held, in the order it was  *)
(* put, whatever writes fail and wherever the board resets: between        *)
(* another call's irq_restore and its ring_sync, after the head and before *)
(* the bytes, and whatever the cache had evicted of the indices by then.   *)
(***************************************************************************)
THEOREM LogKeepsAll == DlogSpec => []NothingVanishes
<1>1. LogInv /\ Kept => NothingVanishes
  BY KeptIsEnough
<1> QED BY <1>1, LogInvariant, PTL

(* The sharing of a sector and the ring, as DlogTypeOK states it. *)
LEMMA SharedIs ==
  ASSUME NEW cur \in Texts, NEW held \in Texts, NEW n \in Nat, n <= Len(cur), n <= Len(held),
         Shared(cur, n, held)
  PROVE  SubSeq(cur, Len(cur) - n + 1, Len(cur)) = SubSeq(held, 1, n)
<1> DEFINE l == Len(cur)
           k == l - n
           x == SubSeq(cur, k + 1, l)
           y == SubSeq(held, 1, n)
<1>1. l \in Nat /\ k \in Nat /\ l = k + n /\ l - n = k
  <2>1. l \in Nat
    BY LenProperties DEF Texts
  <2>2. n <= l
    OBVIOUS
  <2> HIDE DEF l
  <2> QED BY <2>1, <2>2
<1>2. y \in Seq(Units) /\ Len(y) = n /\ \A i \in 1 .. n : y[i] = held[i]
  <2>1. \A i \in 1 .. n : held[i] \in Units
    <3>1. Len(held) \in Nat /\ n <= Len(held)
      BY LenProperties DEF Texts
    <3>2. \A i \in 1 .. n : i \in 1 .. Len(held)
      BY <3>1
    <3> QED BY <3>2, ElementOfSeq DEF Texts
  <2>2. y \in Seq(Units) /\ Len(y) = (IF 1 <= n THEN n - 1 + 1 ELSE 0)
        /\ \A i \in 1 .. n - 1 + 1 : y[i] = held[1 + i - 1]
    BY <2>1, SubSeqProperties
  <2>3. n - 1 + 1 = n /\ \A i \in 1 .. n : 1 + i - 1 = i
    OBVIOUS
  <2> QED BY <2>2, <2>3
<1>3. \A i \in 1 .. n : cur[k + i] = held[i]
  BY <1>1 DEF Shared
<1>4. x \in Seq(Units) /\ Len(x) = n /\ \A i \in 1 .. n : x[i] = cur[k + i]
  <2>1. \A i \in k + 1 .. l : cur[i] \in Units
    <3>1. \A i \in k + 1 .. l : i \in 1 .. l
      BY <1>1
    <3> QED BY <3>1, ElementOfSeq DEF Texts
  <2>2. k + 1 \in Int /\ l \in Int
    BY <1>1
  <2> HIDE DEF l, k
  <2>3. x \in Seq(Units) /\ Len(x) = (IF k + 1 <= l THEN l - (k + 1) + 1 ELSE 0)
        /\ \A i \in 1 .. l - (k + 1) + 1 : x[i] = cur[k + 1 + i - 1]
    BY <2>1, <2>2, SubSeqProperties
  <2>4. l - (k + 1) + 1 = n /\ \A i \in 1 .. n : k + 1 + i - 1 = k + i
    BY <1>1
  <2> QED BY <1>1, <2>3, <2>4
<1> HIDE DEF x, y, l, k
<1>5. x = y
  <2>1. \A i \in 1 .. Len(x) : x[i] = y[i]
    BY <1>2, <1>3, <1>4
  <2> QED BY <1>2, <1>4, <2>1, SeqEqual
<1> QED BY <1>1, <1>5 DEF x, y, l

LEMMA TypesAre == ASSUME LogInv, Windows PROVE DlogTypeOK
<1>1. /\ dram \in Drams /\ dram.held \in Texts /\ dram.lost \in Nat
      /\ Len(dram.held) <= RingSize
      /\ dlog.cur \in Texts /\ dlog.taken \in Nat /\ dlog.sec \in 1 .. NSec
      /\ Len(dlog.cur) <= SecSize /\ dlog.taken <= Len(dram.held) /\ dlog.taken <= Len(dlog.cur)
      /\ Shared(dlog.cur, dlog.taken, dram.held)
      /\ \A s \in Sectors : file[s] \in Seq(Units) /\ Len(file[s]) <= SecSize
  BY DEF LogInv, LogTypes, Drams, Logs, Sectors, Texts
<1>2. \A v \in dram.older :
        v.from <= Len(dram.past) /\ Len(dram.past) <= v.to /\ v.to - v.from <= RingSize
  BY DEF Windows, Window
<1>3. SubSeq(dlog.cur, Len(dlog.cur) - dlog.taken + 1, Len(dlog.cur)) = SubSeq(dram.held, 1, dlog.taken)
  BY <1>1, SharedIs
<1>4. dram.held \in Seq(Units)
  BY <1>1 DEF Texts
<1> QED BY <1>1, <1>2, <1>3, <1>4 DEF DlogTypeOK

(***************************************************************************)
(* DlogTypeOK: the indices of dlog_t stay in the file, the sector buffer   *)
(* and the ring, and the end of the sector being filled is always the      *)
(* beginning of what the ring has not yet forgotten.                       *)
(***************************************************************************)
THEOREM DlogTyped == DlogSpec => []DlogTypeOK
<1>1. LogInv /\ Windows => DlogTypeOK
  BY TypesAre
<1> QED BY <1>1, LogInvariant, PTL

-----------------------------------------------------------------------------
(* The services together *)

(* A behaviour of the services together is one of each alone: they share no variable. *)
LEMMA StepsOfEach ==
  [Next]_services =>
    /\ [UpdateNext]_updateVars /\ [DlogNext]_dlogVars
    /\ [SdNext]_sdVars /\ [RunCamNext]_runCamVars
<1> SUFFICES ASSUME [Next]_services
             PROVE  /\ [UpdateNext]_updateVars /\ [DlogNext]_dlogVars
                    /\ [SdNext]_sdVars /\ [RunCamNext]_runCamVars
  OBVIOUS
<1>1. CASE UpdateRuns
  BY <1>1 DEF UpdateRuns
<1>2. CASE DlogRuns
  BY <1>2 DEF DlogRuns
<1>3. CASE SdRuns
  BY <1>3 DEF SdRuns
<1>4. CASE RunCamRuns
  BY <1>4 DEF RunCamRuns
<1>5. CASE UNCHANGED services
  BY <1>5 DEF services
<1> QED BY <1>1, <1>2, <1>3, <1>4, <1>5 DEF Next

(***************************************************************************)
(* Whatever the services do side by side, each does what it does alone: in *)
(* the firmware they share only the time of the one CPU, which is in the   *)
(* delays each allows.                                                     *)
(***************************************************************************)
THEOREM EachAlone == Spec => UpdateSpec /\ DlogSpec /\ SdSpec /\ RunCamSpec
<1>1. Init => UpdateInit /\ DlogInit /\ SdInit /\ FramerInit
  BY DEF Init
<1> QED BY <1>1, StepsOfEach, PTL DEF Spec, UpdateSpec, DlogSpec, SdSpec, RunCamSpec

(***************************************************************************)
(* ServicesTypeOK: the four keep their types, and what their variables owe *)
(* each other, side by side; the card driver asks more often than a card   *)
(* is busy (1000 tries of ACMD41).                                         *)
(***************************************************************************)
THEOREM ServicesTyped == Patient => (Spec => []ServicesTypeOK)
<1> SUFFICES ASSUME Patient PROVE Spec => []ServicesTypeOK
  OBVIOUS
<1>1. SdSpec => []SdInv
  BY SdInvariant
<1>2. SdInv => SdTypeOK
  BY DEF SdInv, SdTypeOK, Types, SdRecords, CardRecords
<1>3. UpdateTypeOK /\ DlogTypeOK /\ SdTypeOK /\ FramerTypeOK => ServicesTypeOK
  BY DEF ServicesTypeOK
<1> QED BY <1>1, <1>2, <1>3, EachAlone, UpdateTypeCorrect, DlogTyped, FramerTyped, PTL

(***************************************************************************)
(* What the run of the services checks, but for liveness, holds of them    *)
(* side by side for all constants.                                         *)
(***************************************************************************)
THEOREM ServicesSafe ==
  Patient =>
    (Spec => /\ [](BurntIsOneImage /\ RefusedOnlyIfReset /\ NothingVanishes)
             /\ [](DetectedAgrees /\ FramesAsSent)
             /\ FlashWaitsForImage /\ HostSpaceUntouched /\ RedetectRecovers)
<1> SUFFICES ASSUME Patient
             PROVE  Spec => /\ [](BurntIsOneImage /\ RefusedOnlyIfReset /\ NothingVanishes)
                            /\ [](DetectedAgrees /\ FramesAsSent)
                            /\ FlashWaitsForImage /\ HostSpaceUntouched /\ RedetectRecovers
  OBVIOUS
<1>1. SdSpec => []DetectedAgrees
  BY DetectedCardAgrees
<1>2. SdSpec => RedetectRecovers
  BY DetectSucceeds
<1> QED BY <1>1, <1>2, EachAlone, OneImageBurnt, NoUndeservedRefusal, FlashIsSafe, LogKeepsAll,
           HostKeepsItsSpace, FramesDispatched, PTL

=============================================================================
