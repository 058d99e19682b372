----------------------------- MODULE SerPlusProofs -----------------------------
(***************************************************************************)
(* Proofs about SerPlus, for all sizes of rings and packets, all scripts   *)
(* and everything that arrives: what goes through the two rings while      *)
(* usart1_isr interrupts the main loop anywhere, and through the telnet    *)
(* escapes of both sides.                                                  *)
(***************************************************************************)
EXTENDS SerPlus, SequenceTheorems, WellFoundedInduction, TLAPS

(* Induction, with sets for what is to be shown.                            *)
LEMMA NatInduct ==
  ASSUME NEW N \in Nat, NEW P, 0 \in P, \A n \in 0 .. N - 1 : n \in P => n + 1 \in P
  PROVE  \A n \in 0 .. N : n \in P
<1> DEFINE S == {n \in 0 .. N : n \notin P}
           Less == {ss \in Nat \X Nat : ss[1] < ss[2]}
<1>1. IsWellFoundedOn(Less, Nat)
  BY NatLessThanWellFounded, Zenon DEF OpToRel
<1>2. SUFFICES ASSUME S # {} PROVE FALSE
  OBVIOUS
<1>3. PICK n \in S : \A m \in S : ~(<<m, n>> \in Less)
  <2>1. S \subseteq Nat
    OBVIOUS
  <2> HIDE DEF Less, S
  <2> QED BY <1>1, <1>2, <2>1, WFMin
<1>4. n \in 1 .. N /\ n - 1 \in 0 .. N - 1
  OBVIOUS
<1>5. n - 1 \in P
  <2>1. <<n - 1, n>> \in Less
    BY <1>4
  <2>2. n - 1 \notin S
    BY <1>3, <2>1
  <2> QED BY <1>4, <2>2
<1>6. (n - 1) + 1 = n
  BY <1>4
<1> QED BY <1>4, <1>5, <1>6

LEMMA SeqInduct ==
  ASSUME NEW D, NEW P, <<>> \in P,
         \A s \in Seq(D), d \in D : s \in P => Append(s, d) \in P
  PROVE  \A s \in Seq(D) : s \in P
<1> SUFFICES ASSUME NEW s \in Seq(D) PROVE s \in P
  OBVIOUS
<1> DEFINE Q == {n \in 0 .. Len(s) : SubSeq(s, 1, n) \in P}
<1>1. 0 \in Q
  <2>1. SubSeq(s, 1, 0) = <<>>
    BY SubSeqEmpty
  <2>2. 0 \in 0 .. Len(s)
    OBVIOUS
  <2> QED BY <2>1, <2>2
<1>2. ASSUME NEW n \in 0 .. Len(s) - 1, n \in Q PROVE n + 1 \in Q
  <2>1. SubSeq(s, 1, n) \in Seq(D) /\ s[n + 1] \in D
    BY SubSeqProperties
  <2>2. SubSeq(s, 1, n + 1) = Append(SubSeq(s, 1, n), s[n + 1])
    BY SubSeqProperties
  <2>3. Append(SubSeq(s, 1, n), s[n + 1]) \in P
    BY <1>2, <2>1
  <2>4. n + 1 \in 0 .. Len(s)
    OBVIOUS
  <2> QED BY <2>2, <2>3, <2>4
<1>3. Len(s) \in Q
  <2>1. Len(s) \in Nat
    OBVIOUS
  <2> HIDE DEF Q
  <2>2. \A n \in 0 .. Len(s) : n \in Q
    BY <1>1, <1>2, <2>1, NatInduct
  <2> QED BY <2>1, <2>2
<1>4. SubSeq(s, 1, Len(s)) = s
  BY SubSeqProperties
<1> QED BY <1>3, <1>4

-----------------------------------------------------------------------------
(* FlattenSeq. *)

(* s \o t, as a whole for the provers.                                      *)
Joined(s, t) == s \o t

(* The first n of seqs, flattened, for all n up to a number.                *)
Flattens(f, seqs, n) ==
  f = [i \in 1 .. n |-> IF i = 1 THEN seqs[i] ELSE Joined(f[i - 1], seqs[i])]

LEMMA FlattensExists ==
  ASSUME NEW seqs, NEW N \in Nat
  PROVE  \E f : Flattens(f, seqs, N)
<1> DEFINE P == {n \in 0 .. N : \E f : Flattens(f, seqs, n)}
<1>1. 0 \in P
  <2>1. Flattens([i \in 1 .. 0 |-> seqs], seqs, 0)
    BY DEF Flattens
  <2> QED BY <2>1
<1>2. ASSUME NEW n \in 0 .. N - 1, n \in P PROVE n + 1 \in P
  <2>1. PICK f : Flattens(f, seqs, n)
    BY <1>2
  <2> DEFINE g == [i \in 1 .. n + 1 |->
                     IF i <= n THEN f[i]
                     ELSE IF i = 1 THEN seqs[i] ELSE Joined(f[n], seqs[i])]
  <2>2. ASSUME NEW i \in 1 .. n + 1
        PROVE  g[i] = IF i = 1 THEN seqs[i] ELSE Joined(g[i - 1], seqs[i])
    <3>1. CASE i <= n
      <4>1. i \in 1 .. n /\ (i # 1 => i - 1 \in 1 .. n + 1 /\ i - 1 <= n)
        BY <3>1
      <4>2. f[i] = IF i = 1 THEN seqs[i] ELSE Joined(f[i - 1], seqs[i])
        BY <2>1, <4>1 DEF Flattens
      <4> QED BY <3>1, <4>1, <4>2
    <3>2. CASE i = n + 1
      <4>1. ~(i <= n) /\ i - 1 = n /\ (i # 1 => n \in 1 .. n + 1 /\ n <= n)
        BY <3>2
      <4> QED BY <4>1
    <3> QED BY <3>1, <3>2
  <2>3. Flattens(g, seqs, n + 1)
    BY <2>2 DEF Flattens
  <2> QED BY <2>3
<1> HIDE DEF P
<1>3. N \in P
  BY <1>1, <1>2, NatInduct
<1> QED BY <1>3 DEF P

LEMMA FlattensUnique ==
  ASSUME NEW seqs, NEW more, NEW N \in Nat,
         \A i \in 1 .. N : seqs[i] = more[i]
  PROVE  \A f, g : Flattens(f, seqs, N) /\ Flattens(g, more, N + 1) =>
                    \A i \in 1 .. N : f[i] = g[i]
<1> SUFFICES ASSUME NEW f, Flattens(f, seqs, N), NEW g, Flattens(g, more, N + 1)
             PROVE  \A i \in 1 .. N : f[i] = g[i]
  OBVIOUS
<1> DEFINE P == {n \in 0 .. N : n # 0 => f[n] = g[n]}
<1>1. 0 \in P
  OBVIOUS
<1>2. ASSUME NEW n \in 0 .. N - 1, n \in P PROVE n + 1 \in P
  <2>1. n + 1 \in 1 .. N /\ n + 1 \in 1 .. N + 1 /\ (n + 1) - 1 = n
    OBVIOUS
  <2>2. /\ f[n + 1] = IF n + 1 = 1 THEN seqs[n + 1] ELSE Joined(f[n], seqs[n + 1])
        /\ g[n + 1] = IF n + 1 = 1 THEN more[n + 1] ELSE Joined(g[n], more[n + 1])
    BY <2>1 DEF Flattens
  <2> QED BY <1>2, <2>1, <2>2
<1> HIDE DEF P
<1>3. \A n \in 0 .. N : n \in P
  BY <1>1, <1>2, NatInduct
<1> QED BY <1>3 DEF P

LEMMA FlattenFound ==
  ASSUME NEW s, Len(s) \in Nat, Len(s) # 0
  PROVE  \E f : Flattens(f, s, Len(s)) /\ FlattenSeq(s) = f[Len(s)]
<1>1. FlattenSeq(s) = (CHOOSE f : Flattens(f, s, Len(s)))[Len(s)]
  BY DEF FlattenSeq, Flattens, Joined
<1>2. \E f : Flattens(f, s, Len(s))
  BY FlattensExists
<1> QED BY <1>1, <1>2

LEMMA FlattenLonger ==
  ASSUME NEW n \in Nat, NEW r, NEW t, NEW x,
         Len(r) = n, Len(t) = n + 1, t[n + 1] = x,
         \A i \in 1 .. n : r[i] = t[i]
  PROVE  FlattenSeq(t) = IF n = 0 THEN x ELSE Joined(FlattenSeq(r), x)
<1>1. PICK g : Flattens(g, t, n + 1) /\ FlattenSeq(t) = g[n + 1]
  BY FlattenFound
<1>2. g[n + 1] = IF n + 1 = 1 THEN x ELSE Joined(g[n], x)
  <2>1. n + 1 \in 1 .. n + 1 /\ (n + 1) - 1 = n
    OBVIOUS
  <2> QED BY <1>1, <2>1 DEF Flattens
<1>3. CASE n = 0
  BY <1>1, <1>2, <1>3
<1>4. CASE n # 0
  <2>1. PICK f : Flattens(f, r, n) /\ FlattenSeq(r) = f[n]
    BY <1>4, FlattenFound
  <2>2. \A i \in 1 .. n : f[i] = g[i]
    BY <1>1, <2>1, FlattensUnique
  <2>3. f[n] = g[n] /\ n + 1 # 1
    BY <1>4, <2>2
  <2> QED BY <1>1, <1>2, <1>4, <2>1, <2>3
<1> QED BY <1>3, <1>4

(* A sequence more is one more at the end.                                  *)
LEMMA FlattenAppend ==
  ASSUME NEW D, NEW s \in Seq(Seq(D)), NEW x \in Seq(D)
  PROVE  /\ FlattenSeq(<<>>) = <<>>
         /\ FlattenSeq(Append(s, x)) =
              IF s = <<>> THEN x ELSE FlattenSeq(s) \o x
<1>1. FlattenSeq(<<>>) = <<>>
  BY DEF FlattenSeq
<1>2. PICK n, r, t : n = Len(s) /\ r = s /\ t = Append(s, x)
  OBVIOUS
<1>3. /\ n \in Nat /\ Len(r) = n /\ Len(t) = n + 1 /\ t[n + 1] = x
      /\ \A i \in 1 .. n : r[i] = t[i]
      /\ s = <<>> <=> n = 0
  BY <1>2, AppendProperties
<1>4. FlattenSeq(t) = IF n = 0 THEN x ELSE Joined(FlattenSeq(r), x)
  BY <1>3, FlattenLonger
<1> QED BY <1>1, <1>2, <1>3, <1>4 DEF Joined

LEMMA FlattenType ==
  ASSUME NEW D
  PROVE  \A s \in Seq(Seq(D)) : FlattenSeq(s) \in Seq(D)
<1> DEFINE P == {s \in Seq(Seq(D)) : FlattenSeq(s) \in Seq(D)}
<1>1. <<>> \in P
  BY DEF FlattenSeq
<1>2. ASSUME NEW s \in Seq(Seq(D)), NEW x \in Seq(D), s \in P
      PROVE  Append(s, x) \in P
  <2>1. FlattenSeq(s) \o x \in Seq(D)
    BY <1>2, ConcatProperties
  <2>2. Append(s, x) \in Seq(Seq(D))
    OBVIOUS
  <2>3. FlattenSeq(Append(s, x)) = IF s = <<>> THEN x ELSE FlattenSeq(s) \o x
    BY FlattenAppend
  <2> QED BY <2>1, <2>2, <2>3
<1> HIDE DEF P
<1>3. \A s \in Seq(Seq(D)) : s \in P
  BY <1>1, <1>2, SeqInduct
<1> QED BY <1>3 DEF P

(* A sequence more, and any number of them.                                 *)
LEMMA FlattenMore ==
  ASSUME NEW D, NEW s \in Seq(Seq(D)), NEW x \in Seq(D)
  PROVE  FlattenSeq(Append(s, x)) = FlattenSeq(s) \o x
<1>1. CASE s = <<>>
  <2>1. FlattenSeq(s) = <<>>
    BY <1>1, FlattenAppend
  <2>2. <<>> \o x = x
    BY ConcatEmptySeq
  <2> QED BY <1>1, <2>1, <2>2, FlattenAppend
<1>2. CASE s # <<>>
  BY <1>2, FlattenAppend
<1> QED BY <1>1, <1>2

Mapped(f, s) == [i \in DOMAIN s |-> f[s[i]]]

MapsMore(f, D, E) ==
  \A s \in Seq(D), d \in D :
    /\ Mapped(f, s) \in Seq(E)
    /\ Mapped(f, Append(s, d)) = Append(Mapped(f, s), f[d])

LEMMA MappedMore ==
  ASSUME NEW D, NEW E, NEW f \in [D -> E]
  PROVE  MapsMore(f, D, E)
<1> SUFFICES ASSUME NEW s \in Seq(D), NEW d \in D
             PROVE  /\ Mapped(f, s) \in Seq(E)
                    /\ Mapped(f, Append(s, d)) = Append(Mapped(f, s), f[d])
  BY DEF MapsMore
<1>1. DOMAIN s = 1 .. Len(s) /\ Len(s) \in Nat
  OBVIOUS
<1>2. Mapped(f, s) \in Seq(E) /\ Len(Mapped(f, s)) = Len(s)
  BY <1>1 DEF Mapped
<1> DEFINE more == Append(s, d)
<1>3. /\ DOMAIN more = 1 .. Len(s) + 1 /\ more[Len(s) + 1] = d
      /\ \A i \in 1 .. Len(s) : more[i] = s[i]
  BY AppendProperties
<1>4. Mapped(f, more) = [i \in 1 .. Len(s) + 1 |-> f[more[i]]]
  BY <1>3 DEF Mapped
<1> DEFINE longer == Append(Mapped(f, s), f[d])
<1>5. f[d] \in E
  OBVIOUS
<1>6. /\ longer \in Seq(E) /\ Len(longer) = Len(s) + 1
      /\ longer[Len(s) + 1] = f[d]
      /\ \A i \in 1 .. Len(s) : longer[i] = Mapped(f, s)[i]
  BY <1>2, <1>5, AppendProperties
<1>7. \A i \in 1 .. Len(s) : Mapped(f, s)[i] = f[s[i]]
  BY <1>1 DEF Mapped
<1> HIDE DEF more, longer
<1>8. longer = [i \in 1 .. Len(s) + 1 |-> longer[i]]
  BY <1>6
<1>9. \A i \in 1 .. Len(s) + 1 : longer[i] = f[more[i]]
  <2> TAKE i \in 1 .. Len(s) + 1
  <2>1. CASE i = Len(s) + 1
    BY <2>1, <1>3, <1>6
  <2>2. CASE i \in 1 .. Len(s)
    BY <2>2, <1>3, <1>6, <1>7
  <2> QED BY <2>1, <2>2, <1>1
<1> QED BY <1>2, <1>4, <1>8, <1>9 DEF more, longer

(* A sequence, each of its elements turned into a sequence, in one.         *)
LEMMA FlattenMapped ==
  ASSUME NEW D, NEW E, NEW f \in [D -> Seq(E)]
  PROVE  /\ FlattenSeq(Mapped(f, <<>>)) = <<>>
         /\ \A s \in Seq(D) : FlattenSeq(Mapped(f, s)) \in Seq(E)
         /\ \A s \in Seq(D), d \in D :
              FlattenSeq(Mapped(f, Append(s, d))) = FlattenSeq(Mapped(f, s)) \o f[d]
<1>1. FlattenSeq(Mapped(f, <<>>)) = <<>>
  BY DEF Mapped, FlattenSeq
<1>2. ASSUME NEW s \in Seq(D), NEW d \in D
      PROVE  /\ Mapped(f, s) \in Seq(Seq(E))
             /\ Mapped(f, Append(s, d)) = Append(Mapped(f, s), f[d])
  <2>1. MapsMore(f, D, Seq(E))
    BY MappedMore
  <2> QED BY <2>1 DEF MapsMore
<1>3. ASSUME NEW s \in Seq(D), NEW d \in D
      PROVE  FlattenSeq(Mapped(f, Append(s, d))) = FlattenSeq(Mapped(f, s)) \o f[d]
  <2>1. f[d] \in Seq(E)
    OBVIOUS
  <2> QED BY <1>2, <2>1, FlattenMore
<1>4. ASSUME NEW s \in Seq(D) PROVE FlattenSeq(Mapped(f, s)) \in Seq(E)
  <2>1. CASE s = <<>>
    <3>1. <<>> \in Seq(E)
      OBVIOUS
    <3> QED BY <2>1, <3>1, <1>1, Zenon
  <2>2. CASE s # <<>>
    <3>1. s[1] \in D
      BY <2>2
    <3> QED BY <3>1, <1>2, FlattenType
  <2> QED BY <2>1, <2>2
<1> QED BY <1>1, <1>3, <1>4

-----------------------------------------------------------------------------
(* What the host writes and what the bridge doubles. *)

LEMMA DoubledType ==
  ASSUME NEW b \in Byte
  PROVE  Doubled(b) \in Seq(Byte) /\ Len(Doubled(b)) \in 1 .. 2
<1>1. IAC \in Byte
  BY DEF IAC, Byte
<1> HIDE DEF Byte
<1> QED BY <1>1 DEF Doubled

LEMMA WrappedMore ==
  /\ Wrapped(<<>>) = <<>>
  /\ \A bytes \in Seq(Byte) : Wrapped(bytes) \in Seq(Byte)
  /\ \A bytes \in Seq(Byte), b \in Byte :
       Wrapped(Append(bytes, b)) = Wrapped(bytes) \o Doubled(b)
<1> DEFINE f == [b \in Byte |-> Doubled(b)]
<1>1. f \in [Byte -> Seq(Byte)]
  BY DoubledType
<1>2. ASSUME NEW bytes \in Seq(Byte)
      PROVE  Wrapped(bytes) = FlattenSeq(Mapped(f, bytes))
  <2>1. \A i \in DOMAIN bytes : f[bytes[i]] = Doubled(bytes[i])
    OBVIOUS
  <2> HIDE DEF f
  <2>2. Mapped(f, bytes) = [i \in DOMAIN bytes |-> Doubled(bytes[i])]
    BY <2>1 DEF Mapped
  <2> QED BY <2>2 DEF Wrapped
<1>3. \A b \in Byte : f[b] = Doubled(b)
  OBVIOUS
<1> HIDE DEF f
<1>4. /\ FlattenSeq(Mapped(f, <<>>)) = <<>>
      /\ \A bytes \in Seq(Byte) : FlattenSeq(Mapped(f, bytes)) \in Seq(Byte)
      /\ \A bytes \in Seq(Byte), b \in Byte :
           FlattenSeq(Mapped(f, Append(bytes, b))) = FlattenSeq(Mapped(f, bytes)) \o f[b]
  BY <1>1, FlattenMapped
<1>5. <<>> \in Seq(Byte) /\ \A bytes \in Seq(Byte), b \in Byte : Append(bytes, b) \in Seq(Byte)
  OBVIOUS
<1>6. ASSUME NEW bytes \in Seq(Byte), NEW b \in Byte
      PROVE  Wrapped(Append(bytes, b)) = Wrapped(bytes) \o Doubled(b)
  BY <1>2, <1>3, <1>4, <1>5
<1> QED BY <1>2, <1>4, <1>5, <1>6

LEMMA WrappedConcat ==
  ASSUME NEW bytes \in Seq(Byte)
  PROVE  \A more \in Seq(Byte) : Wrapped(bytes \o more) = Wrapped(bytes) \o Wrapped(more)
<1> DEFINE P == {more \in Seq(Byte) :
                   Wrapped(bytes \o more) = Wrapped(bytes) \o Wrapped(more)}
<1>1. <<>> \in P
  <2>1. bytes \o <<>> = bytes
    BY ConcatEmptySeq
  <2>2. Wrapped(bytes) \o <<>> = Wrapped(bytes)
    BY WrappedMore, ConcatEmptySeq
  <2>3. <<>> \in Seq(Byte)
    OBVIOUS
  <2> QED BY <2>1, <2>2, <2>3, WrappedMore
<1>2. ASSUME NEW more \in Seq(Byte), NEW b \in Byte, more \in P
      PROVE  Append(more, b) \in P
  <2>1. bytes \o Append(more, b) = Append(bytes \o more, b)
    BY AppendIsConcat, ConcatAssociative
  <2>2. bytes \o more \in Seq(Byte) /\ Append(more, b) \in Seq(Byte)
    OBVIOUS
  <2>3. Wrapped(Append(bytes \o more, b)) = Wrapped(bytes \o more) \o Doubled(b)
    BY <2>2, WrappedMore
  <2>4. Wrapped(bytes \o more) = Wrapped(bytes) \o Wrapped(more)
    BY <1>2
  <2>5. /\ Wrapped(bytes) \in Seq(Byte) /\ Wrapped(more) \in Seq(Byte)
        /\ Doubled(b) \in Seq(Byte)
    BY WrappedMore, DoubledType
  <2>6. (Wrapped(bytes) \o Wrapped(more)) \o Doubled(b)
          = Wrapped(bytes) \o (Wrapped(more) \o Doubled(b))
    BY <2>5, ConcatAssociative
  <2>7. Wrapped(more) \o Doubled(b) = Wrapped(Append(more, b))
    BY WrappedMore
  <2>8. Wrapped(bytes \o Append(more, b)) = Wrapped(bytes) \o Wrapped(Append(more, b))
    BY <2>1, <2>3, <2>4, <2>6, <2>7, Zenon
  <2> QED BY <2>2, <2>8
<1> HIDE DEF P
<1>3. \A more \in Seq(Byte) : more \in P
  BY <1>1, <1>2, SeqInduct
<1> QED BY <1>3 DEF P

(* Everything a script puts on the wire after the greeting, and what it     *)
(* means, item by item.                                                     *)
Deeds == [do : {"send", "signal", "parity"}, what : Byte]

Wires(items) == FlattenSeq([i \in DOMAIN items |-> WireOf(items[i])])

Sent(bytes) == [j \in DOMAIN bytes |-> SendByte(bytes[j])]

MeaningOf(item) ==
  IF item.kind = "data" THEN Sent(item.bytes) ELSE <<SetSignal(item.signal)>>

LEMMA ItemTypes ==
  ASSUME NEW item \in Items
  PROVE  WireOf(item) \in Seq(Byte) /\ MeaningOf(item) \in Seq(Deeds)
<1>1. CASE item.kind = "data"
  <2>1. item.bytes \in Seq(Byte)
    BY <1>1 DEF Items, Byte
  <2>2. Wrapped(item.bytes) \in Seq(Byte)
    BY <2>1, WrappedMore
  <2>3. \A b \in Byte : SendByte(b) \in Deeds
    BY DEF SendByte, Deeds
  <2>4. Sent(item.bytes) \in Seq(Deeds)
    BY <2>1, <2>3 DEF Sent
  <2> QED BY <1>1, <2>2, <2>4 DEF WireOf, MeaningOf
<1>2. CASE item.kind # "data"
  <2>1. item.signal \in Signals /\ Signals \subseteq Byte
    BY <1>2 DEF Items, Signals, Byte
  <2>2. IAC \in Byte /\ SB \in Byte /\ CPO \in Byte /\ SETCTL \in Byte /\ SE \in Byte
    BY DEF IAC, SB, CPO, SETCTL, SE, Byte
  <2> HIDE DEF Byte
  <2>3. SendEscape(item.signal) \in Seq(Byte)
    BY <2>1, <2>2 DEF SendEscape
  <2>4. SetSignal(item.signal) \in Deeds
    BY <2>1 DEF SetSignal, Deeds
  <2>5. <<SetSignal(item.signal)>> \in Seq(Deeds)
    BY <2>4
  <2> QED BY <1>2, <2>3, <2>5 DEF WireOf, MeaningOf
<1> QED BY <1>1, <1>2

LEMMA WireMore ==
  /\ Wires(<<>>) = <<>>
  /\ \A items \in Seq(Items) : Wires(items) \in Seq(Byte)
  /\ \A items \in Seq(Items), item \in Items :
       Wires(Append(items, item)) = Wires(items) \o WireOf(item)
<1> DEFINE f == [item \in Items |-> WireOf(item)]
<1>1. f \in [Items -> Seq(Byte)]
  BY ItemTypes
<1>2. ASSUME NEW items \in Seq(Items)
      PROVE  Wires(items) = FlattenSeq(Mapped(f, items))
  <2>1. \A i \in DOMAIN items : f[items[i]] = WireOf(items[i])
    OBVIOUS
  <2> HIDE DEF f
  <2>2. Mapped(f, items) = [i \in DOMAIN items |-> WireOf(items[i])]
    BY <2>1 DEF Mapped
  <2> QED BY <2>2 DEF Wires
<1>3. \A item \in Items : f[item] = WireOf(item)
  OBVIOUS
<1> HIDE DEF f
<1>4. /\ FlattenSeq(Mapped(f, <<>>)) = <<>>
      /\ \A items \in Seq(Items) : FlattenSeq(Mapped(f, items)) \in Seq(Byte)
      /\ \A items \in Seq(Items), item \in Items :
           FlattenSeq(Mapped(f, Append(items, item)))
             = FlattenSeq(Mapped(f, items)) \o f[item]
  BY <1>1, FlattenMapped
<1>5. /\ <<>> \in Seq(Items)
      /\ \A items \in Seq(Items), item \in Items : Append(items, item) \in Seq(Items)
  OBVIOUS
<1>6. ASSUME NEW items \in Seq(Items), NEW item \in Items
      PROVE  Wires(Append(items, item)) = Wires(items) \o WireOf(item)
  BY <1>2, <1>3, <1>4, <1>5
<1> QED BY <1>2, <1>4, <1>5, <1>6

LEMMA MeaningMore ==
  /\ Meaning(<<>>) = <<>>
  /\ \A items \in Seq(Items) : Meaning(items) \in Seq(Deeds)
  /\ \A items \in Seq(Items), item \in Items :
       Meaning(Append(items, item)) = Meaning(items) \o MeaningOf(item)
<1> DEFINE f == [item \in Items |-> MeaningOf(item)]
<1>1. f \in [Items -> Seq(Deeds)]
  BY ItemTypes
<1>2. ASSUME NEW items \in Seq(Items)
      PROVE  Meaning(items) = FlattenSeq(Mapped(f, items))
  <2>1. \A i \in DOMAIN items : f[items[i]] = MeaningOf(items[i])
    OBVIOUS
  <2> HIDE DEF f
  <2>2. Mapped(f, items) = [i \in DOMAIN items |-> MeaningOf(items[i])]
    BY <2>1 DEF Mapped
  <2> QED BY <2>2 DEF Meaning, MeaningOf, Sent
<1>3. \A item \in Items : f[item] = MeaningOf(item)
  OBVIOUS
<1> HIDE DEF f
<1>4. /\ FlattenSeq(Mapped(f, <<>>)) = <<>>
      /\ \A items \in Seq(Items) : FlattenSeq(Mapped(f, items)) \in Seq(Deeds)
      /\ \A items \in Seq(Items), item \in Items :
           FlattenSeq(Mapped(f, Append(items, item)))
             = FlattenSeq(Mapped(f, items)) \o f[item]
  BY <1>1, FlattenMapped
<1>5. /\ <<>> \in Seq(Items)
      /\ \A items \in Seq(Items), item \in Items : Append(items, item) \in Seq(Items)
  OBVIOUS
<1>6. ASSUME NEW items \in Seq(Items), NEW item \in Items
      PROVE  Meaning(Append(items, item)) = Meaning(items) \o MeaningOf(item)
  BY <1>2, <1>3, <1>4, <1>5
<1> QED BY <1>2, <1>4, <1>5, <1>6

-----------------------------------------------------------------------------
(* The state machines that read a stream: that of the bridge, with what is  *)
(* done at the serial port, and that of the host, with what it gets.        *)

DecodeStep(was, b) == [state |-> DecodeNext(was.state, b),
                       line  |-> Joined(was.line, DecodeDo(was.state, b))]

UnwrapStep(was, b) == [state |-> UnwrapNext(was.state, b),
                       got   |-> IF UnwrapKeeps(was.state, b)
                                 THEN Append(was.got, b) ELSE was.got]

Step(side, was, b) == IF side = "bridge" THEN DecodeStep(was, b) ELSE UnwrapStep(was, b)

(* f is how a side gets through the first n of w.                           *)
Run(f, side, from, w, n) ==
  f = [i \in 0 .. n |-> IF i = 0 THEN from ELSE Step(side, f[i - 1], w[i])]

Leads(side, from, w, to) == \E f : Run(f, side, from, w, Len(w)) /\ f[Len(w)] = to

LEMMA RunExists ==
  ASSUME NEW N \in Nat, NEW side, NEW from, NEW w
  PROVE  \E f : Run(f, side, from, w, N)
<1> DEFINE P == {n \in 0 .. N : \E f : Run(f, side, from, w, n)}
<1>1. 0 \in P
  <2> DEFINE f == [i \in 0 .. 0 |-> from]
  <2>1. Run(f, side, from, w, 0)
    BY DEF Run
  <2> QED BY <2>1
<1>2. ASSUME NEW n \in 0 .. N - 1, n \in P PROVE n + 1 \in P
  <2>1. PICK f : Run(f, side, from, w, n)
    BY <1>2
  <2> DEFINE g == [i \in 0 .. n + 1 |-> IF i <= n THEN f[i] ELSE Step(side, f[n], w[i])]
  <2>2. ASSUME NEW i \in 0 .. n + 1
        PROVE  g[i] = IF i = 0 THEN from ELSE Step(side, g[i - 1], w[i])
    <3>1. CASE i <= n
      <4>1. i \in 0 .. n /\ (i # 0 => i - 1 \in 0 .. n + 1 /\ i - 1 <= n)
        BY <3>1
      <4>2. f[i] = IF i = 0 THEN from ELSE Step(side, f[i - 1], w[i])
        BY <2>1, <4>1 DEF Run
      <4> QED BY <3>1, <4>1, <4>2
    <3>2. CASE i = n + 1
      <4>1. ~(i <= n) /\ i - 1 = n /\ i # 0 /\ n \in 0 .. n + 1 /\ n <= n
        BY <3>2
      <4> QED BY <4>1
    <3> QED BY <3>1, <3>2
  <2>3. Run(g, side, from, w, n + 1)
    BY <2>2 DEF Run
  <2> QED BY <2>3
<1> HIDE DEF P
<1>3. N \in P
  BY <1>1, <1>2, NatInduct
<1> QED BY <1>3 DEF P

(* Two runs are the same as long as they read the same.                     *)
SameRuns(side, from, w, N, more, M) ==
  \A f, g : Run(f, side, from, w, N) /\ Run(g, side, from, more, M) =>
              \A i \in 0 .. N : f[i] = g[i]

LEMMA RunUnique ==
  ASSUME NEW side, NEW from, NEW w, NEW more, NEW N \in Nat, NEW M \in Nat, N <= M,
         \A i \in 1 .. N : w[i] = more[i]
  PROVE  SameRuns(side, from, w, N, more, M)
<1> SUFFICES ASSUME NEW f, Run(f, side, from, w, N), NEW g, Run(g, side, from, more, M)
             PROVE  \A i \in 0 .. N : f[i] = g[i]
  BY DEF SameRuns
<1> DEFINE P == {n \in 0 .. N : f[n] = g[n]}
<1>1. 0 \in P
  BY DEF Run
<1>2. ASSUME NEW n \in 0 .. N - 1, n \in P PROVE n + 1 \in P
  <2>1. n + 1 \in 0 .. N /\ n + 1 \in 0 .. M /\ (n + 1) - 1 = n /\ n + 1 # 0
    OBVIOUS
  <2>2. /\ f[n + 1] = Step(side, f[n], w[n + 1])
        /\ g[n + 1] = Step(side, g[n], more[n + 1])
    BY <2>1 DEF Run
  <2> QED BY <1>2, <2>1, <2>2
<1> HIDE DEF P
<1>3. \A n \in 0 .. N : n \in P
  BY <1>1, <1>2, NatInduct
<1> QED BY <1>3 DEF P

(* One run after another.                                                   *)
RunsOn(side, from, w, more, whole, n, m) ==
  \A f, g : Run(f, side, from, w, n) /\ Run(g, side, f[n], more, m) =>
              \E h : Run(h, side, from, whole, n + m) /\ h[n + m] = g[m]

LEMMA RunJoin ==
  ASSUME NEW side, NEW from, NEW w, NEW more, NEW whole, NEW n \in Nat, NEW m \in Nat,
         \A i \in 1 .. n : whole[i] = w[i],
         \A i \in 1 .. m : whole[n + i] = more[i]
  PROVE  RunsOn(side, from, w, more, whole, n, m)
<1> SUFFICES ASSUME NEW f, NEW g,
                    Run(f, side, from, w, n), Run(g, side, f[n], more, m)
             PROVE  \E h : Run(h, side, from, whole, n + m) /\ h[n + m] = g[m]
  BY DEF RunsOn
<1> DEFINE h == [i \in 0 .. n + m |-> IF i <= n THEN f[i] ELSE g[i - n]]
<1>1. g[0] = f[n] /\ f[0] = from
  BY DEF Run
<1>2. ASSUME NEW i \in 0 .. n + m
      PROVE  h[i] = IF i = 0 THEN from ELSE Step(side, h[i - 1], whole[i])
  <2>1. CASE i = 0
    BY <2>1, <1>1
  <2>2. CASE i # 0 /\ i <= n
    <3>1. i \in 0 .. n /\ i - 1 \in 0 .. n + m /\ i - 1 <= n /\ i \in 1 .. n
      BY <2>2
    <3>2. f[i] = Step(side, f[i - 1], w[i])
      BY <2>2, <3>1 DEF Run
    <3> QED BY <2>2, <3>1, <3>2
  <2>3. CASE i > n
    <3>1. /\ i - n \in 1 .. m /\ i - 1 \in 0 .. n + m /\ i # 0 /\ ~(i <= n)
          /\ n + (i - n) = i /\ (i - n) - 1 = (i - 1) - n
      BY <2>3
    <3>2. i - n \in 0 .. m /\ i - n # 0
      BY <3>1
    <3>3. g[i - n] = Step(side, g[(i - n) - 1], more[i - n])
      BY <3>2 DEF Run
    <3>4. whole[i] = more[i - n]
      BY <3>1
    <3>5. h[i - 1] = g[(i - 1) - n]
      <4>1. CASE i - 1 <= n
        <5>1. i - 1 = n /\ (i - 1) - n = 0
          BY <4>1, <2>3
        <5> QED BY <5>1, <3>1, <1>1
      <4>2. CASE ~(i - 1 <= n)
        BY <4>2, <3>1
      <4> QED BY <4>1, <4>2
    <3>6. h[i] = g[i - n]
      BY <3>1
    <3> HIDE DEF h
    <3> QED BY <3>1, <3>3, <3>4, <3>5, <3>6
  <2> QED BY <2>1, <2>2, <2>3
<1>3. Run(h, side, from, whole, n + m)
  BY <1>2 DEF Run
<1>4. h[n + m] = g[m]
  <2>1. CASE m = 0
    <3>1. n + m = n /\ n \in 0 .. n + m
      BY <2>1
    <3> QED BY <3>1, <2>1, <1>1
  <2>2. CASE m # 0
    <3>1. n + m \in 0 .. n + m /\ ~(n + m <= n) /\ (n + m) - n = m
      BY <2>2
    <3> QED BY <3>1
  <2> QED BY <2>1, <2>2
<1> HIDE DEF h
<1> QED BY <1>3, <1>4

LEMMA LeadsNone ==
  ASSUME NEW side, NEW from
  PROVE  Leads(side, from, <<>>, from)
<1> DEFINE f == [i \in 0 .. 0 |-> from]
<1>1. Run(f, side, from, <<>>, 0) /\ f[0] = from
  BY DEF Run
<1> HIDE DEF f
<1>2. Len(<<>>) = 0
  OBVIOUS
<1> QED BY <1>1, <1>2 DEF Leads

LEMMA LeadsOne ==
  ASSUME NEW side, NEW from, NEW b
  PROVE  Leads(side, from, <<b>>, Step(side, from, b))
<1> DEFINE f == [i \in 0 .. 1 |-> IF i = 0 THEN from ELSE Step(side, from, b)]
<1>1. PICK w : w = <<b>>
  OBVIOUS
<1>2. w[1] = b /\ Len(w) = 1
  BY <1>1
<1>3. ASSUME NEW i \in 0 .. 1
      PROVE  f[i] = IF i = 0 THEN from ELSE Step(side, f[i - 1], w[i])
  <2>1. CASE i = 0
    BY <2>1
  <2>2. CASE i = 1
    <3>1. i - 1 = 0 /\ i # 0 /\ 0 \in 0 .. 1
      BY <2>2
    <3> QED BY <3>1, <2>2, <1>2
  <2> QED BY <2>1, <2>2
<1>4. Run(f, side, from, w, 1)
  BY <1>3 DEF Run
<1>5. f[1] = Step(side, from, b)
  OBVIOUS
<1> HIDE DEF f
<1>6. Leads(side, from, w, Step(side, from, b))
  BY <1>2, <1>4, <1>5 DEF Leads
<1> QED BY <1>1, <1>6

LEMMA LeadsJoin ==
  ASSUME NEW D, NEW s \in Seq(D), NEW t \in Seq(D)
  PROVE  \A side, p, q, r : Leads(side, p, s, q) /\ Leads(side, q, t, r) =>
                             Leads(side, p, Joined(s, t), r)
<1> SUFFICES ASSUME NEW side, NEW p, NEW q, NEW r,
                    Leads(side, p, s, q), Leads(side, q, t, r)
             PROVE  Leads(side, p, Joined(s, t), r)
  OBVIOUS
<1>1. PICK n, m, whole, a, b : /\ n = Len(s) /\ m = Len(t) /\ whole = s \o t
                               /\ a = s /\ b = t
  OBVIOUS
<1>2. /\ n \in Nat /\ m \in Nat /\ Len(whole) = n + m
      /\ \A i \in 1 .. n : whole[i] = a[i]
      /\ \A i \in 1 .. m : whole[n + i] = b[i]
  BY <1>1, ConcatProperties
<1>3. PICK f : Run(f, side, p, a, n) /\ f[n] = q
  BY <1>1 DEF Leads
<1>4. PICK g : Run(g, side, q, b, m) /\ g[m] = r
  BY <1>1 DEF Leads
<1>5. \E h : Run(h, side, p, whole, n + m) /\ h[n + m] = g[m]
  <2>1. RunsOn(side, p, a, b, whole, n, m)
    BY <1>2, RunJoin
  <2> QED BY <1>3, <1>4, <2>1 DEF RunsOn
<1>6. Leads(side, p, whole, r)
  BY <1>2, <1>4, <1>5 DEF Leads
<1> QED BY <1>1, <1>6 DEF Joined

-----------------------------------------------------------------------------
(* What comes out of the escapes. *)

LEMMA JoinedAppend ==
  ASSUME NEW D, NEW s \in Seq(D), NEW t \in Seq(D), NEW d \in D
  PROVE  Joined(s, Append(t, d)) = Append(Joined(s, t), d)
<1>1. s \o Append(t, d) = Append(s \o t, d)
  BY AppendIsConcat, ConcatAssociative
<1> QED BY <1>1 DEF Joined

LEMMA Twice ==
  ASSUME NEW D, NEW b \in D
  PROVE  <<b>> \o <<b>> = <<b, b>>
<1>1. \A w \in Seq(D) : Len(w) = 2 /\ w[1] = b /\ w[2] = b => w = <<b, b>>
  OBVIOUS
<1>2. /\ <<b>> \o <<b>> \in Seq(D) /\ Len(<<b>> \o <<b>>) = 2
      /\ (<<b>> \o <<b>>)[1] = b /\ (<<b>> \o <<b>>)[2] = b
  OBVIOUS
<1> QED BY <1>1, <1>2

(* The host gets the bytes that were doubled.                               *)
LEMMA UnwrapsDoubled ==
  ASSUME NEW got \in Seq(Byte), NEW b \in Byte
  PROVE  Leads("host", [state |-> 0, got |-> got], Doubled(b),
               [state |-> 0, got |-> Append(got, b)])
<1> DEFINE start == [state |-> 0, got |-> got]
           end   == [state |-> 0, got |-> Append(got, b)]
<1>0. "host" # "bridge"
  OBVIOUS
<1>1. CASE b # IAC
  <2>1. UnwrapNext(0, b) = 0 /\ UnwrapKeeps(0, b)
    BY <1>1 DEF UnwrapNext, UnwrapKeeps
  <2>2. UnwrapStep(start, b) = end
    BY <2>1 DEF UnwrapStep
  <2>3. Step("host", start, b) = end
    BY <1>0, <2>2 DEF Step
  <2> HIDE DEF start, end
  <2>4. Doubled(b) = <<b>>
    BY <1>1 DEF Doubled
  <2>5. Leads("host", start, <<b>>, end)
    BY <2>3, LeadsOne
  <2> QED BY <2>4, <2>5 DEF start, end
<1>2. CASE b = IAC
  <2> DEFINE middle == [state |-> 1, got |-> got]
  <2>1. UnwrapNext(0, b) = 1 /\ ~UnwrapKeeps(0, b)
    BY <1>2 DEF UnwrapNext, UnwrapKeeps
  <2>2. UnwrapNext(1, b) = 0 /\ UnwrapKeeps(1, b)
    BY <1>2 DEF UnwrapNext, UnwrapKeeps, IAC, SB
  <2>3. UnwrapStep(start, b) = middle
    BY <2>1 DEF UnwrapStep
  <2>4. UnwrapStep(middle, b) = end
    BY <2>2 DEF UnwrapStep
  <2>5. Step("host", start, b) = middle /\ Step("host", middle, b) = end
    BY <1>0, <2>3, <2>4 DEF Step
  <2> HIDE DEF start, middle, end
  <2>6. Leads("host", start, <<b>>, middle) /\ Leads("host", middle, <<b>>, end)
    BY <2>5, LeadsOne
  <2>7. <<b>> \in Seq(Byte)
    OBVIOUS
  <2>8. Leads("host", start, Joined(<<b>>, <<b>>), end)
    BY <2>6, <2>7, LeadsJoin
  <2>9. Joined(<<b>>, <<b>>) = Doubled(b)
    BY <1>2, Twice DEF Joined, Doubled
  <2> QED BY <2>8, <2>9 DEF start, end
<1> QED BY <1>1, <1>2

LEMMA UnwrapsWrapped ==
  \A bytes \in Seq(Byte) : \A got \in Seq(Byte) :
    Leads("host", [state |-> 0, got |-> got], Wrapped(bytes),
          [state |-> 0, got |-> Joined(got, bytes)])
<1> DEFINE Good(bytes) ==
             \A got \in Seq(Byte) :
               Leads("host", [state |-> 0, got |-> got], Wrapped(bytes),
                     [state |-> 0, got |-> Joined(got, bytes)])
           P == {bytes \in Seq(Byte) : Good(bytes)}
<1>1. <<>> \in P
  <2>1. ASSUME NEW got \in Seq(Byte)
        PROVE  Leads("host", [state |-> 0, got |-> got], Wrapped(<<>>),
                     [state |-> 0, got |-> Joined(got, <<>>)])
    <3>1. Joined(got, <<>>) = got
      BY ConcatEmptySeq DEF Joined
    <3> QED BY <3>1, WrappedMore, LeadsNone
  <2>2. <<>> \in Seq(Byte)
    OBVIOUS
  <2> QED BY <2>1, <2>2
<1>2. ASSUME NEW bytes \in Seq(Byte), NEW b \in Byte, bytes \in P
      PROVE  Append(bytes, b) \in P
  <2>1. ASSUME NEW got \in Seq(Byte)
        PROVE  Leads("host", [state |-> 0, got |-> got], Wrapped(Append(bytes, b)),
                     [state |-> 0, got |-> Joined(got, Append(bytes, b))])
    <3>1. Leads("host", [state |-> 0, got |-> got], Wrapped(bytes),
                [state |-> 0, got |-> Joined(got, bytes)])
      BY <1>2, <2>1
    <3>2. Joined(got, bytes) \in Seq(Byte)
      BY ConcatProperties DEF Joined
    <3>3. Leads("host", [state |-> 0, got |-> Joined(got, bytes)], Doubled(b),
                [state |-> 0, got |-> Append(Joined(got, bytes), b)])
      BY <3>2, UnwrapsDoubled
    <3>4. Wrapped(bytes) \in Seq(Byte) /\ Doubled(b) \in Seq(Byte)
      BY WrappedMore, DoubledType
    <3>5. Leads("host", [state |-> 0, got |-> got],
                Joined(Wrapped(bytes), Doubled(b)),
                [state |-> 0, got |-> Append(Joined(got, bytes), b)])
      BY <3>1, <3>3, <3>4, LeadsJoin
    <3>6. Joined(Wrapped(bytes), Doubled(b)) = Wrapped(Append(bytes, b))
      BY WrappedMore DEF Joined
    <3>7. Append(Joined(got, bytes), b) = Joined(got, Append(bytes, b))
      BY JoinedAppend
    <3> QED BY <3>5, <3>6, <3>7
  <2>2. Append(bytes, b) \in Seq(Byte)
    OBVIOUS
  <2> HIDE DEF Good
  <2>3. Good(Append(bytes, b))
    BY <2>1 DEF Good
  <2> QED BY <2>2, <2>3
<1> HIDE DEF P
<1>3. \A bytes \in Seq(Byte) : bytes \in P
  BY <1>1, <1>2, SeqInduct
<1> QED BY <1>3 DEF P

LEMMA UnwrappedIs ==
  ASSUME NEW from, NEW bytes, Len(bytes) \in Nat
  PROVE  \A to : Leads("host", from, bytes, to) => Unwrapped(from, bytes) = to
<1> SUFFICES ASSUME NEW to, Leads("host", from, bytes, to)
             PROVE  Unwrapped(from, bytes) = to
  OBVIOUS
<1>1. PICK n : n = Len(bytes)
  OBVIOUS
<1>2. PICK f : Run(f, "host", from, bytes, n) /\ f[n] = to
  BY <1>1 DEF Leads
<1> DEFINE Reads(g) ==
             g = [i \in 0 .. n |->
                    IF i = 0 THEN from
                    ELSE [state |-> UnwrapNext(g[i - 1].state, bytes[i]),
                          got |-> IF UnwrapKeeps(g[i - 1].state, bytes[i])
                                  THEN Append(g[i - 1].got, bytes[i])
                                  ELSE g[i - 1].got]]
<1>3. Unwrapped(from, bytes) = (CHOOSE g : Reads(g))[n]
  BY <1>1 DEF Unwrapped
<1>4. \A g : Reads(g) <=> Run(g, "host", from, bytes, n)
  <2> TAKE g
  <2>1. \A i : Step("host", g[i - 1], bytes[i])
               = [state |-> UnwrapNext(g[i - 1].state, bytes[i]),
                  got |-> IF UnwrapKeeps(g[i - 1].state, bytes[i])
                          THEN Append(g[i - 1].got, bytes[i])
                          ELSE g[i - 1].got]
    BY DEF Step, UnwrapStep
  <2> QED BY <2>1, Zenon DEF Run
<1> HIDE DEF Reads
<1>5. Run(CHOOSE g : Reads(g), "host", from, bytes, n)
  BY <1>2, <1>4
<1>6. (CHOOSE g : Reads(g))[n] = f[n]
  <2>1. n \in 0 .. n /\ n <= n /\ n \in Nat
    BY <1>1
  <2>2. SameRuns("host", from, bytes, n, bytes, n)
    BY <2>1, RunUnique
  <2> QED BY <1>2, <1>5, <2>1, <2>2 DEF SameRuns
<1> QED BY <1>2, <1>3, <1>6

(* The bridge sends the bytes that were doubled.                            *)
LEMMA DecodesDoubled ==
  ASSUME NEW done \in Seq(Deeds), NEW b \in Byte
  PROVE  Leads("bridge", [state |-> 0, line |-> done], Doubled(b),
               [state |-> 0, line |-> Append(done, SendByte(b))])
<1> DEFINE start == [state |-> 0, line |-> done]
           end   == [state |-> 0, line |-> Append(done, SendByte(b))]
<1>0. SendByte(b) \in Deeds
  BY DEF SendByte, Deeds
<1>1. Joined(done, <<SendByte(b)>>) = Append(done, SendByte(b)) /\ Joined(done, <<>>) = done
  BY <1>0, AppendIsConcat, ConcatEmptySeq DEF Joined
<1>2. CASE b # IAC
  <2>1. DecodeNext(0, b) = 0 /\ DecodeDo(0, b) = <<SendByte(b)>>
    BY <1>2 DEF DecodeNext, DecodeDo
  <2>2. DecodeStep(start, b) = end
    BY <1>1, <2>1 DEF DecodeStep
  <2>3. Step("bridge", start, b) = end
    BY <2>2 DEF Step
  <2> HIDE DEF start, end
  <2>4. Doubled(b) = <<b>>
    BY <1>2 DEF Doubled
  <2>5. Leads("bridge", start, <<b>>, end)
    BY <2>3, LeadsOne
  <2> QED BY <2>4, <2>5 DEF start, end
<1>3. CASE b = IAC
  <2> DEFINE middle == [state |-> 1, line |-> done]
  <2>1. DecodeNext(0, b) = 1 /\ DecodeDo(0, b) = <<>>
    BY <1>3 DEF DecodeNext, DecodeDo
  <2>2. DecodeNext(1, b) = 0 /\ DecodeDo(1, b) = <<SendByte(b)>>
    BY <1>3 DEF DecodeNext, DecodeDo
  <2>3. DecodeStep(start, b) = middle
    BY <1>1, <2>1 DEF DecodeStep
  <2>4. DecodeStep(middle, b) = end
    BY <1>1, <2>2 DEF DecodeStep
  <2>5. Step("bridge", start, b) = middle /\ Step("bridge", middle, b) = end
    BY <2>3, <2>4 DEF Step
  <2> HIDE DEF start, middle, end
  <2>6. Leads("bridge", start, <<b>>, middle) /\ Leads("bridge", middle, <<b>>, end)
    BY <2>5, LeadsOne
  <2>7. <<b>> \in Seq(Byte)
    OBVIOUS
  <2>8. Leads("bridge", start, Joined(<<b>>, <<b>>), end)
    BY <2>6, <2>7, LeadsJoin
  <2>9. Joined(<<b>>, <<b>>) = Doubled(b)
    BY <1>3, Twice DEF Joined, Doubled
  <2> QED BY <2>8, <2>9 DEF start, end
<1> QED BY <1>2, <1>3

LEMMA SentMore ==
  /\ Sent(<<>>) = <<>>
  /\ \A bytes \in Seq(Byte) : Sent(bytes) \in Seq(Deeds)
  /\ \A bytes \in Seq(Byte), b \in Byte :
       Sent(Append(bytes, b)) = Append(Sent(bytes), SendByte(b))
<1> DEFINE f == [b \in Byte |-> SendByte(b)]
<1>1. f \in [Byte -> Deeds]
  BY DEF SendByte, Deeds
<1>2. ASSUME NEW bytes \in Seq(Byte) PROVE Sent(bytes) = Mapped(f, bytes)
  <2>1. \A i \in DOMAIN bytes : f[bytes[i]] = SendByte(bytes[i])
    OBVIOUS
  <2> HIDE DEF f
  <2> QED BY <2>1 DEF Sent, Mapped
<1>3. \A b \in Byte : f[b] = SendByte(b)
  OBVIOUS
<1> HIDE DEF f
<1>4. MapsMore(f, Byte, Deeds)
  BY <1>1, MappedMore
<1>5. /\ 0 \in Byte
      /\ \A bytes \in Seq(Byte), b \in Byte : Append(bytes, b) \in Seq(Byte)
  BY DEF Byte
<1>6. Sent(<<>>) = <<>>
  BY DEF Sent
<1>7. ASSUME NEW bytes \in Seq(Byte) PROVE Sent(bytes) \in Seq(Deeds)
  BY <1>2, <1>4, <1>5 DEF MapsMore
<1>8. ASSUME NEW bytes \in Seq(Byte), NEW b \in Byte
      PROVE  Sent(Append(bytes, b)) = Append(Sent(bytes), SendByte(b))
  <2>1. Mapped(f, Append(bytes, b)) = Append(Mapped(f, bytes), f[b])
    BY <1>4 DEF MapsMore
  <2> QED BY <1>2, <1>3, <1>5, <2>1
<1> QED BY <1>6, <1>7, <1>8

LEMMA DecodesWrapped ==
  \A bytes \in Seq(Byte) : \A done \in Seq(Deeds) :
    Leads("bridge", [state |-> 0, line |-> done], Wrapped(bytes),
          [state |-> 0, line |-> Joined(done, Sent(bytes))])
<1> DEFINE Good(bytes) ==
             \A done \in Seq(Deeds) :
               Leads("bridge", [state |-> 0, line |-> done], Wrapped(bytes),
                     [state |-> 0, line |-> Joined(done, Sent(bytes))])
           P == {bytes \in Seq(Byte) : Good(bytes)}
<1>1. <<>> \in P
  <2>1. ASSUME NEW done \in Seq(Deeds)
        PROVE  Leads("bridge", [state |-> 0, line |-> done], Wrapped(<<>>),
                     [state |-> 0, line |-> Joined(done, Sent(<<>>))])
    <3>1. Joined(done, <<>>) = done
      BY ConcatEmptySeq DEF Joined
    <3> QED BY <3>1, WrappedMore, SentMore, LeadsNone
  <2>2. <<>> \in Seq(Byte)
    OBVIOUS
  <2> QED BY <2>1, <2>2
<1>2. ASSUME NEW bytes \in Seq(Byte), NEW b \in Byte, bytes \in P
      PROVE  Append(bytes, b) \in P
  <2>1. ASSUME NEW done \in Seq(Deeds)
        PROVE  Leads("bridge", [state |-> 0, line |-> done], Wrapped(Append(bytes, b)),
                     [state |-> 0, line |-> Joined(done, Sent(Append(bytes, b)))])
    <3>1. Leads("bridge", [state |-> 0, line |-> done], Wrapped(bytes),
                [state |-> 0, line |-> Joined(done, Sent(bytes))])
      BY <1>2, <2>1
    <3>2. Sent(bytes) \in Seq(Deeds) /\ SendByte(b) \in Deeds
      BY SentMore DEF SendByte, Deeds
    <3>3. Joined(done, Sent(bytes)) \in Seq(Deeds)
      BY <3>2, ConcatProperties DEF Joined
    <3>4. Leads("bridge", [state |-> 0, line |-> Joined(done, Sent(bytes))], Doubled(b),
                [state |-> 0, line |-> Append(Joined(done, Sent(bytes)), SendByte(b))])
      BY <3>3, DecodesDoubled
    <3>5. Wrapped(bytes) \in Seq(Byte) /\ Doubled(b) \in Seq(Byte)
      BY WrappedMore, DoubledType
    <3>6. Leads("bridge", [state |-> 0, line |-> done],
                Joined(Wrapped(bytes), Doubled(b)),
                [state |-> 0, line |-> Append(Joined(done, Sent(bytes)), SendByte(b))])
      BY <3>1, <3>4, <3>5, LeadsJoin
    <3>7. Joined(Wrapped(bytes), Doubled(b)) = Wrapped(Append(bytes, b))
      BY WrappedMore DEF Joined
    <3>8. Append(Joined(done, Sent(bytes)), SendByte(b))
            = Joined(done, Append(Sent(bytes), SendByte(b)))
      BY <3>2, JoinedAppend
    <3>9. Append(Sent(bytes), SendByte(b)) = Sent(Append(bytes, b))
      BY SentMore
    <3> QED BY <3>6, <3>7, <3>8, <3>9
  <2>2. Append(bytes, b) \in Seq(Byte)
    OBVIOUS
  <2> HIDE DEF Good
  <2>3. Good(Append(bytes, b))
    BY <2>1 DEF Good
  <2> QED BY <2>2, <2>3
<1> HIDE DEF P
<1>3. \A bytes \in Seq(Byte) : bytes \in P
  BY <1>1, <1>2, SeqInduct
<1> QED BY <1>3 DEF P

(* The bridge sets the modem line of an escape.                             *)
LEMMA DecodesEscape ==
  ASSUME NEW done \in Seq(Deeds), NEW signal \in Signals
  PROVE  Leads("bridge", [state |-> 0, line |-> done], SendEscape(signal),
               [state |-> 0, line |-> Joined(done, <<SetSignal(signal)>>)])
<1> DEFINE set == Joined(done, <<SetSignal(signal)>>)
           at(i) == CASE i \in {0, 7} -> 0 [] i = 1 -> 1 [] i = 2 -> 3 [] i = 3 -> 4
                      [] i = 4 -> 8 [] i = 5 -> 5 [] i = 6 -> 6
           by(i) == IF i >= 5 THEN set ELSE done
           f == [i \in 0 .. 7 |-> [state |-> at(i), line |-> by(i)]]
<1>1. PICK w : w = SendEscape(signal)
  OBVIOUS
<1>2. /\ Len(w) = 7 /\ w[1] = 255 /\ w[2] = 250 /\ w[3] = 44 /\ w[4] = 5
      /\ w[5] = signal /\ w[6] = 255 /\ w[7] = 240
  BY <1>1 DEF SendEscape, IAC, SB, CPO, SETCTL, SE
<1>3. Joined(done, <<>>) = done /\ Joined(set, <<>>) = set
  <2>1. <<SetSignal(signal)>> \in Seq(Deeds)
    BY DEF SetSignal, Signals, Deeds, Byte
  <2>2. set \in Seq(Deeds)
    BY <2>1, ConcatProperties DEF Joined
  <2> HIDE DEF set
  <2> QED BY <2>2, ConcatEmptySeq DEF Joined
<1>4. ASSUME NEW i \in 1 .. 7 PROVE DecodeNext(at(i - 1), w[i]) = at(i)
  BY <1>2, <1>4 DEF DecodeNext, IAC, SB, SE, CPO, SETPAR, SETCTL, WILL
<1>5. ASSUME NEW i \in 1 .. 7
      PROVE  DecodeDo(at(i - 1), w[i]) = IF i = 5 THEN <<SetSignal(signal)>> ELSE <<>>
  BY <1>2, <1>5 DEF DecodeDo, IAC, Signals
<1>6. ASSUME NEW i \in 1 .. 7
      PROVE  by(i) = Joined(by(i - 1), IF i = 5 THEN <<SetSignal(signal)>> ELSE <<>>)
  <2>1. CASE i = 5
    BY <2>1
  <2>2. CASE i < 5
    BY <2>2, <1>3
  <2>3. CASE i > 5
    <3>1. i - 1 >= 5 /\ i >= 5 /\ i # 5
      BY <2>3
    <3> HIDE DEF set
    <3> QED BY <3>1, <1>3
  <2> QED BY <2>1, <2>2, <2>3
<1>7. ASSUME NEW i \in 0 .. 7
      PROVE  f[i] = IF i = 0 THEN [state |-> 0, line |-> done]
                    ELSE Step("bridge", f[i - 1], w[i])
  <2>1. CASE i = 0
    BY <2>1
  <2>2. CASE i # 0
    <3>1. i \in 1 .. 7 /\ i - 1 \in 0 .. 7
      BY <2>2
    <3>2. DecodeNext(at(i - 1), w[i]) = at(i)
      BY <3>1, <1>4
    <3>3. by(i) = Joined(by(i - 1), DecodeDo(at(i - 1), w[i]))
      BY <3>1, <1>5, <1>6
    <3> HIDE DEF at, by, set
    <3>4. f[i - 1].state = at(i - 1) /\ f[i - 1].line = by(i - 1)
      BY <3>1
    <3>5. DecodeStep(f[i - 1], w[i]) = [state |-> at(i), line |-> by(i)]
      BY <3>2, <3>3, <3>4 DEF DecodeStep
    <3> QED BY <2>2, <3>5 DEF Step
  <2> QED BY <2>1, <2>2
<1>8. f[7] = [state |-> 0, line |-> set]
  OBVIOUS
<1> HIDE DEF f, set
<1>9. Run(f, "bridge", [state |-> 0, line |-> done], w, 7)
  <2>1. f = [i \in 0 .. 7 |-> f[i]]
    BY DEF f
  <2> QED BY <1>7, <2>1 DEF Run
<1> QED BY <1>1, <1>2, <1>8, <1>9 DEF Leads, set

LEMMA DecodesItem ==
  ASSUME NEW done \in Seq(Deeds), NEW item \in Items
  PROVE  Leads("bridge", [state |-> 0, line |-> done], WireOf(item),
               [state |-> 0, line |-> Joined(done, MeaningOf(item))])
<1>1. CASE item.kind = "data"
  <2>1. item.bytes \in Seq(Byte)
    BY <1>1 DEF Items, Byte
  <2> QED BY <1>1, <2>1, DecodesWrapped DEF WireOf, MeaningOf
<1>2. CASE item.kind # "data"
  <2>1. item.signal \in Signals
    BY <1>2 DEF Items
  <2> QED BY <1>2, <2>1, DecodesEscape DEF WireOf, MeaningOf
<1> QED BY <1>1, <1>2

LEMMA DecodesItems ==
  \A items \in Seq(Items) : \A done \in Seq(Deeds) :
    Leads("bridge", [state |-> 0, line |-> done], Wires(items),
          [state |-> 0, line |-> Joined(done, Meaning(items))])
<1> DEFINE Good(items) ==
             \A done \in Seq(Deeds) :
               Leads("bridge", [state |-> 0, line |-> done], Wires(items),
                     [state |-> 0, line |-> Joined(done, Meaning(items))])
           P == {items \in Seq(Items) : Good(items)}
<1>1. <<>> \in P
  <2>1. ASSUME NEW done \in Seq(Deeds)
        PROVE  Leads("bridge", [state |-> 0, line |-> done], Wires(<<>>),
                     [state |-> 0, line |-> Joined(done, Meaning(<<>>))])
    <3>1. Joined(done, <<>>) = done
      BY ConcatEmptySeq DEF Joined
    <3> QED BY <3>1, WireMore, MeaningMore, LeadsNone
  <2>2. <<>> \in Seq(Items)
    OBVIOUS
  <2> QED BY <2>1, <2>2
<1>2. ASSUME NEW items \in Seq(Items), NEW item \in Items, items \in P
      PROVE  Append(items, item) \in P
  <2>1. ASSUME NEW done \in Seq(Deeds)
        PROVE  Leads("bridge", [state |-> 0, line |-> done], Wires(Append(items, item)),
                     [state |-> 0, line |-> Joined(done, Meaning(Append(items, item)))])
    <3>1. Leads("bridge", [state |-> 0, line |-> done], Wires(items),
                [state |-> 0, line |-> Joined(done, Meaning(items))])
      BY <1>2, <2>1
    <3>2. /\ Meaning(items) \in Seq(Deeds) /\ MeaningOf(item) \in Seq(Deeds)
          /\ Wires(items) \in Seq(Byte) /\ WireOf(item) \in Seq(Byte)
      BY MeaningMore, WireMore, ItemTypes
    <3>3. Joined(done, Meaning(items)) \in Seq(Deeds)
      BY <3>2, ConcatProperties DEF Joined
    <3>4. Leads("bridge", [state |-> 0, line |-> Joined(done, Meaning(items))],
                WireOf(item),
                [state |-> 0,
                 line |-> Joined(Joined(done, Meaning(items)), MeaningOf(item))])
      BY <3>3, DecodesItem
    <3>5. Leads("bridge", [state |-> 0, line |-> done],
                Joined(Wires(items), WireOf(item)),
                [state |-> 0,
                 line |-> Joined(Joined(done, Meaning(items)), MeaningOf(item))])
      BY <3>1, <3>2, <3>4, LeadsJoin
    <3>6. Joined(Wires(items), WireOf(item)) = Wires(Append(items, item))
      BY WireMore DEF Joined
    <3>7. (done \o Meaning(items)) \o MeaningOf(item)
            = done \o (Meaning(items) \o MeaningOf(item))
      BY <3>2, ConcatAssociative
    <3>8. Meaning(items) \o MeaningOf(item) = Meaning(Append(items, item))
      BY MeaningMore
    <3>9. Joined(Joined(done, Meaning(items)), MeaningOf(item))
            = Joined(done, Meaning(Append(items, item)))
      BY <3>7, <3>8, Zenon DEF Joined
    <3> QED BY <3>5, <3>6, <3>9
  <2>2. Append(items, item) \in Seq(Items)
    OBVIOUS
  <2> HIDE DEF Good
  <2>3. Good(Append(items, item))
    BY <2>1 DEF Good
  <2> QED BY <2>2, <2>3
<1> HIDE DEF P
<1>3. \A items \in Seq(Items) : items \in P
  BY <1>1, <1>2, SeqInduct
<1> QED BY <1>3 DEF P

(* A script, with the greeting before it, is done completely.               *)
LEMMA WireFacts ==
  ASSUME NEW items \in Seq(Items)
  PROVE  /\ Wire(items) = Joined(Hello, Wires(items))
         /\ Wire(items) \in Seq(Byte)
         /\ Meaning(items) \in Seq(Deeds)
         /\ Leads("bridge", [state |-> 0, line |-> <<>>], Wire(items),
                  [state |-> 0, line |-> Meaning(items)])
<1>1. Wire(items) = Joined(Hello, Wires(items))
  BY DEF Wire, Wires, Joined
<1>2. Hello \in Seq(Byte) /\ Wires(items) \in Seq(Byte) /\ Meaning(items) \in Seq(Deeds)
  <2>1. IAC \in Byte /\ WILL \in Byte /\ CPO \in Byte
    BY DEF IAC, WILL, CPO, Byte
  <2> HIDE DEF Byte
  <2> QED BY <2>1, WireMore, MeaningMore DEF Hello
<1>3. Wire(items) \in Seq(Byte)
  BY <1>1, <1>2, ConcatProperties DEF Joined
<1> DEFINE start == [state |-> 0, line |-> <<>>]
           at(i) == CASE i \in {0, 3} -> 0 [] i = 1 -> 1 [] i = 2 -> 2
           f == [i \in 0 .. 3 |-> [state |-> at(i), line |-> <<>>]]
<1>4. PICK w : w = Hello
  OBVIOUS
<1>5. Len(w) = 3 /\ w[1] = 255 /\ w[2] = 251 /\ w[3] = 44
  BY <1>4 DEF Hello, IAC, WILL, CPO
<1>6. ASSUME NEW i \in 1 .. 3
      PROVE  DecodeNext(at(i - 1), w[i]) = at(i) /\ DecodeDo(at(i - 1), w[i]) = <<>>
  BY <1>5, <1>6 DEF DecodeNext, DecodeDo, IAC, SB, WILL
<1>7. Joined(<<>>, <<>>) = <<>>
  BY DEF Joined
<1>8. ASSUME NEW i \in 0 .. 3
      PROVE  f[i] = IF i = 0 THEN start ELSE Step("bridge", f[i - 1], w[i])
  <2>1. CASE i = 0
    BY <2>1
  <2>2. CASE i # 0
    <3>1. i \in 1 .. 3 /\ i - 1 \in 0 .. 3
      BY <2>2
    <3>2. DecodeNext(at(i - 1), w[i]) = at(i) /\ DecodeDo(at(i - 1), w[i]) = <<>>
      BY <3>1, <1>6
    <3> HIDE DEF at
    <3>3. f[i - 1].state = at(i - 1) /\ f[i - 1].line = <<>>
      BY <3>1
    <3>4. DecodeStep(f[i - 1], w[i]) = [state |-> at(i), line |-> <<>>]
      BY <3>2, <3>3, <1>7 DEF DecodeStep
    <3> QED BY <2>2, <3>4 DEF Step
  <2> QED BY <2>1, <2>2
<1>9. f[3] = start
  OBVIOUS
<1>10. Run(f, "bridge", start, w, 3)
  <2>1. f = [i \in 0 .. 3 |-> f[i]]
    OBVIOUS
  <2> HIDE DEF f
  <2> QED BY <1>8, <2>1 DEF Run
<1> HIDE DEF f
<1>11. Leads("bridge", start, Hello, start)
  BY <1>4, <1>5, <1>9, <1>10 DEF Leads
<1>12. Leads("bridge", start, Wires(items), [state |-> 0, line |-> Joined(<<>>, Meaning(items))])
  <2>1. <<>> \in Seq(Deeds)
    OBVIOUS
  <2> QED BY <2>1, DecodesItems
<1>13. Joined(<<>>, Meaning(items)) = Meaning(items)
  BY <1>2, ConcatEmptySeq DEF Joined
<1>14. Leads("bridge", start, Joined(Hello, Wires(items)), [state |-> 0, line |-> Meaning(items)])
  BY <1>2, <1>11, <1>12, <1>13, LeadsJoin
<1> QED BY <1>1, <1>2, <1>3, <1>14

(* Decoding of a stream, with its state and what was done after each byte.  *)
Decoding(w) ==
  LET done[n \in 0 .. Len(w)] == IF n = 0 THEN [state |-> 0, line |-> <<>>]
                                 ELSE DecodeStep(done[n - 1], w[n])
  IN  done

LEMMA DecodingRuns ==
  ASSUME NEW w \in Seq(Byte)
  PROVE  Run(Decoding(w), "bridge", [state |-> 0, line |-> <<>>], w, Len(w))
<1> DEFINE start == [state |-> 0, line |-> <<>>]
<1>1. Decoding(w) = CHOOSE f : Run(f, "bridge", start, w, Len(w))
  BY DEF Decoding, Run, Step
<1>2. Len(w) \in Nat
  OBVIOUS
<1>3. \E f : Run(f, "bridge", start, w, Len(w))
  BY <1>2, RunExists
<1> QED BY <1>1, <1>3

LEMMA DecodeType ==
  ASSUME NEW was \in 0 .. 8, NEW b \in Byte
  PROVE  DecodeNext(was, b) \in 0 .. 8 /\ DecodeDo(was, b) \in Seq(Deeds)
<1>1. DecodeNext(was, b) \in 0 .. 8
  BY DEF DecodeNext
<1>2. /\ SendByte(b) \in Deeds
      /\ b \in Parities => SetParity(b) \in Deeds
      /\ b \in Signals => SetSignal(b) \in Deeds
  BY DEF SendByte, SetParity, SetSignal, Deeds
<1>3. \/ DecodeDo(was, b) \in {<<>>, <<SendByte(b)>>}
      \/ DecodeDo(was, b) = <<SetParity(b)>> /\ b \in Parities
      \/ DecodeDo(was, b) = <<SetSignal(b)>> /\ b \in Signals
  BY DEF DecodeDo
<1> HIDE DEF Deeds
<1>4. \A d \in Deeds : <<d>> \in Seq(Deeds)
  OBVIOUS
<1>5. <<>> \in Seq(Deeds)
  OBVIOUS
<1> QED BY <1>1, <1>2, <1>3, <1>4, <1>5

Begins(s, t) == Len(s) <= Len(t) /\ \A i \in 1 .. Len(s) : s[i] = t[i]

LEMMA DecodingFacts ==
  ASSUME NEW w \in Seq(Byte)
  PROVE  /\ Decoding(w)[0] = [state |-> 0, line |-> <<>>]
         /\ \A i \in 1 .. Len(w) : Decoding(w)[i] = DecodeStep(Decoding(w)[i - 1], w[i])
         /\ \A i \in 0 .. Len(w) : /\ Decoding(w)[i].state \in 0 .. 8
                                   /\ Decoding(w)[i].line \in Seq(Deeds)
<1> DEFINE start == [state |-> 0, line |-> <<>>]
<1>1. PICK f, n : f = Decoding(w) /\ n = Len(w)
  OBVIOUS
<1>2. n \in Nat /\ Run(f, "bridge", start, w, n)
  BY <1>1, DecodingRuns
<1>3. f[0] = start
  BY <1>2 DEF Run
<1>4. \A i \in 1 .. n : f[i] = DecodeStep(f[i - 1], w[i])
  BY <1>2 DEF Run, Step
<1> DEFINE P == {i \in 0 .. n : f[i].state \in 0 .. 8 /\ f[i].line \in Seq(Deeds)}
<1>5. 0 \in P
  <2>1. f[0].state = 0 /\ f[0].line = <<>>
    BY <1>3
  <2>2. <<>> \in Seq(Deeds) /\ 0 \in 0 .. 8 /\ 0 \in 0 .. n
    BY <1>2
  <2> QED BY <2>1, <2>2
<1>6. ASSUME NEW i \in 0 .. n - 1, i \in P PROVE i + 1 \in P
  <2>1. i + 1 \in 1 .. n /\ i + 1 \in 0 .. n /\ (i + 1) - 1 = i
    BY <1>2
  <2>2. f[i + 1] = DecodeStep(f[i], w[i + 1])
    BY <1>4, <2>1
  <2>3. w[i + 1] \in Byte
    BY <1>1, <2>1
  <2>4. f[i].state \in 0 .. 8 /\ f[i].line \in Seq(Deeds)
    BY <1>6
  <2>5. /\ DecodeNext(f[i].state, w[i + 1]) \in 0 .. 8
        /\ DecodeDo(f[i].state, w[i + 1]) \in Seq(Deeds)
    BY <2>3, <2>4, DecodeType
  <2>6. Joined(f[i].line, DecodeDo(f[i].state, w[i + 1])) \in Seq(Deeds)
    BY <2>4, <2>5, ConcatProperties DEF Joined
  <2>7. /\ f[i + 1].state = DecodeNext(f[i].state, w[i + 1])
        /\ f[i + 1].line = Joined(f[i].line, DecodeDo(f[i].state, w[i + 1]))
    BY <2>2 DEF DecodeStep
  <2> QED BY <2>1, <2>5, <2>6, <2>7
<1> HIDE DEF P
<1>7. \A i \in 0 .. n : i \in P
  BY <1>2, <1>5, <1>6, NatInduct
<1>8. \A i \in 0 .. n : f[i].state \in 0 .. 8 /\ f[i].line \in Seq(Deeds)
  BY <1>7 DEF P
<1> QED BY <1>1, <1>3, <1>4, <1>8

(* Whatever was decoded of the stream of a script, what was done is what    *)
(* the script means, so far.                                                *)
LEMMA DecodingFollows ==
  ASSUME NEW items \in Seq(Items)
  PROVE  \A k \in 0 .. Len(Wire(items)) :
           IsPrefix(Decoding(Wire(items))[k].line, Meaning(items))
<1> SUFFICES ASSUME NEW k \in 0 .. Len(Wire(items))
             PROVE  IsPrefix(Decoding(Wire(items))[k].line, Meaning(items))
  OBVIOUS
<1>1. PICK w, n, f : w = Wire(items) /\ n = Len(w) /\ f = Decoding(w)
  OBVIOUS
<1>2. w \in Seq(Byte) /\ n \in Nat /\ k \in 0 .. n /\ Meaning(items) \in Seq(Deeds)
  <2>1. Wire(items) \in Seq(Byte) /\ Meaning(items) \in Seq(Deeds)
    BY WireFacts
  <2>2. \A s \in Seq(Byte) : Len(s) \in Nat
    OBVIOUS
  <2> QED BY <1>1, <2>1, <2>2
<1>3. f[n].line = Meaning(items)
  <2>1. PICK g : /\ Run(g, "bridge", [state |-> 0, line |-> <<>>], w, n)
                 /\ g[n] = [state |-> 0, line |-> Meaning(items)]
    BY <1>1, WireFacts DEF Leads
  <2>2. Run(f, "bridge", [state |-> 0, line |-> <<>>], w, n)
    BY <1>1, <1>2, DecodingRuns
  <2>3. SameRuns("bridge", [state |-> 0, line |-> <<>>], w, n, w, n)
    BY <1>2, RunUnique
  <2>4. n \in 0 .. n
    BY <1>2
  <2>5. f[n] = g[n]
    BY <2>1, <2>2, <2>3, <2>4 DEF SameRuns
  <2> QED BY <2>1, <2>5
<1>4. /\ \A i \in 1 .. n : f[i] = DecodeStep(f[i - 1], w[i])
      /\ \A i \in 0 .. n : f[i].state \in 0 .. 8 /\ f[i].line \in Seq(Deeds)
  BY <1>1, <1>2, DecodingFacts
<1>5. ASSUME NEW i \in 0 .. n - 1
      PROVE  Begins(f[i].line, f[i + 1].line)
  <2>1. i + 1 \in 1 .. n /\ i + 1 \in 0 .. n /\ (i + 1) - 1 = i /\ i \in 0 .. n
    BY <1>2
  <2>2. f[i + 1] = DecodeStep(f[i], w[i + 1])
    BY <1>4, <2>1
  <2>3. w[i + 1] \in Byte
    BY <1>1, <1>2, <2>1
  <2>4. f[i].state \in 0 .. 8 /\ f[i].line \in Seq(Deeds)
    BY <1>4, <2>1
  <2>5. PICK s, t : s = f[i].line /\ t = DecodeDo(f[i].state, w[i + 1])
    OBVIOUS
  <2>6. s \in Seq(Deeds) /\ t \in Seq(Deeds)
    BY <2>3, <2>4, <2>5, DecodeType
  <2>7. f[i + 1].line = Joined(s, t)
    BY <2>2, <2>5 DEF DecodeStep
  <2>8. Begins(s, Joined(s, t))
    BY <2>6, ConcatProperties DEF Begins, Joined
  <2> QED BY <2>5, <2>7, <2>8
<1> DEFINE P == {j \in 0 .. n - k : Begins(f[k].line, f[k + j].line)}
<1>6. 0 \in P
  <2>1. k + 0 = k /\ 0 \in 0 .. n - k
    BY <1>2
  <2>2. f[k].line \in Seq(Deeds)
    BY <1>2, <1>4
  <2>3. Begins(f[k].line, f[k].line)
    BY <2>2 DEF Begins
  <2> QED BY <2>1, <2>3
<1>7. ASSUME NEW j \in 0 .. (n - k) - 1, j \in P PROVE j + 1 \in P
  <2>1. /\ k + j \in 0 .. n - 1 /\ k + (j + 1) = (k + j) + 1 /\ j + 1 \in 0 .. n - k
        /\ k + j \in 0 .. n /\ (k + j) + 1 \in 0 .. n
    BY <1>2
  <2>2. PICK a, b, c : a = f[k].line /\ b = f[k + j].line /\ c = f[(k + j) + 1].line
    OBVIOUS
  <2>3. Begins(a, b) /\ Begins(b, c)
    BY <1>5, <1>7, <2>1, <2>2
  <2>4. a \in Seq(Deeds) /\ b \in Seq(Deeds) /\ c \in Seq(Deeds)
    BY <1>2, <1>4, <2>1, <2>2
  <2>5. Begins(a, c)
    BY <2>3, <2>4 DEF Begins
  <2> QED BY <2>1, <2>2, <2>5
<1>8. n - k \in P
  <2>1. n - k \in Nat
    BY <1>2
  <2> HIDE DEF P
  <2>2. \A j \in 0 .. n - k : j \in P
    BY <1>6, <1>7, <2>1, NatInduct
  <2> QED BY <2>1, <2>2
<1>9. k + (n - k) = n
  BY <1>2
<1>10. Begins(f[k].line, Meaning(items)) /\ f[k].line \in Seq(Deeds)
  BY <1>2, <1>3, <1>4, <1>8, <1>9
<1>11. ASSUME NEW s \in Seq(Deeds), NEW t \in Seq(Deeds), Begins(s, t)
       PROVE  IsPrefix(s, t)
  <2>1. Len(s) <= Len(t) /\ \A i \in 1 .. Len(s) : s[i] = t[i]
    BY <1>11 DEF Begins
  <2>2. SubSeq(s, 1, Len(s)) = SubSeq(t, 1, Len(s))
    BY <2>1
  <2> QED BY <2>1, <2>2 DEF IsPrefix
<1> QED BY <1>1, <1>2, <1>10, <1>11

-----------------------------------------------------------------------------
(* A ring, without remainders. *)

Wrap(i)        == IF i = Size THEN 0 ELSE i
Gap(from, to)  == IF to >= from THEN to - from ELSE to - from + Size
Place(from, j) == IF from + j >= Size THEN from + j - Size ELSE from + j

(* s comes after the first k of whole, and so do the n bytes in a ring.     *)
Follows(s, whole, k) == \A i \in 1 .. Len(s) : s[i] = whole[k + i]
Holds(data, from, n, whole, k) ==
  \A j \in 0 .. n - 1 : data[Place(from, j)] = whole[k + 1 + j]

Rings == [begin : 0 .. Size, end : 0 .. Size, data : [0 .. Size - 1 -> Byte]]

LEMMA SizeFacts ==
  /\ Size \in Nat /\ Packet \in Nat /\ MaxBurst \in Nat
  /\ Packet >= 1 /\ Size > Packet + 1 /\ 2 * MaxBurst < Packet
  BY SerPlusAssumption

LEMMA WrapFacts ==
  /\ \A i \in 0 .. Size : i % Size = Wrap(i) /\ Wrap(i) \in 0 .. Size - 1
  /\ \A i \in 0 .. Size - 1 : Wrap(i) = i
<1>1. Size \in Nat /\ Size >= 1
  BY SizeFacts
<1>2. ASSUME NEW i \in 0 .. Size PROVE i % Size = Wrap(i) /\ Wrap(i) \in 0 .. Size - 1
  <2>1. CASE i = Size
    BY <2>1, <1>1 DEF Wrap
  <2>2. CASE i # Size
    <3>1. i \in 0 .. Size - 1
      BY <2>2, <1>1
    <3>2. i % Size = i
      BY <3>1, <1>1
    <3> QED BY <3>1, <3>2, <2>2 DEF Wrap
  <2> QED BY <2>1, <2>2
<1> QED BY <1>1, <1>2 DEF Wrap

LEMMA GapFacts ==
  ASSUME NEW from \in 0 .. Size - 1, NEW to \in 0 .. Size - 1
  PROVE  /\ Gap(from, to) \in 0 .. Size - 1
         /\ Place(from, Gap(from, to)) = to
         /\ Gap(from, to) = 0 <=> from = to
         /\ Gap(from, to) # 0 => Gap(Wrap(from + 1), to) = Gap(from, to) - 1
         /\ Gap(from, to) # Size - 1 => Gap(from, Wrap(to + 1)) = Gap(from, to) + 1
  BY SizeFacts DEF Gap, Place, Wrap

(* What the code computes with remainders.                                  *)
LEMMA RemainderFacts ==
  ASSUME NEW from \in 0 .. Size - 1, NEW to \in 0 .. Size - 1
  PROVE  /\ (to - from) % Size = Gap(from, to)
         /\ (to + 1) % Size = from <=> Gap(from, to) = Size - 1
         /\ (from - (to + 1)) % Size = Size - 1 - Gap(from, to)
<1>1. Size \in Nat /\ Size >= 1
  BY SizeFacts
<1>2. (to - from) % Size = Gap(from, to)
  <2>1. CASE to >= from
    <3>1. to - from \in 0 .. Size - 1
      BY <2>1, <1>1
    <3> QED BY <3>1, <2>1, <1>1 DEF Gap
  <2>2. CASE to < from
    <3>1. to - from + Size \in 0 .. Size - 1 /\ to - from = (to - from + Size) - Size
      BY <2>2, <1>1
    <3>2. (to - from) % Size = to - from + Size
      BY <3>1, <1>1
    <3> QED BY <3>2, <2>2 DEF Gap
  <2> QED BY <2>1, <2>2
<1>3. (to + 1) % Size = from <=> Gap(from, to) = Size - 1
  <2>1. (to + 1) % Size = Wrap(to + 1)
    BY <1>1, WrapFacts
  <2> QED BY <2>1, <1>1 DEF Wrap, Gap
<1>4. (from - (to + 1)) % Size = Size - 1 - Gap(from, to)
  <2>1. CASE from >= to + 1
    <3>1. from - (to + 1) \in 0 .. Size - 1
      BY <2>1, <1>1
    <3>2. (from - (to + 1)) % Size = from - (to + 1)
      BY <3>1, <1>1
    <3> QED BY <3>2, <2>1, <1>1 DEF Gap
  <2>2. CASE from < to + 1
    <3>1. /\ from - (to + 1) + Size \in 0 .. Size - 1
          /\ from - (to + 1) = (from - (to + 1) + Size) - Size
      BY <2>2, <1>1
    <3>2. (from - (to + 1)) % Size = from - (to + 1) + Size
      BY <3>1, <1>1
    <3> QED BY <3>2, <2>2, <1>1 DEF Gap
  <2> QED BY <2>1, <2>2
<1> QED BY <1>2, <1>3, <1>4

LEMMA PlaceFacts ==
  ASSUME NEW from \in 0 .. Size - 1, NEW j \in 0 .. Size - 1
  PROVE  /\ Place(from, j) \in 0 .. Size - 1
         /\ Place(from, 0) = from
         /\ j + 1 < Size => Place(from, j + 1) = Place(Wrap(from + 1), j)
         /\ \A i \in 0 .. Size - 1 : Place(from, i) = Place(from, j) => i = j
         /\ (from + j) % Size = Place(from, j)
<1>1. Size \in Nat /\ Size >= 1
  BY SizeFacts
<1>2. (from + j) % Size = Place(from, j)
  <2>0. from + j >= Size \/ from + j < Size
    BY <1>1
  <2>1. CASE from + j >= Size
    <3>1. from + j - Size \in 0 .. Size - 1 /\ from + j = (from + j - Size) + Size
      BY <2>1, <1>1
    <3>2. (from + j) % Size = from + j - Size
      BY <3>1, <1>1
    <3> QED BY <3>2, <2>1 DEF Place
  <2>2. CASE from + j < Size
    <3>1. from + j \in 0 .. Size - 1 /\ ~(from + j >= Size)
      BY <2>2, <1>1
    <3>2. (from + j) % Size = from + j
      BY <3>1, <1>1
    <3> QED BY <3>1, <3>2 DEF Place
  <2> QED BY <2>0, <2>1, <2>2
<1> QED BY <1>1, <1>2 DEF Place, Wrap

(* The oldest byte is taken, a byte is stored in the next place.            *)
LEMMA HoldsTake ==
  ASSUME NEW from \in 0 .. Size - 1, NEW n \in 1 .. Size - 1,
         NEW data, NEW whole, NEW k \in Nat, Holds(data, from, n, whole, k)
  PROVE  /\ data[from] = whole[k + 1]
         /\ Holds(data, Wrap(from + 1), n - 1, whole, k + 1)
<1>1. data[from] = whole[k + 1]
  <2>1. 0 \in 0 .. n - 1 /\ Place(from, 0) = from /\ k + 1 + 0 = k + 1
    BY SizeFacts, PlaceFacts
  <2> QED BY <2>1 DEF Holds
<1>2. ASSUME NEW j \in 0 .. (n - 1) - 1
      PROVE  data[Place(Wrap(from + 1), j)] = whole[(k + 1) + 1 + j]
  <2>1. /\ j \in 0 .. Size - 1 /\ j + 1 < Size /\ j + 1 \in 0 .. n - 1
        /\ k + 1 + (j + 1) = (k + 1) + 1 + j
    BY SizeFacts
  <2>2. Place(from, j + 1) = Place(Wrap(from + 1), j)
    BY <2>1, PlaceFacts
  <2> QED BY <2>1, <2>2 DEF Holds
<1> QED BY <1>1, <1>2 DEF Holds

LEMMA HoldsStore ==
  ASSUME NEW from \in 0 .. Size - 1, NEW n \in 0 .. Size - 1,
         NEW data \in [0 .. Size - 1 -> Byte], NEW whole, NEW k \in Nat,
         Holds(data, from, n, whole, k), NEW b, b = whole[k + 1 + n]
  PROVE  Holds([data EXCEPT ![Place(from, n)] = b], from, n + 1, whole, k)
<1> DEFINE new == [data EXCEPT ![Place(from, n)] = b]
<1>1. ASSUME NEW j \in 0 .. (n + 1) - 1
      PROVE  new[Place(from, j)] = whole[k + 1 + j]
  <2>0. j \in 0 .. Size - 1
    BY SizeFacts
  <2>1. /\ j \in 0 .. Size - 1 /\ Place(from, j) \in 0 .. Size - 1
        /\ Place(from, n) \in 0 .. Size - 1
    BY <2>0, PlaceFacts
  <2>2. CASE j = n
    BY <2>1, <2>2
  <2>3. CASE j # n
    <3>1. Place(from, j) # Place(from, n)
      BY <2>3, <2>1, PlaceFacts
    <3>2. j \in 0 .. n - 1
      BY <2>3
    <3> QED BY <3>1, <3>2, <2>1 DEF Holds
  <2> QED BY <2>2, <2>3
<1> HIDE DEF new
<1> QED BY <1>1 DEF Holds, new

-----------------------------------------------------------------------------
(* The inductive invariant. *)

(* output_ring holds what was stored in it, and in the middle of a store    *)
(* not the byte that is stored; main has the rest of a packet.              *)
OutEnd   == IF pc = "store" THEN slot ELSE Wrap(out.end)
OutCount == Gap(out.begin, OutEnd)
Putting  == IF pc \in {"put", "store", "wrap"} THEN buf ELSE <<>>

(* Bytes from the host that usart1_isr has decoded.                         *)
Decoded == Len(Wire(script)) - Len(todo) - Len(endpoint) - Len(Putting) - OutCount

(* The indices of output_ring: the packet that is being put fits.           *)
OutInv ==
  /\ out.begin < Size
  /\ pc \notin {"store", "wrap"} => out.end < Size
  /\ pc = "store" => out.end = slot + 1 /\ buf # <<>>
  /\ pc \in {"put", "store", "wrap"} => OutCount + Len(buf) <= Size - 2
  /\ pc = "poll" => buf = <<>>
  /\ Len(endpoint) <= Packet

(* The bytes on their way to the serial port are the rest of the stream.    *)
StreamInv ==
  /\ Decoded >= 0
  /\ Holds(out.data, out.begin, OutCount, Wire(script), Decoded)
  /\ Follows(Putting, Wire(script), Decoded + OutCount)
  /\ Follows(endpoint, Wire(script), Decoded + OutCount + Len(Putting))
  /\ Follows(todo, Wire(script), Len(Wire(script)) - Len(todo))
  /\ [state |-> state, line |-> line] = Decoding(Wire(script))[Decoded]

(* input_ring holds what was stored in it and not loaded; main has what was *)
(* loaded in this round.                                                    *)
InBegin == IF pc = "load" THEN slot ELSE Wrap(inp.begin)
InCount == Gap(InBegin, inp.end)
Getting == IF pc \in {"get", "load", "unwrap"} THEN buf ELSE <<>>

(* The indices of input_ring, which never gets full: what is in it and with *)
(* main came in this round.                                                 *)
InInv ==
  /\ inp.end < Size
  /\ pc \notin {"load", "unwrap"} => inp.begin < Size
  /\ pc = "load" => inp.begin = slot + 1 /\ InCount > 0
  /\ Len(Getting) + InCount <= 2 * burst

(* What was offered to the host is what came in before this round.          *)
ArrivedInv ==
  /\ arrived \in Seq(Byte)
  /\ burst <= Len(arrived)
  /\ moved = Wrapped(SubSeq(arrived, 1, Len(arrived) - burst))
  /\ Len(moved) + Len(Getting) + InCount = Len(Wrapped(arrived))
  /\ Follows(Getting, Wrapped(arrived), Len(moved))
  /\ Holds(inp.data, InBegin, InCount, Wrapped(arrived), Len(moved) + Len(Getting))

(* The host has got some of it, in its order.                               *)
HostInv ==
  /\ host \in [state : {0}, got : Seq(Byte)]
  /\ \E at \in [DOMAIN host.got -> 1 .. Len(arrived) - burst] :
       \A i \in DOMAIN host.got :
         /\ host.got[i] = arrived[at[i]]
         /\ i > 1 => at[i] > at[i - 1]

OutputInv == ~overtaken => OutInv /\ StreamInv
InputInv  == InInv /\ ArrivedInv /\ HostInv

IInv == script \in Scripts /\ TypeOK /\ OutputInv /\ InputInv

LEMMA Types ==
  ASSUME TypeOK
  PROVE  /\ out \in Rings /\ inp \in Rings
         /\ out.begin \in 0 .. Size /\ out.end \in 0 .. Size
         /\ out.data \in [0 .. Size - 1 -> Byte]
         /\ inp.begin \in 0 .. Size /\ inp.end \in 0 .. Size
         /\ inp.data \in [0 .. Size - 1 -> Byte]
         /\ out = [begin |-> out.begin, end |-> out.end, data |-> out.data]
         /\ inp = [begin |-> inp.begin, end |-> inp.end, data |-> inp.data]
<1>1. out \in Rings /\ inp \in Rings
  BY DEF TypeOK, Rings
<1> QED BY <1>1 DEF Rings

(* TypeOK, with the rings apart.                                            *)
LEMMA TypesTogether ==
  ASSUME out \in Rings, inp \in Rings
  PROVE  \A ring \in {out, inp} :
           ring \in [begin : 0 .. Size, end : 0 .. Size, data : [0 .. Size - 1 -> Byte]]
  BY DEF Rings

LEMMA ScriptFacts ==
  ASSUME script \in Scripts
  PROVE  /\ script \in Seq(Items)
         /\ Wire(script) \in Seq(Byte) /\ Len(Wire(script)) \in Nat
<1>1. script \in Seq(Items)
  BY SerPlusAssumption
<1>2. Wire(script) \in Seq(Byte)
  BY <1>1, WireFacts
<1> QED BY <1>1, <1>2

LEMMA InitIInv == Init => IInv
<1> SUFFICES ASSUME Init PROVE IInv
  OBVIOUS
<1>1. /\ script \in Scripts /\ todo = Wire(script) /\ endpoint = <<>>
      /\ out = IdleRing /\ inp = IdleRing
      /\ pc = "poll" /\ buf = <<>> /\ slot = 0 /\ state = 0 /\ line = <<>>
      /\ arrived = <<>> /\ burst = 0 /\ moved = <<>>
      /\ host = [state |-> 0, got |-> <<>>]
  BY DEF Init
<1>2. /\ Size \in Nat /\ Size >= 3 /\ Packet \in Nat /\ MaxBurst \in Nat
      /\ Start \in 0 .. Size - 1
  BY SizeFacts, SerPlusAssumption
<1>3. Wire(script) \in Seq(Byte) /\ Len(Wire(script)) \in Nat
  BY <1>1, ScriptFacts
<1>4. IdleRing \in Rings /\ IdleRing.begin = Start /\ IdleRing.end = Start
  BY <1>2 DEF IdleRing, Rings, Byte
<1>5. TypeOK
  <2>1. \A ring \in {out, inp} :
          ring \in [begin : 0 .. Size, end : 0 .. Size, data : [0 .. Size - 1 -> Byte]]
    BY <1>1, <1>4, TypesTogether
  <2>2. todo \in Seq(Byte) /\ endpoint \in Seq(Byte) /\ buf \in Seq(Byte) /\ Len(buf) <= Packet
    BY <1>1, <1>2, <1>3
  <2> QED BY <1>1, <1>2, <2>1, <2>2 DEF TypeOK
<1>6. Wrap(Start) = Start /\ Gap(Start, Start) = 0
  BY <1>2, WrapFacts DEF Gap
<1>7. /\ OutCount = 0 /\ InCount = 0 /\ Putting = <<>> /\ Getting = <<>>
      /\ InBegin = Start /\ Len(Putting) = 0 /\ Len(Getting) = 0
  BY <1>1, <1>4, <1>6 DEF OutCount, InCount, OutEnd, InBegin, Putting, Getting
<1>8. Decoded = 0
  <2>1. PICK n : n = Len(Wire(script))
    OBVIOUS
  <2>2. Len(endpoint) = 0 /\ Len(todo) = n /\ n \in Nat
    BY <1>1, <1>3, <2>1
  <2>3. Decoded = n - n - 0 - 0 - 0
    BY <1>7, <2>1, <2>2, Zenon DEF Decoded
  <2> QED BY <2>2, <2>3
<1>9. OutInv
  BY <1>1, <1>2, <1>4 DEF OutInv
<1>10. StreamInv
  <2>1. Decoding(Wire(script))[0] = [state |-> 0, line |-> <<>>]
    BY <1>3, DecodingFacts
  <2>2. \A whole, k : Follows(<<>>, whole, k)
    BY DEF Follows
  <2>3. \A data, from, whole, k : Holds(data, from, 0, whole, k)
    BY DEF Holds
  <2>4. Follows(Wire(script), Wire(script), Len(Wire(script)) - Len(Wire(script)))
    BY <1>3 DEF Follows
  <2>5. Follows(todo, Wire(script), Len(Wire(script)) - Len(todo))
    BY <2>4, <1>1
  <2> QED BY <1>1, <1>7, <1>8, <2>1, <2>2, <2>3, <2>5 DEF StreamInv
<1>11. InInv
  BY <1>1, <1>2, <1>4, <1>7 DEF InInv
<1>12. ArrivedInv
  <2>1. \A whole, k : Follows(<<>>, whole, k)
    BY DEF Follows
  <2>2. \A data, from, whole, k : Holds(data, from, 0, whole, k)
    BY DEF Holds
  <2>3. SubSeq(arrived, 1, Len(arrived) - burst) = <<>>
    BY <1>1
  <2>4. Wrapped(<<>>) = <<>> /\ Len(<<>>) = 0 /\ <<>> \in Seq(Byte)
    BY WrappedMore
  <2>5. Wrapped(arrived) = <<>> /\ Len(Wrapped(arrived)) = 0 /\ Len(moved) = 0
    BY <1>1, <2>4
  <2>6. /\ arrived \in Seq(Byte) /\ burst <= Len(arrived)
        /\ moved = Wrapped(SubSeq(arrived, 1, Len(arrived) - burst))
    <3>1. moved = Wrapped(SubSeq(arrived, 1, Len(arrived) - burst))
      BY <1>1, <2>3, <2>4, Zenon
    <3> QED BY <1>1, <2>4, <3>1
  <2>7. Len(moved) + Len(Getting) + InCount = Len(Wrapped(arrived))
    BY <1>7, <2>5
  <2>8. /\ Follows(Getting, Wrapped(arrived), Len(moved))
        /\ Holds(inp.data, InBegin, InCount, Wrapped(arrived), Len(moved) + Len(Getting))
    BY <1>7, <2>1, <2>2
  <2> QED BY <2>6, <2>7, <2>8 DEF ArrivedInv
<1>13. HostInv
  <2>1. host.got = <<>> /\ host \in [state : {0}, got : Seq(Byte)]
    BY <1>1
  <2>2. DOMAIN <<>> = {}
    OBVIOUS
  <2>3. \A S : [i \in {} |-> 1] \in [{} -> S]
    OBVIOUS
  <2>4. \E at \in [DOMAIN host.got -> 1 .. Len(arrived) - burst] : TRUE
    BY <2>1, <2>2, <2>3
  <2> QED BY <2>1, <2>2, <2>4 DEF HostInv
<1> QED BY <1>1, <1>5, <1>9, <1>10, <1>11, <1>12, <1>13 DEF IInv, OutputInv, InputInv

-----------------------------------------------------------------------------
(* What the invariant says of the numbers in it. *)

LEMMA OutFacts ==
  ASSUME script \in Scripts, TypeOK, OutInv, StreamInv
  PROVE  /\ out.begin \in 0 .. Size - 1 /\ OutEnd \in 0 .. Size - 1
         /\ OutCount \in 0 .. Size - 1 /\ Decoded \in Nat
         /\ Putting \in Seq(Byte) /\ Len(Putting) \in Nat
         /\ Len(endpoint) \in Nat /\ Len(todo) \in Nat
         /\ Decoded + OutCount + Len(Putting) + Len(endpoint) + Len(todo)
              = Len(Wire(script))
<1>1. out.begin \in 0 .. Size - 1 /\ OutEnd \in 0 .. Size - 1
  <2>1. out.begin \in 0 .. Size /\ out.end \in 0 .. Size /\ slot \in 0 .. Size - 1
    BY Types DEF TypeOK
  <2>2. out.begin \in 0 .. Size - 1
    BY <2>1, SizeFacts DEF OutInv
  <2>3. Wrap(out.end) \in 0 .. Size - 1
    BY <2>1, WrapFacts
  <2> QED BY <2>1, <2>2, <2>3 DEF OutEnd
<1>2. OutCount \in 0 .. Size - 1
  BY <1>1, GapFacts DEF OutCount
<1>3. Putting \in Seq(Byte) /\ Len(Putting) \in Nat
  <2>1. buf \in Seq(Byte) /\ <<>> \in Seq(Byte)
    BY DEF TypeOK
  <2>2. Putting \in Seq(Byte)
    BY <2>1 DEF Putting
  <2> QED BY <2>2
<1>4. Len(endpoint) \in Nat /\ Len(todo) \in Nat /\ Len(Wire(script)) \in Nat
  BY ScriptFacts DEF TypeOK
<1>5. PICK a, b, c, d, e :
        /\ a = Len(Wire(script)) /\ b = Len(todo) /\ c = Len(endpoint)
        /\ d = Len(Putting) /\ e = OutCount
  OBVIOUS
<1>6. Decoded = a - b - c - d - e
  BY <1>5, Zenon DEF Decoded
<1>7. Decoded >= 0
  BY DEF StreamInv
<1>8. a \in Nat /\ b \in Nat /\ c \in Nat /\ d \in Nat /\ e \in Nat
  BY <1>2, <1>3, <1>4, <1>5
<1>9. Decoded \in Nat /\ Decoded + e + d + c + b = a
  BY <1>6, <1>7, <1>8
<1> QED BY <1>1, <1>2, <1>3, <1>4, <1>5, <1>9

LEMMA InFacts ==
  ASSUME TypeOK, InInv, ArrivedInv
  PROVE  /\ InBegin \in 0 .. Size - 1 /\ inp.end \in 0 .. Size - 1
         /\ InCount \in 0 .. Size - 1
         /\ Getting \in Seq(Byte) /\ Len(Getting) \in Nat
         /\ moved \in Seq(Byte) /\ Len(moved) \in Nat
         /\ burst \in 0 .. MaxBurst /\ Len(arrived) \in Nat
         /\ Len(Getting) + InCount < Packet
         /\ Wrapped(arrived) \in Seq(Byte) /\ Len(Wrapped(arrived)) \in Nat
<1>1. InBegin \in 0 .. Size - 1 /\ inp.end \in 0 .. Size - 1
  <2>1. inp.begin \in 0 .. Size /\ inp.end \in 0 .. Size /\ slot \in 0 .. Size - 1
    BY Types DEF TypeOK
  <2>2. inp.end \in 0 .. Size - 1
    BY <2>1, SizeFacts DEF InInv
  <2>3. Wrap(inp.begin) \in 0 .. Size - 1
    BY <2>1, WrapFacts
  <2> QED BY <2>1, <2>2, <2>3 DEF InBegin
<1>2. InCount \in 0 .. Size - 1
  BY <1>1, GapFacts DEF InCount
<1>3. Getting \in Seq(Byte) /\ Len(Getting) \in Nat
  <2>1. buf \in Seq(Byte) /\ <<>> \in Seq(Byte)
    BY DEF TypeOK
  <2>2. Getting \in Seq(Byte)
    BY <2>1 DEF Getting
  <2> QED BY <2>2
<1>4. arrived \in Seq(Byte) /\ burst \in 0 .. MaxBurst /\ burst <= Len(arrived)
  BY DEF TypeOK, ArrivedInv
<1>5. moved \in Seq(Byte)
  <2>1. SubSeq(arrived, 1, Len(arrived) - burst) \in Seq(Byte)
    BY <1>4, SizeFacts, SubSeqProperties
  <2> QED BY <2>1, WrappedMore DEF ArrivedInv
<1>6. Len(Getting) + InCount < Packet
  <2>1. Len(Getting) + InCount <= 2 * burst
    BY DEF InInv
  <2> QED BY <2>1, <1>2, <1>3, <1>4, SizeFacts
<1>7. Wrapped(arrived) \in Seq(Byte)
  BY <1>4, WrappedMore
<1> QED BY <1>1, <1>2, <1>3, <1>4, <1>5, <1>6, <1>7

(* Steps of others.                                                         *)
LEMMA InputFrame ==
  ASSUME InputInv, UNCHANGED inVars, Getting' = Getting, InBegin' = InBegin,
         \/ UNCHANGED <<pc, slot>>
         \/ pc \notin {"load", "unwrap"} /\ pc' \notin {"load", "unwrap"}
  PROVE  InputInv'
<1>1. /\ inp' = inp /\ arrived' = arrived /\ burst' = burst /\ moved' = moved
      /\ host' = host
  BY DEF inVars
<1>2. InCount' = InCount
  BY <1>1 DEF InCount
<1>3. InInv'
  BY <1>1, <1>2 DEF InputInv, InInv
<1>4. ArrivedInv'
  BY <1>1, <1>2 DEF InputInv, ArrivedInv
<1>5. HostInv'
  BY <1>1 DEF InputInv, HostInv
<1> QED BY <1>3, <1>4, <1>5 DEF InputInv

LEMMA OutputFrame ==
  ASSUME OutputInv, UNCHANGED outVars, Putting' = Putting, OutEnd' = OutEnd,
         \/ UNCHANGED main
         \/ /\ pc \notin {"put", "store", "wrap"} /\ pc' \notin {"put", "store", "wrap"}
            /\ pc' = "poll" => buf' = <<>>
  PROVE  OutputInv'
<1>1. /\ script' = script /\ todo' = todo /\ endpoint' = endpoint /\ out' = out
      /\ state' = state /\ line' = line /\ overtaken' = overtaken
  BY DEF outVars
<1>2. OutCount' = OutCount
  BY <1>1 DEF OutCount
<1>3. Decoded' = Decoded
  BY <1>1, <1>2 DEF Decoded
<1>4. SUFFICES ASSUME ~overtaken PROVE OutInv' /\ StreamInv'
  BY <1>1 DEF OutputInv
<1>5. OutInv'
  <2>1. CASE UNCHANGED main
    BY <1>1, <1>2, <1>4, <2>1 DEF OutputInv, OutInv, main
  <2>2. CASE /\ pc \notin {"put", "store", "wrap"} /\ pc' \notin {"put", "store", "wrap"}
             /\ pc' = "poll" => buf' = <<>>
    BY <1>1, <1>2, <1>4, <2>2 DEF OutputInv, OutInv
  <2> QED BY <2>1, <2>2
<1>6. StreamInv'
  BY <1>1, <1>2, <1>3, <1>4 DEF OutputInv, StreamInv
<1> QED BY <1>5, <1>6

-----------------------------------------------------------------------------
(* The steps on the way to the serial port. *)

LEMMA HostSendsKeeps ==
  ASSUME IInv, ~overtaken, HostSends
  PROVE  IInv'
<1>1. PICK n \in 1 .. Packet :
        /\ n <= Len(todo) /\ endpoint' = SubSeq(todo, 1, n)
        /\ todo' = SubSeq(todo, n + 1, Len(todo))
  BY DEF HostSends
<1>2. /\ endpoint = <<>> /\ script' = script /\ out' = out /\ state' = state
      /\ line' = line /\ overtaken' = overtaken
      /\ UNCHANGED inVars /\ pc' = pc /\ buf' = buf /\ slot' = slot
      /\ inp' = inp /\ burst' = burst
  BY DEF HostSends, main, inVars
<1>3. script \in Scripts /\ TypeOK /\ OutInv /\ StreamInv /\ InputInv
  BY DEF IInv, OutputInv
<1>4. todo \in Seq(Byte) /\ Packet \in Nat /\ n \in Nat
  BY <1>3, SizeFacts DEF TypeOK
<1>5. /\ endpoint' \in Seq(Byte) /\ Len(endpoint') = n
      /\ \A i \in 1 .. n : endpoint'[i] = todo[i]
  BY <1>1, <1>4
<1>6. /\ todo' \in Seq(Byte) /\ Len(todo') = Len(todo) - n
      /\ \A i \in 1 .. Len(todo) - n : todo'[i] = todo[n + i]
  <2>1. \A i \in n + 1 .. Len(todo) : todo[i] \in Byte
    BY <1>4
  <2>2. n + 1 \in Int /\ Len(todo) \in Int
    BY <1>4
  <2>3. /\ todo' \in Seq(Byte)
        /\ Len(todo') = IF n + 1 <= Len(todo) THEN Len(todo) - (n + 1) + 1 ELSE 0
        /\ \A i \in 1 .. Len(todo) - (n + 1) + 1 : todo'[i] = todo[n + 1 + i - 1]
    BY <1>1, <2>1, <2>2, SubSeqProperties
  <2> QED BY <1>1, <1>4, <2>3
<1>7. TypeOK'
  BY <1>2, <1>3, <1>5, <1>6 DEF TypeOK
<1>8. InputInv'
  BY <1>2, <1>3, InputFrame DEF Getting, InBegin
<1>9. /\ OutCount' = OutCount /\ Putting' = Putting /\ Len(endpoint) = 0
  BY <1>2 DEF OutCount, OutEnd, Putting
<1>10. PICK w, k, c, p : w = Wire(script) /\ k = Decoded /\ c = OutCount /\ p = Len(Putting)
  OBVIOUS
<1>11. /\ k \in Nat /\ c \in Nat /\ p \in Nat /\ Len(todo) \in Nat
       /\ k + c + p + 0 + Len(todo) = Len(w)
  BY <1>3, <1>9, <1>10, OutFacts
<1>12. Decoded' = Decoded
  <2>1. Decoded' = Len(w) - Len(todo') - Len(endpoint') - p - c
    BY <1>2, <1>9, <1>10, Zenon DEF Decoded
  <2>2. PICK a, t, d : a = Len(w) /\ t = Len(todo) /\ d = Decoded'
    OBVIOUS
  <2>3. Len(todo') = t - n /\ Len(endpoint') = n
    BY <1>5, <1>6, <2>2
  <2>4. d = a - (t - n) - n - p - c
    BY <2>1, <2>2, <2>3, Zenon
  <2>5. k + c + p + 0 + t = a /\ t \in Nat
    BY <1>11, <2>2
  <2>6. d = k
    BY <2>4, <2>5, <1>4, <1>11
  <2> QED BY <2>2, <2>6, <1>10
<1>13. OutInv'
  BY <1>2, <1>3, <1>5, <1>9 DEF OutInv
<1>14. Follows(endpoint', w, k + c + p) /\ Follows(todo', w, Len(w) - Len(todo'))
  <2>1. \A i \in 1 .. Len(todo) : todo[i] = w[Len(w) - Len(todo) + i]
    BY <1>3, <1>10 DEF StreamInv, Follows
  <2>2. Len(w) - Len(todo) = k + c + p
    BY <1>11
  <2>3. ASSUME NEW i \in 1 .. Len(endpoint') PROVE endpoint'[i] = w[(k + c + p) + i]
    <3>1. i \in 1 .. n /\ i \in 1 .. Len(todo)
      BY <1>1, <1>4, <1>5
    <3> QED BY <3>1, <2>1, <2>2, <1>5
  <2>4. ASSUME NEW i \in 1 .. Len(todo') PROVE todo'[i] = w[(Len(w) - Len(todo')) + i]
    <3>1. i \in 1 .. Len(todo) - n /\ n + i \in 1 .. Len(todo)
      BY <1>1, <1>4, <1>6
    <3>2. Len(w) - Len(todo) + (n + i) = (Len(w) - Len(todo')) + i
      BY <1>4, <1>6, <1>11, <3>1
    <3> QED BY <3>1, <3>2, <2>1, <1>6
  <2> QED BY <2>3, <2>4 DEF Follows
<1>15. StreamInv'
  BY <1>2, <1>3, <1>9, <1>10, <1>12, <1>14 DEF StreamInv
<1> QED BY <1>2, <1>3, <1>7, <1>8, <1>13, <1>15 DEF IInv, OutputInv

LEMMA TxDoneKeeps ==
  ASSUME IInv, ~overtaken, TxDone
  PROVE  IInv'
<1>1. /\ script' = script /\ todo' = todo /\ endpoint' = endpoint /\ out' = out
      /\ state' = state /\ line' = line /\ overtaken' = overtaken
      /\ UNCHANGED inVars /\ pc' = pc /\ buf' = buf /\ slot' = slot
      /\ inp' = inp /\ burst' = burst
  BY DEF TxDone, main, inVars
<1>2. script \in Scripts /\ TypeOK /\ OutInv /\ StreamInv /\ InputInv
  BY DEF IInv, OutputInv
<1>3. TypeOK'
  BY <1>1, <1>2 DEF TypeOK
<1>4. InputInv'
  BY <1>1, <1>2, InputFrame DEF Getting, InBegin
<1>5. OutCount' = OutCount /\ Putting' = Putting
  BY <1>1 DEF OutCount, OutEnd, Putting
<1>6. Decoded' = Decoded
  BY <1>1, <1>5 DEF Decoded
<1>7. OutInv' /\ StreamInv'
  BY <1>1, <1>2, <1>5, <1>6 DEF OutInv, StreamInv
<1> QED BY <1>1, <1>2, <1>3, <1>4, <1>7 DEF IInv, OutputInv

(* usart1_isr takes the oldest byte: unless it overtakes, there is one.     *)
LEMMA TxIrqKeeps ==
  ASSUME IInv, ~overtaken, TxIrq
  PROVE  IInv'
<1>1. /\ script' = script /\ todo' = todo /\ endpoint' = endpoint
      /\ UNCHANGED inVars /\ pc' = pc /\ buf' = buf /\ slot' = slot
      /\ inp' = inp /\ burst' = burst
  BY DEF TxIrq, main, inVars
<1>2. script \in Scripts /\ TypeOK /\ OutInv /\ StreamInv /\ InputInv
  BY DEF IInv, OutputInv
<1>3. InputInv'
  BY <1>1, <1>2, InputFrame DEF Getting, InBegin
<1>4. CASE Empty(out)
  <2>1. out' = out /\ state' = state /\ line' = line /\ overtaken' = overtaken
    BY <1>4 DEF TxIrq
  <2>2. TypeOK'
    BY <1>1, <1>2, <2>1 DEF TypeOK
  <2>3. OutCount' = OutCount /\ Putting' = Putting
    BY <1>1, <2>1 DEF OutCount, OutEnd, Putting
  <2>4. Decoded' = Decoded
    BY <1>1, <2>3 DEF Decoded
  <2>5. OutInv' /\ StreamInv'
    BY <1>1, <1>2, <2>1, <2>3, <2>4 DEF OutInv, StreamInv
  <2> QED BY <1>1, <1>2, <1>3, <2>1, <2>2, <2>5 DEF IInv, OutputInv
<1>5. CASE ~Empty(out)
  <2>1. PICK b : b = out.data[out.begin]
    OBVIOUS
  <2>2. /\ out' = [out EXCEPT !.begin = (@ + 1) % Size]
        /\ state' = DecodeNext(state, b) /\ line' = line \o DecodeDo(state, b)
        /\ overtaken' = (overtaken \/ Overtaking)
    BY <1>5, <2>1 DEF TxIrq
  <2>3. /\ out.begin \in 0 .. Size - 1 /\ OutEnd \in 0 .. Size - 1
        /\ OutCount \in 0 .. Size - 1 /\ Decoded \in Nat
        /\ Decoded + OutCount + Len(Putting) + Len(endpoint) + Len(todo)
             = Len(Wire(script))
        /\ Len(Putting) \in Nat /\ Len(endpoint) \in Nat /\ Len(todo) \in Nat
    BY <1>2, OutFacts
  <2>4. /\ out \in Rings /\ inp \in Rings /\ out.end \in 0 .. Size
        /\ out.data \in [0 .. Size - 1 -> Byte]
        /\ out = [begin |-> out.begin, end |-> out.end, data |-> out.data]
    BY <1>2, Types
  <2>5. (out.begin + 1) % Size = Wrap(out.begin + 1) /\ Wrap(out.begin + 1) \in 0 .. Size - 1
    BY <2>3, SizeFacts, WrapFacts
  <2>6. out' = [begin |-> Wrap(out.begin + 1), end |-> out.end, data |-> out.data]
    BY <2>2, <2>4, <2>5
  <2>7. out'.begin = Wrap(out.begin + 1) /\ out'.end = out.end /\ out'.data = out.data
    BY <2>6
  <2>8. out' \in Rings
    BY <2>4, <2>5, <2>6, SizeFacts DEF Rings
  <2>9. b \in Byte /\ state \in 0 .. 8
    BY <2>1, <2>3, <2>4, <1>2 DEF TypeOK
  <2>10. TypeOK'
    <3>1. state' \in 0 .. 8
      BY <2>2, <2>9, DecodeType
    <3>2. \A ring \in {out', inp'} :
            ring \in [begin : 0 .. Size, end : 0 .. Size, data : [0 .. Size - 1 -> Byte]]
      BY <2>4, <2>8, <1>1 DEF Rings
    <3> QED BY <1>1, <1>2, <3>1, <3>2 DEF TypeOK
  <2>11. ASSUME ~Overtaking PROVE OutInv' /\ StreamInv'
    <3>1. OutCount # 0
      <4>1. out.begin # OutEnd
        <5>1. CASE pc = "store"
          BY <2>11, <5>1 DEF Overtaking, OutEnd
        <5>2. CASE pc # "store"
          <6>1. out.begin # out.end
            BY <1>5 DEF Empty
          <6>2. ~(out.end = Size /\ out.begin = 0)
            BY <2>11 DEF Overtaking
          <6> QED BY <5>2, <6>1, <6>2 DEF OutEnd, Wrap
        <5> QED BY <5>1, <5>2
      <4> QED BY <4>1, <2>3, GapFacts DEF OutCount
    <3>2. OutCount' = OutCount - 1 /\ OutEnd' = OutEnd /\ Putting' = Putting
      <4>1. OutEnd' = OutEnd /\ Putting' = Putting
        BY <1>1, <2>7 DEF OutEnd, Putting
      <4>2. OutCount' = Gap(Wrap(out.begin + 1), OutEnd)
        BY <2>7, <4>1 DEF OutCount
      <4> QED BY <3>1, <4>1, <4>2, <2>3, GapFacts DEF OutCount
    <3>3. PICK w, k, c : w = Wire(script) /\ k = Decoded /\ c = OutCount
      OBVIOUS
    <3>4. k \in Nat /\ c \in 1 .. Size - 1
      BY <3>1, <3>3, <2>3
    <3>5. Decoded' = k + 1
      <4>1. Decoded' = Len(w) - Len(todo) - Len(endpoint) - Len(Putting) - (c - 1)
        BY <1>1, <3>2, <3>3, Zenon DEF Decoded
      <4>2. PICK a, e, p, t : /\ a = Len(w) /\ t = Len(todo) /\ e = Len(endpoint)
                              /\ p = Len(Putting)
        OBVIOUS
      <4>3. /\ k + c + p + e + t = a /\ p \in Nat /\ e \in Nat /\ t \in Nat
            /\ Decoded' = a - t - e - p - (c - 1)
        BY <4>1, <4>2, <2>3, <3>3
      <4> QED BY <4>3, <3>4
    <3>6. b = w[k + 1] /\ Holds(out.data, Wrap(out.begin + 1), c - 1, w, k + 1)
      <4>1. Holds(out.data, out.begin, c, w, k)
        BY <1>2, <3>3 DEF StreamInv
      <4> QED BY <4>1, <3>4, <2>1, <2>3, HoldsTake
    <3>7. k + 1 \in 1 .. Len(w) /\ (k + 1) - 1 = k /\ w \in Seq(Byte)
      <4>1. PICK a, e, p, t : /\ a = Len(w) /\ t = Len(todo) /\ e = Len(endpoint)
                              /\ p = Len(Putting)
        OBVIOUS
      <4>2. k + c + p + e + t = a /\ p \in Nat /\ e \in Nat /\ t \in Nat
        BY <4>1, <2>3, <3>3
      <4>3. k + 1 \in 1 .. a /\ (k + 1) - 1 = k
        BY <4>2, <3>4
      <4> QED BY <4>1, <4>3, <3>3, <1>2, ScriptFacts
    <3>8. Decoding(w)[k + 1] = [state |-> state', line |-> line']
      <4>1. Decoding(w)[k + 1] = DecodeStep(Decoding(w)[k], w[k + 1])
        BY <3>7, DecodingFacts
      <4>2. Decoding(w)[k] = [state |-> state, line |-> line]
        BY <1>2, <3>3 DEF StreamInv
      <4>3. DecodeStep([state |-> state, line |-> line], b)
              = [state |-> DecodeNext(state, b), line |-> Joined(line, DecodeDo(state, b))]
        BY DEF DecodeStep
      <4>4. line' = Joined(line, DecodeDo(state, b))
        BY <2>2 DEF Joined
      <4> QED BY <2>2, <3>6, <4>1, <4>2, <4>3, <4>4
    <3>9. OutInv'
      <4>1. out'.begin < Size
        BY <2>5, <2>7, SizeFacts
      <4>2. pc \in {"put", "store", "wrap"} => (OutCount - 1) + Len(buf) <= Size - 2
        BY <1>2, <2>3, SizeFacts DEF OutInv, TypeOK
      <4> QED BY <1>1, <1>2, <2>7, <3>2, <4>1, <4>2 DEF OutInv
    <3>10. StreamInv'
      <4>1. /\ Decoded' >= 0 /\ Decoded' = k + 1 /\ OutCount' = c - 1
            /\ (k + 1) + (c - 1) = k + c
        BY <3>2, <3>3, <3>4, <3>5
      <4>2. /\ Follows(Putting, w, k + c) /\ Follows(endpoint, w, k + c + Len(Putting))
            /\ Follows(todo, w, Len(w) - Len(todo))
        BY <1>2, <3>3 DEF StreamInv
      <4> QED BY <1>1, <2>7, <3>2, <3>3, <3>6, <3>8, <4>1, <4>2 DEF StreamInv
    <3> QED BY <3>9, <3>10
  <2>12. overtaken' \/ ~Overtaking
    BY <2>2
  <2>13. OutputInv'
    BY <2>11, <2>12 DEF OutputInv
  <2> QED BY <1>1, <1>2, <1>3, <2>10, <2>13 DEF IInv
<1> QED BY <1>4, <1>5

LEMMA ReadPacketKeeps ==
  ASSUME IInv, ~overtaken, ReadPacket
  PROVE  IInv'
<1>1. /\ Room /\ pc = "poll" /\ pc' = "put" /\ buf' = endpoint /\ endpoint' = <<>>
      /\ script' = script /\ todo' = todo /\ out' = out /\ state' = state
      /\ line' = line /\ overtaken' = overtaken /\ slot' = slot
      /\ UNCHANGED inVars /\ inp' = inp /\ burst' = burst
  BY DEF ReadPacket, Goto, inVars
<1>2. script \in Scripts /\ TypeOK /\ OutInv /\ StreamInv /\ InputInv
  BY DEF IInv, OutputInv
<1>3. Len(endpoint) <= Packet /\ out.end < Size
  BY <1>1, <1>2 DEF OutInv
<1>4. TypeOK'
  <2>1. endpoint \in Seq(Byte) /\ <<>> \in Seq(Byte)
    BY <1>2 DEF TypeOK
  <2> QED BY <1>1, <1>2, <1>3, <2>1 DEF TypeOK
<1>5. InputInv'
  BY <1>1, <1>2, InputFrame DEF Getting, InBegin
<1>6. /\ OutEnd' = OutEnd /\ OutCount' = OutCount /\ Putting = <<>>
      /\ Putting' = endpoint /\ Len(Putting) = 0
  BY <1>1 DEF OutCount, OutEnd, Putting
<1>7. PICK w, k, c, e : w = Wire(script) /\ k = Decoded /\ c = OutCount /\ e = Len(endpoint)
  OBVIOUS
<1>8. /\ k \in Nat /\ c \in 0 .. Size - 1 /\ e \in Nat /\ Len(todo) \in Nat
      /\ k + c + 0 + e + Len(todo) = Len(w)
      /\ out.begin \in 0 .. Size - 1
  BY <1>2, <1>6, <1>7, OutFacts
<1>9. Decoded' = k
  <2>1. PICK a, t, d : a = Len(w) /\ t = Len(todo) /\ d = Decoded'
    OBVIOUS
  <2>2. d = a - t - 0 - e - c
    <3>1. Len(endpoint') = 0 /\ Len(Putting') = e
      BY <1>1, <1>6, <1>7
    <3> QED BY <1>1, <1>6, <1>7, <2>1, <3>1, Zenon DEF Decoded
  <2>3. k + c + 0 + e + t = a /\ t \in Nat
    BY <1>8, <2>1
  <2>4. d = k
    BY <2>2, <2>3, <1>8
  <2> QED BY <2>1, <2>4
<1>10. OutInv'
  <2>1. out.end \in 0 .. Size - 1 /\ OutCount = Gap(out.begin, out.end)
    <3>1. out.end \in 0 .. Size - 1
      BY <1>2, <1>3, SizeFacts, Types
    <3> QED BY <1>1, <3>1, WrapFacts DEF OutCount, OutEnd
  <2>2. Size - 1 - c > Packet
    BY <1>1, <1>7, <1>8, <2>1, RemainderFacts DEF Room
  <2>3. c + e <= Size - 2
    BY <1>3, <1>7, <1>8, <2>2, SizeFacts
  <2>4. Len(endpoint') <= Packet
    BY <1>1, SizeFacts
  <2> QED BY <1>1, <1>2, <1>6, <1>7, <2>3, <2>4 DEF OutInv
<1>11. StreamInv'
  <2>1. Follows(endpoint, w, k + c)
    <3>1. Follows(endpoint, w, k + c + 0)
      BY <1>2, <1>6, <1>7 DEF StreamInv
    <3>2. k + c + 0 = k + c
      BY <1>8
    <3> QED BY <3>1, <3>2
  <2>2. Follows(<<>>, w, k + c + e)
    BY DEF Follows
  <2>3. k >= 0
    BY <1>8
  <2> QED BY <1>1, <1>2, <1>6, <1>7, <1>9, <2>1, <2>2, <2>3 DEF StreamInv
<1> QED BY <1>1, <1>2, <1>4, <1>5, <1>10, <1>11 DEF IInv, OutputInv

LEMMA PutIndexKeeps ==
  ASSUME IInv, ~overtaken, PutIndex
  PROVE  IInv'
<1>1. /\ buf # <<>> /\ pc = "put" /\ pc' = "store" /\ slot' = out.end
      /\ out' = [out EXCEPT !.end = @ + 1]
      /\ script' = script /\ todo' = todo /\ endpoint' = endpoint /\ state' = state
      /\ line' = line /\ overtaken' = overtaken /\ buf' = buf
      /\ UNCHANGED inVars /\ inp' = inp /\ burst' = burst
  BY DEF PutIndex, Goto, inVars
<1>2. script \in Scripts /\ TypeOK /\ OutInv /\ StreamInv /\ InputInv
  BY DEF IInv, OutputInv
<1>3. /\ out.begin \in 0 .. Size /\ out.end \in 0 .. Size /\ out.data \in [0 .. Size - 1 -> Byte]
      /\ out = [begin |-> out.begin, end |-> out.end, data |-> out.data] /\ inp \in Rings
  BY <1>2, Types
<1>4. out.end \in 0 .. Size - 1 /\ Size \in Nat
  BY <1>1, <1>2, <1>3, SizeFacts DEF OutInv
<1>5. out' = [begin |-> out.begin, end |-> out.end + 1, data |-> out.data]
  BY <1>1, <1>3
<1>6. out'.begin = out.begin /\ out'.end = out.end + 1 /\ out'.data = out.data
  BY <1>5
<1>7. TypeOK'
  <2>1. out' \in Rings
    BY <1>3, <1>4, <1>5 DEF Rings
  <2>2. \A ring \in {out', inp'} :
          ring \in [begin : 0 .. Size, end : 0 .. Size, data : [0 .. Size - 1 -> Byte]]
    BY <1>1, <1>3, <2>1 DEF Rings
  <2> QED BY <1>1, <1>2, <1>4, <2>2 DEF TypeOK
<1>8. InputInv'
  BY <1>1, <1>2, InputFrame DEF Getting, InBegin
<1>9. OutEnd' = OutEnd /\ Putting' = Putting
  BY <1>1, <1>4, <1>6, WrapFacts DEF OutEnd, Putting
<1>10. OutCount' = OutCount
  BY <1>6, <1>9 DEF OutCount
<1>11. Decoded' = Decoded
  BY <1>1, <1>9, <1>10 DEF Decoded
<1>12. OutInv'
  BY <1>1, <1>2, <1>4, <1>6, <1>10 DEF OutInv
<1>13. StreamInv'
  BY <1>1, <1>2, <1>6, <1>9, <1>10, <1>11 DEF StreamInv
<1> QED BY <1>1, <1>2, <1>7, <1>8, <1>12, <1>13 DEF IInv, OutputInv

LEMMA PutDataKeeps ==
  ASSUME IInv, ~overtaken, PutData
  PROVE  IInv'
<1>1. /\ pc = "store" /\ pc' = "wrap" /\ out' = [out EXCEPT !.data[slot] = Head(buf)]
      /\ buf' = Tail(buf) /\ slot' = slot
      /\ script' = script /\ todo' = todo /\ endpoint' = endpoint /\ state' = state
      /\ line' = line /\ overtaken' = overtaken
      /\ UNCHANGED inVars /\ inp' = inp /\ burst' = burst
  BY DEF PutData, Goto, inVars
<1>2. script \in Scripts /\ TypeOK /\ OutInv /\ StreamInv /\ InputInv
  BY DEF IInv, OutputInv
<1>3. /\ out.begin \in 0 .. Size /\ out.end \in 0 .. Size /\ out.data \in [0 .. Size - 1 -> Byte]
      /\ out = [begin |-> out.begin, end |-> out.end, data |-> out.data] /\ inp \in Rings
  BY <1>2, Types
<1>4. /\ out.end = slot + 1 /\ buf # <<>> /\ slot \in 0 .. Size - 1 /\ buf \in Seq(Byte)
      /\ OutCount + Len(buf) <= Size - 2
  BY <1>1, <1>2 DEF OutInv, TypeOK
<1> DEFINE new == [out.data EXCEPT ![slot] = Head(buf)]
<1>5. out' = [begin |-> out.begin, end |-> out.end, data |-> new]
  BY <1>1, <1>3
<1>6. out'.begin = out.begin /\ out'.end = out.end /\ out'.data = new
  BY <1>5
<1>7. /\ Head(buf) = buf[1] /\ buf[1] \in Byte /\ Tail(buf) \in Seq(Byte)
      /\ Len(Tail(buf)) = Len(buf) - 1 /\ Len(buf) \in Nat /\ Len(buf) >= 1
      /\ \A i \in 1 .. Len(buf) - 1 : Tail(buf)[i] = buf[i + 1]
  BY <1>4, HeadTailProperties
<1>8. new \in [0 .. Size - 1 -> Byte]
  BY <1>3, <1>4, <1>7
<1>9. TypeOK'
  <2> HIDE DEF new
  <2>1. out' \in Rings
    BY <1>3, <1>5, <1>8 DEF Rings
  <2>2. \A ring \in {out', inp'} :
          ring \in [begin : 0 .. Size, end : 0 .. Size, data : [0 .. Size - 1 -> Byte]]
    BY <1>1, <1>3, <2>1 DEF Rings
  <2>3. Len(Tail(buf)) <= Packet
    BY <1>2, <1>7, SizeFacts DEF TypeOK
  <2> QED BY <1>1, <1>2, <1>7, <2>2, <2>3 DEF TypeOK
<1>10. InputInv'
  BY <1>1, <1>2, InputFrame DEF Getting, InBegin
<1>11. PICK w, k, c, p : w = Wire(script) /\ k = Decoded /\ c = OutCount /\ p = Len(buf)
  OBVIOUS
<1>12. /\ k \in Nat /\ c \in 0 .. Size - 1 /\ p \in Nat /\ p >= 1
       /\ Len(endpoint) \in Nat /\ Len(todo) \in Nat
       /\ k + c + p + Len(endpoint) + Len(todo) = Len(w)
       /\ out.begin \in 0 .. Size - 1 /\ Putting = buf /\ Putting' = Tail(buf)
       /\ c + p <= Size - 2
  <2>1. Putting = buf /\ Putting' = Tail(buf)
    BY <1>1 DEF Putting
  <2> QED BY <1>2, <1>4, <1>7, <1>11, <2>1, OutFacts
<1>13. OutCount = Gap(out.begin, slot) /\ c # Size - 1 /\ Place(out.begin, c) = slot
  <2>1. OutCount = Gap(out.begin, slot)
    BY <1>1 DEF OutCount, OutEnd
  <2>2. c # Size - 1
    BY <1>12, SizeFacts
  <2> QED BY <2>1, <2>2, <1>4, <1>11, <1>12, GapFacts
<1>14. OutCount' = c + 1
  <2>1. OutCount' = Gap(out.begin, Wrap(slot + 1))
    BY <1>1, <1>4, <1>6 DEF OutCount, OutEnd
  <2> QED BY <2>1, <1>4, <1>11, <1>12, <1>13, GapFacts
<1>15. Decoded' = k
  <2>1. PICK a, t, e, d : /\ a = Len(w) /\ t = Len(todo) /\ e = Len(endpoint)
                          /\ d = Decoded'
    OBVIOUS
  <2>2. d = a - t - e - (p - 1) - (c + 1)
    <3>1. Len(Putting') = p - 1
      BY <1>7, <1>11, <1>12
    <3> QED BY <1>1, <1>11, <1>14, <2>1, <3>1, Zenon DEF Decoded
  <2>3. k + c + p + e + t = a /\ t \in Nat /\ e \in Nat
    BY <1>12, <2>1
  <2>4. d = k
    BY <2>2, <2>3, <1>12
  <2> QED BY <2>1, <2>4
<1>16. OutInv'
  <2>1. (c + 1) + Len(Tail(buf)) <= Size - 2
    BY <1>7, <1>11, <1>12, SizeFacts
  <2> QED BY <1>1, <1>2, <1>6, <1>14, <2>1 DEF OutInv
<1>17. StreamInv'
  <2>1. Holds(new, out.begin, c + 1, w, k)
    <3>1. Holds(out.data, out.begin, c, w, k)
      BY <1>2, <1>11 DEF StreamInv
    <3>2. Head(buf) = w[k + 1 + c]
      <4>1. buf[1] = w[k + c + 1]
        <5>1. Follows(buf, w, k + c) /\ 1 \in 1 .. Len(buf)
          BY <1>2, <1>7, <1>11, <1>12 DEF StreamInv
        <5> QED BY <5>1 DEF Follows
      <4>2. k + c + 1 = k + 1 + c
        BY <1>12
      <4> QED BY <4>1, <4>2, <1>7
    <3>3. PICK b : b = Head(buf)
      OBVIOUS
    <3>4. Holds([out.data EXCEPT ![Place(out.begin, c)] = b], out.begin, c + 1, w, k)
      BY <3>1, <3>2, <3>3, <1>3, <1>12, HoldsStore
    <3> QED BY <3>3, <3>4, <1>13
  <2>2. Follows(Tail(buf), w, k + (c + 1))
    <3>1. ASSUME NEW i \in 1 .. Len(Tail(buf)) PROVE Tail(buf)[i] = w[(k + (c + 1)) + i]
      <4>1. i \in 1 .. Len(buf) - 1 /\ i + 1 \in 1 .. Len(buf)
            /\ k + c + (i + 1) = (k + (c + 1)) + i
        <5>1. Len(buf) = p /\ Len(Tail(buf)) = p - 1
          BY <1>7, <1>11
        <5>2. k \in Nat /\ c \in Nat /\ p \in Nat /\ i \in 1 .. p - 1
          BY <5>1, <1>12, SizeFacts
        <5>3. i \in 1 .. p - 1 /\ i + 1 \in 1 .. p /\ k + c + (i + 1) = (k + (c + 1)) + i
          BY <5>2
        <5> QED BY <5>1, <5>3
      <4>2. buf[i + 1] = w[k + c + (i + 1)]
        <5>1. Follows(buf, w, k + c)
          BY <1>2, <1>7, <1>11, <1>12 DEF StreamInv
        <5>2. PICK j : j = i + 1 /\ j \in 1 .. Len(buf)
          BY <4>1
        <5>3. buf[j] = w[k + c + j]
          BY <5>1, <5>2 DEF Follows
        <5> QED BY <5>2, <5>3
      <4> QED BY <4>1, <4>2, <1>7
    <3> QED BY <3>1 DEF Follows
  <2>3. Follows(endpoint, w, k + (c + 1) + Len(Tail(buf)))
    <3>1. k + (c + 1) + Len(Tail(buf)) = k + c + p
      BY <1>7, <1>11, <1>12
    <3>2. Follows(endpoint, w, k + c + p)
      BY <1>2, <1>11, <1>12 DEF StreamInv
    <3> QED BY <3>1, <3>2
  <2>4. k >= 0
    BY <1>12
  <2> HIDE DEF new
  <2> QED BY <1>1, <1>2, <1>6, <1>11, <1>12, <1>14, <1>15, <2>1, <2>2, <2>3, <2>4
      DEF StreamInv
<1> QED BY <1>1, <1>2, <1>9, <1>10, <1>16, <1>17 DEF IInv, OutputInv

LEMMA PutWrapKeeps ==
  ASSUME IInv, ~overtaken, PutWrap
  PROVE  IInv'
<1>1. /\ pc = "wrap" /\ pc' = "put" /\ out' = [out EXCEPT !.end = @ % Size]
      /\ buf' = buf /\ slot' = slot
      /\ script' = script /\ todo' = todo /\ endpoint' = endpoint /\ state' = state
      /\ line' = line /\ overtaken' = overtaken
      /\ UNCHANGED inVars /\ inp' = inp /\ burst' = burst
  BY DEF PutWrap, Goto, inVars
<1>2. script \in Scripts /\ TypeOK /\ OutInv /\ StreamInv /\ InputInv
  BY DEF IInv, OutputInv
<1>3. /\ out.begin \in 0 .. Size /\ out.end \in 0 .. Size /\ out.data \in [0 .. Size - 1 -> Byte]
      /\ out = [begin |-> out.begin, end |-> out.end, data |-> out.data] /\ inp \in Rings
  BY <1>2, Types
<1>4. /\ out.end % Size = Wrap(out.end) /\ Wrap(out.end) \in 0 .. Size - 1
      /\ Wrap(Wrap(out.end)) = Wrap(out.end)
  <2>1. out.end % Size = Wrap(out.end) /\ Wrap(out.end) \in 0 .. Size - 1
    BY <1>3, WrapFacts
  <2> QED BY <2>1, WrapFacts
<1>5. out' = [begin |-> out.begin, end |-> Wrap(out.end), data |-> out.data]
  BY <1>1, <1>3, <1>4
<1>6. out'.begin = out.begin /\ out'.end = Wrap(out.end) /\ out'.data = out.data
  BY <1>5
<1>7. TypeOK'
  <2>1. out' \in Rings
    BY <1>3, <1>4, <1>5, SizeFacts DEF Rings
  <2>2. \A ring \in {out', inp'} :
          ring \in [begin : 0 .. Size, end : 0 .. Size, data : [0 .. Size - 1 -> Byte]]
    BY <1>1, <1>3, <2>1 DEF Rings
  <2> QED BY <1>1, <1>2, <2>2 DEF TypeOK
<1>8. InputInv'
  BY <1>1, <1>2, InputFrame DEF Getting, InBegin
<1>9. OutEnd' = OutEnd /\ Putting' = Putting
  BY <1>1, <1>4, <1>6 DEF OutEnd, Putting
<1>10. OutCount' = OutCount
  BY <1>6, <1>9 DEF OutCount
<1>11. Decoded' = Decoded
  BY <1>1, <1>9, <1>10 DEF Decoded
<1>12. OutInv'
  BY <1>1, <1>2, <1>4, <1>6, <1>10, SizeFacts DEF OutInv
<1>13. StreamInv'
  BY <1>1, <1>2, <1>6, <1>9, <1>10, <1>11 DEF StreamInv
<1> QED BY <1>1, <1>2, <1>7, <1>8, <1>12, <1>13 DEF IInv, OutputInv

(* output_ring does not get full on the way: all of the packet is put.      *)
LEMMA RoomLeft ==
  ASSUME script \in Scripts, TypeOK, OutInv, StreamInv, pc = "put"
  PROVE  ~Full(out)
<1>1. out.begin \in 0 .. Size - 1 /\ OutCount \in 0 .. Size - 1
  BY OutFacts
<1>2. out.end \in 0 .. Size - 1 /\ OutCount = Gap(out.begin, out.end)
  <2>1. out.end \in 0 .. Size - 1
    BY SizeFacts, Types DEF OutInv
  <2> QED BY <2>1, WrapFacts DEF OutCount, OutEnd
<1>3. OutCount + Len(buf) <= Size - 2 /\ Len(buf) \in Nat
  BY DEF OutInv, TypeOK
<1>4. Gap(out.begin, out.end) # Size - 1
  BY <1>1, <1>2, <1>3, SizeFacts
<1> QED BY <1>1, <1>2, <1>4, RemainderFacts DEF Full

LEMMA EnableKeeps ==
  ASSUME IInv, ~overtaken, Enable
  PROVE  IInv'
<1>1. /\ buf = <<>> \/ Full(out)
      /\ pc = "put" /\ pc' = "poll" /\ out' = out /\ buf' = <<>> /\ slot' = slot
      /\ script' = script /\ todo' = todo /\ endpoint' = endpoint /\ state' = state
      /\ line' = line /\ overtaken' = overtaken
      /\ UNCHANGED inVars /\ inp' = inp /\ burst' = burst
  BY DEF Enable, Goto, inVars
<1>2. script \in Scripts /\ TypeOK /\ OutInv /\ StreamInv /\ InputInv
  BY DEF IInv, OutputInv
<1>3. buf = <<>>
  BY <1>1, <1>2, RoomLeft
<1>4. TypeOK'
  BY <1>1, <1>2, <1>3 DEF TypeOK
<1>5. InputInv'
  BY <1>1, <1>2, InputFrame DEF Getting, InBegin
<1>6. OutEnd' = OutEnd /\ Putting' = Putting
  BY <1>1, <1>3 DEF OutEnd, Putting
<1>7. OutCount' = OutCount
  BY <1>1, <1>6 DEF OutCount
<1>8. Decoded' = Decoded
  BY <1>1, <1>6, <1>7 DEF Decoded
<1>9. OutInv' /\ StreamInv'
  BY <1>1, <1>2, <1>6, <1>7, <1>8 DEF OutInv, StreamInv
<1> QED BY <1>1, <1>2, <1>4, <1>5, <1>9 DEF IInv, OutputInv

-----------------------------------------------------------------------------
(* The steps on the way from the serial port. *)

(* ring_write_ch into input_ring, which has room.                           *)
LEMMA WriteFacts ==
  ASSUME NEW ring \in Rings, NEW from \in 0 .. Size - 1,
         NEW n \in 0 .. Size - 2, n = Gap(from, ring.end), ring.end < Size,
         \/ ring.begin = from
         \/ ring.begin = Size /\ from = 0
         \/ ring.begin = from + 1 /\ n > 0,
         NEW b \in Byte, NEW whole, NEW k \in Nat,
         Holds(ring.data, from, n, whole, k), b = whole[k + 1 + n]
  PROVE  /\ Write(ring, b) \in Rings
         /\ Write(ring, b).begin = ring.begin /\ Write(ring, b).end < Size
         /\ Gap(from, Write(ring, b).end) = n + 1
         /\ Holds(Write(ring, b).data, from, n + 1, whole, k)
<1>1. /\ ring.begin \in 0 .. Size /\ ring.end \in 0 .. Size - 1 /\ Size \in Nat /\ Size >= 2
      /\ ring.data \in [0 .. Size - 1 -> Byte]
      /\ ring = [begin |-> ring.begin, end |-> ring.end, data |-> ring.data]
  BY SizeFacts DEF Rings
<1>2. (ring.end + 1) % Size = Wrap(ring.end + 1) /\ Wrap(ring.end + 1) \in 0 .. Size - 1
  <2>1. ring.end + 1 \in 0 .. Size
    BY <1>1
  <2> QED BY <2>1, WrapFacts
<1>3. ~Full(ring)
  <2>1. CASE ring.begin = from
    <3>1. Gap(from, ring.end) # Size - 1
      BY <1>1
    <3> QED BY <3>1, <2>1, <1>1, RemainderFacts DEF Full
  <2>2. CASE ring.begin = Size /\ from = 0
    BY <2>2, <1>1, <1>2 DEF Full
  <2>3. CASE ring.begin = from + 1 /\ n > 0
    <3>1. ring.end # from
      BY <2>3, <1>1 DEF Gap
    <3> QED BY <3>1, <2>3, <1>1, <1>2 DEF Full, Wrap
  <2> QED BY <2>1, <2>2, <2>3
<1>4. Write(ring, b) = [begin |-> ring.begin, end |-> Wrap(ring.end + 1),
                        data |-> [ring.data EXCEPT ![ring.end] = b]]
  BY <1>1, <1>2, <1>3 DEF Write
<1>5. /\ Gap(from, Wrap(ring.end + 1)) = n + 1
      /\ Place(from, n) = ring.end
  BY <1>1, GapFacts
<1>6. Holds([ring.data EXCEPT ![ring.end] = b], from, n + 1, whole, k)
  <2>1. Holds([ring.data EXCEPT ![Place(from, n)] = b], from, n + 1, whole, k)
    BY <1>1, HoldsStore
  <2> QED BY <2>1, <1>5
<1>7. [ring.data EXCEPT ![ring.end] = b] \in [0 .. Size - 1 -> Byte]
  BY <1>1
<1>8. Write(ring, b) \in Rings
  <2>1. PICK d : d = [ring.data EXCEPT ![ring.end] = b]
    OBVIOUS
  <2>2. d \in [0 .. Size - 1 -> Byte] /\ Wrap(ring.end + 1) \in 0 .. Size
    BY <1>1, <1>2, <1>7, <2>1
  <2>3. [begin |-> ring.begin, end |-> Wrap(ring.end + 1), data |-> d] \in Rings
    BY <1>1, <2>2 DEF Rings
  <2> QED BY <1>4, <2>1, <2>3
<1> QED BY <1>1, <1>2, <1>4, <1>5, <1>6, <1>8

(* A byte goes into input_ring as the host is to see it, IAC twice.         *)
Takes(new, ring, from, n, whole, k) ==
  /\ new \in Rings /\ new.begin = ring.begin /\ new.end < Size
  /\ Gap(from, new.end) = n
  /\ Holds(new.data, from, n, whole, k)

LEMMA WriteDoubled ==
  ASSUME NEW ring \in Rings, NEW from \in 0 .. Size - 1,
         NEW n \in 0 .. Size - 3, n = Gap(from, ring.end), ring.end < Size,
         \/ ring.begin = from
         \/ ring.begin = Size /\ from = 0
         \/ ring.begin = from + 1 /\ n > 0,
         NEW b \in Byte, NEW whole, NEW k \in Nat, NEW d, d = Doubled(b),
         Holds(ring.data, from, n, whole, k),
         \A i \in 1 .. Len(d) : whole[k + n + i] = d[i],
         NEW new, new = IF b = IAC THEN Write(Write(ring, b), b) ELSE Write(ring, b)
  PROVE  Takes(new, ring, from, n + Len(d), whole, k)
<1> USE DEF Takes
<1> DEFINE one == Write(ring, b)
<1>1. d[1] = b /\ Len(d) = (IF b = IAC THEN 2 ELSE 1) /\ (b = IAC => d[2] = b)
  BY DEF Doubled
<1>2. Size \in Nat /\ Size > 2 /\ n \in 0 .. Size - 2 /\ n \in Nat
  BY SizeFacts
<1>3. b = whole[k + 1 + n]
  <2>1. 1 \in 1 .. Len(d) /\ k + n + 1 = k + 1 + n
    BY <1>1, <1>2
  <2> QED BY <2>1, <1>1
<1>4. /\ one \in Rings /\ one.begin = ring.begin /\ one.end < Size
      /\ Gap(from, one.end) = n + 1
      /\ Holds(one.data, from, n + 1, whole, k)
  BY <1>2, <1>3, WriteFacts
<1>5. CASE b # IAC
  BY <1>1, <1>4, <1>5
<1>6. CASE b = IAC
  <2> HIDE DEF one
  <2>1. b = whole[k + 1 + (n + 1)]
    <3>1. 2 \in 1 .. Len(d) /\ k + n + 2 = k + 1 + (n + 1)
      BY <1>1, <1>2, <1>6
    <3> QED BY <3>1, <1>1, <1>6
  <2>2. PICK m : m = n + 1
    OBVIOUS
  <2>3. m \in 0 .. Size - 2 /\ m > 0 /\ m + 1 = n + 2
    BY <1>2, <2>2
  <2>4. \/ one.begin = from
        \/ one.begin = Size /\ from = 0
        \/ one.begin = from + 1 /\ m > 0
    BY <1>4, <2>3
  <2>5. m = Gap(from, one.end) /\ Holds(one.data, from, m, whole, k) /\ b = whole[k + 1 + m]
    BY <1>4, <2>1, <2>2
  <2>6. /\ Write(one, b) \in Rings /\ Write(one, b).begin = one.begin
        /\ Write(one, b).end < Size /\ Gap(from, Write(one, b).end) = m + 1
        /\ Holds(Write(one, b).data, from, m + 1, whole, k)
    BY <1>4, <2>3, <2>4, <2>5, WriteFacts
  <2>7. new = Write(one, b) /\ m + 1 = n + Len(d)
    BY <1>1, <1>6, <2>3 DEF one
  <2> QED BY <1>4, <2>6, <2>7
<1> QED BY <1>5, <1>6

(* A byte that arrives: Doubled into the ring, which has room.              *)
LEMMA RxIrqKeeps ==
  ASSUME IInv, ~overtaken, NEW b \in LineBytes, RxIrq(b)
  PROVE  IInv'
<1>1. /\ burst < MaxBurst /\ arrived' = Append(arrived, b) /\ burst' = burst + 1
      /\ inp' = IF b = IAC THEN Write(Write(inp, b), b) ELSE Write(inp, b)
      /\ UNCHANGED outVars /\ pc' = pc /\ buf' = buf /\ slot' = slot
      /\ moved' = moved /\ host' = host
  BY DEF RxIrq, main
<1>2. /\ script' = script /\ todo' = todo /\ endpoint' = endpoint /\ out' = out
      /\ state' = state
  BY <1>1 DEF outVars
<1>3. script \in Scripts /\ TypeOK /\ OutputInv /\ InInv /\ ArrivedInv /\ HostInv
  BY DEF IInv, InputInv
<1>4. b \in Byte
  BY SerPlusAssumption
<1>5. PICK w, k, n, from, g, lm, lg, la, lw :
        /\ w = Wrapped(arrived) /\ lw = Len(w) /\ k = lm + lg
        /\ n = InCount /\ from = InBegin /\ g = Getting
        /\ lm = Len(moved) /\ lg = Len(g) /\ la = Len(arrived)
  OBVIOUS
<1>6. /\ from \in 0 .. Size - 1 /\ inp.end \in 0 .. Size - 1
      /\ g \in Seq(Byte) /\ w \in Seq(Byte) /\ moved \in Seq(Byte)
      /\ arrived \in Seq(Byte)
  BY <1>3, <1>5, InFacts DEF ArrivedInv
<1>7. /\ n \in 0 .. Size - 1 /\ lm \in Nat /\ lg \in Nat /\ la \in Nat /\ lw \in Nat
      /\ burst \in 0 .. MaxBurst /\ burst < MaxBurst /\ burst <= la
      /\ lg + n <= 2 * burst /\ lm + lg + n = lw /\ k = lm + lg
  <2>1. /\ n \in 0 .. Size - 1 /\ lm \in Nat /\ lg \in Nat /\ la \in Nat /\ lw \in Nat
        /\ burst \in 0 .. MaxBurst
    BY <1>3, <1>5, InFacts
  <2>2. burst <= la /\ lm + lg + n = lw
    BY <1>3, <1>5 DEF ArrivedInv
  <2>3. lg + n <= 2 * burst
    BY <1>3, <1>5 DEF InInv
  <2> QED BY <2>1, <2>2, <2>3, <1>1, <1>5
<1>8. /\ n \in 0 .. Size - 3 /\ k \in Nat /\ k + n = lw
      /\ burst + 1 \in 0 .. MaxBurst /\ burst + 1 <= la + 1
      /\ la - burst \in Nat /\ (la + 1) - (burst + 1) = la - burst
  BY <1>7, SizeFacts
<1>9. n = Gap(from, inp.end)
  BY <1>5 DEF InCount
<1>10. /\ inp \in Rings
       /\ \/ inp.begin = from
          \/ inp.begin = Size /\ from = 0
          \/ inp.begin = from + 1 /\ n > 0
  <2>1. inp \in Rings /\ inp.begin \in 0 .. Size
    BY <1>3, Types
  <2>2. CASE pc = "load"
    BY <2>1, <2>2, <1>3, <1>5 DEF InInv, InBegin
  <2>3. CASE pc # "load"
    BY <2>1, <2>3, <1>5 DEF InBegin, Wrap
  <2> QED BY <2>1, <2>2, <2>3
<1>11. PICK more, d, ld : more = Wrapped(arrived') /\ d = Doubled(b) /\ ld = Len(d)
  OBVIOUS
<1>12. /\ arrived' \in Seq(Byte) /\ Len(arrived') = la + 1
       /\ \A i \in 1 .. la : arrived'[i] = arrived[i]
  BY <1>1, <1>4, <1>5, <1>6
<1>13. /\ d \in Seq(Byte) /\ ld \in 1 .. 2 /\ more \in Seq(Byte)
       /\ Len(more) = lw + ld
       /\ \A i \in 1 .. lw : more[i] = w[i]
       /\ \A i \in 1 .. ld : more[lw + i] = d[i]
  <2>1. d \in Seq(Byte) /\ ld \in 1 .. 2
    BY <1>4, <1>11, DoubledType
  <2>2. more = w \o d
    BY <1>1, <1>4, <1>5, <1>6, <1>11, WrappedMore
  <2>3. Len(w) = lw /\ Len(d) = ld
    BY <1>5, <1>11
  <2>4. /\ w \o d \in Seq(Byte) /\ Len(w \o d) = lw + ld
        /\ \A i \in 1 .. lw + ld : (w \o d)[i] = IF i <= lw THEN w[i] ELSE d[i - lw]
    BY <2>1, <2>3, <1>6, ConcatProperties
  <2>5. ASSUME NEW i \in 1 .. lw PROVE more[i] = w[i]
    <3>1. i \in 1 .. lw + ld /\ i <= lw
      BY <2>1, <1>7
    <3> QED BY <3>1, <2>2, <2>4
  <2>6. ASSUME NEW i \in 1 .. ld PROVE more[lw + i] = d[i]
    <3>1. PICK c : c = lw + i /\ c \in 1 .. lw + ld /\ ~(c <= lw) /\ c - lw = i
      BY <2>1, <1>7
    <3>2. more[c] = d[c - lw]
      BY <3>1, <2>2, <2>4
    <3> QED BY <3>1, <3>2
  <2> QED BY <2>1, <2>2, <2>4, <2>5, <2>6
<1>14. /\ Holds(inp.data, from, n, more, k) /\ Follows(g, more, lm)
  <2>1. Holds(inp.data, from, n, w, k) /\ Follows(g, w, lm)
    BY <1>3, <1>5 DEF ArrivedInv
  <2>2. ASSUME NEW j \in 0 .. n - 1 PROVE inp.data[Place(from, j)] = more[k + 1 + j]
    <3>1. k + 1 + j \in 1 .. lw
      BY <1>8
    <3>2. inp.data[Place(from, j)] = w[k + 1 + j]
      BY <2>1 DEF Holds
    <3> QED BY <3>1, <3>2, <1>13
  <2>3. ASSUME NEW i \in 1 .. lg PROVE g[i] = more[lm + i]
    <3>1. lm + i \in 1 .. lw
      BY <1>7
    <3>2. g[i] = w[lm + i]
      BY <2>1, <1>5 DEF Follows
    <3> QED BY <3>1, <3>2, <1>13
  <2> QED BY <2>2, <2>3, <1>5 DEF Holds, Follows
<1>15. /\ inp' \in Rings /\ inp'.begin = inp.begin /\ inp'.end < Size
       /\ Gap(from, inp'.end) = n + ld
       /\ Holds(inp'.data, from, n + ld, more, k)
  <2>1. inp.end < Size
    BY <1>6, SizeFacts
  <2>2. \A i \in 1 .. Len(d) : more[k + n + i] = d[i]
    BY <1>8, <1>11, <1>13
  <2>3. PICK new : new = inp'
    OBVIOUS
  <2>4. new = IF b = IAC THEN Write(Write(inp, b), b) ELSE Write(inp, b)
    BY <2>3, <1>1
  <2>5. from \in 0 .. Size - 1 /\ n \in 0 .. Size - 3 /\ k \in Nat /\ d = Doubled(b)
    BY <1>6, <1>8, <1>11
  <2>6. inp \in Rings /\ Holds(inp.data, from, n, more, k)
    BY <1>10, <1>14
  <2>7. \/ inp.begin = from
        \/ inp.begin = Size /\ from = 0
        \/ inp.begin = from + 1 /\ n > 0
    BY <1>10
  <2>8. Takes(new, inp, from, n + Len(d), more, k)
    BY <2>1, <2>2, <2>4, <2>5, <2>6, <2>7, <1>4, <1>9, WriteDoubled
  <2> QED BY <2>3, <2>8, <1>11 DEF Takes
<1>16. InBegin' = from /\ InCount' = n + ld /\ Getting' = g
  <2>1. InBegin' = from /\ Getting' = g
    BY <1>1, <1>5, <1>15 DEF InBegin, Getting
  <2> QED BY <2>1, <1>15 DEF InCount
<1>17. TypeOK'
  <2>1. \A ring \in {out', inp'} :
          ring \in [begin : 0 .. Size, end : 0 .. Size, data : [0 .. Size - 1 -> Byte]]
    <3>1. out' \in Rings
      BY <1>2, <1>3, Types
    <3> QED BY <3>1, <1>15 DEF Rings
  <2>2. burst' \in 0 .. MaxBurst
    BY <1>1, <1>8
  <2> QED BY <1>1, <1>2, <1>3, <2>1, <2>2 DEF TypeOK
<1>18. OutputInv'
  <2>1. OutEnd' = OutEnd /\ Putting' = Putting
    BY <1>1, <1>2 DEF OutEnd, Putting
  <2>2. OutputInv /\ UNCHANGED outVars /\ UNCHANGED main
    BY <1>1, <1>3 DEF main
  <2> QED BY <2>1, <2>2, OutputFrame
<1>19. InInv'
  <2>1. lg + (n + ld) <= 2 * (burst + 1) /\ n + ld > 0
    <3>1. n \in Nat /\ lg \in Nat /\ burst \in Nat /\ lg + n <= 2 * burst
      BY <1>7, SizeFacts
    <3>2. ld \in 1 .. 2
      BY <1>13
    <3> QED BY <3>1, <3>2
  <2>2. Len(Getting') + InCount' <= 2 * burst'
    BY <2>1, <1>1, <1>5, <1>16
  <2>3. pc' = "load" => inp'.begin = slot' + 1 /\ InCount' > 0
    BY <2>1, <1>1, <1>3, <1>15, <1>16 DEF InInv
  <2>4. pc' \notin {"load", "unwrap"} => inp'.begin < Size
    BY <1>1, <1>3, <1>15 DEF InInv
  <2> QED BY <2>2, <2>3, <2>4, <1>15 DEF InInv
<1>20. Len(arrived') - burst' = la - burst
  BY <1>1, <1>8, <1>12
<1>21. ArrivedInv'
  <2>1. burst' <= Len(arrived')
    BY <1>1, <1>8, <1>12
  <2>2. PICK c : c = la - burst /\ c \in Nat /\ c <= la /\ c <= la + 1
    BY <1>7, <1>8
  <2>3. SubSeq(arrived', 1, c) = SubSeq(arrived, 1, c)
    <3>1. \A i \in 1 .. c : arrived'[i] = arrived[i]
      BY <2>2, <1>7, <1>12
    <3> QED BY <3>1, <2>2, <1>5, <1>6, <1>7, <1>12
  <2>4. moved' = Wrapped(SubSeq(arrived', 1, Len(arrived') - burst'))
    <3>1. moved = Wrapped(SubSeq(arrived, 1, c))
      BY <2>2, <1>3, <1>5 DEF ArrivedInv
    <3> QED BY <3>1, <2>2, <2>3, <1>1, <1>20
  <2>5. lm + lg + (n + ld) = lw + ld
    <3>1. n \in Nat /\ lg \in Nat /\ lm \in Nat /\ lm + lg + n = lw
      BY <1>7, SizeFacts
    <3>2. ld \in 1 .. 2
      BY <1>13
    <3> QED BY <3>1, <3>2
  <2>6. Len(moved') = lm /\ Len(Getting') = lg
    BY <1>1, <1>5, <1>16
  <2>7. Len(moved') + Len(Getting') + InCount' = Len(Wrapped(arrived'))
    BY <2>5, <2>6, <1>11, <1>13, <1>16
  <2>8. Follows(Getting', Wrapped(arrived'), Len(moved'))
    BY <2>6, <1>11, <1>14, <1>16
  <2>9. Holds(inp'.data, InBegin', InCount', Wrapped(arrived'), Len(moved') + Len(Getting'))
    BY <2>6, <1>5, <1>11, <1>15, <1>16
  <2> QED BY <1>12, <2>1, <2>4, <2>7, <2>8, <2>9 DEF ArrivedInv
<1>22. HostInv'
  <2>1. PICK at \in [DOMAIN host.got -> 1 .. la - burst] :
          \A i \in DOMAIN host.got :
            /\ host.got[i] = arrived[at[i]]
            /\ i > 1 => at[i] > at[i - 1]
    BY <1>3, <1>5 DEF HostInv
  <2>2. ASSUME NEW i \in DOMAIN host.got PROVE arrived'[at[i]] = arrived[at[i]]
    <3>1. at[i] \in 1 .. la - burst
      OBVIOUS
    <3>2. at[i] \in 1 .. la
      BY <3>1, <1>7
    <3> QED BY <3>2, <1>12
  <2>3. /\ at \in [DOMAIN host'.got -> 1 .. Len(arrived') - burst']
        /\ \A i \in DOMAIN host'.got :
             /\ host'.got[i] = arrived'[at[i]]
             /\ i > 1 => at[i] > at[i - 1]
    BY <1>1, <1>20, <2>1, <2>2
  <2>4. host' \in [state : {0}, got : Seq(Byte)]
    BY <1>1, <1>3 DEF HostInv
  <2> QED BY <2>3, <2>4 DEF HostInv
<1> QED BY <1>2, <1>3, <1>17, <1>18, <1>19, <1>21, <1>22 DEF IInv, InputInv

LEMMA ReadInputKeeps ==
  ASSUME IInv, ~overtaken, ReadInput
  PROVE  IInv'
<1>1. /\ pc = "poll" /\ pc' = "get" /\ buf' = buf /\ slot' = slot
      /\ UNCHANGED inVars /\ UNCHANGED outVars
      /\ inp' = inp /\ burst' = burst /\ script' = script /\ todo' = todo
      /\ endpoint' = endpoint /\ out' = out /\ state' = state
  BY DEF ReadInput, Goto, inVars, outVars
<1>2. script \in Scripts /\ TypeOK /\ OutputInv /\ InputInv /\ OutInv
  BY DEF IInv, OutputInv
<1>3. buf = <<>>
  BY <1>1, <1>2 DEF OutInv
<1>4. TypeOK'
  BY <1>1, <1>2 DEF TypeOK
<1>5. Getting' = Getting /\ InBegin' = InBegin
  BY <1>1, <1>3 DEF Getting, InBegin
<1>6. InputInv'
  BY <1>1, <1>2, <1>5, InputFrame
<1>7. OutEnd' = OutEnd /\ Putting' = Putting
  BY <1>1 DEF OutEnd, Putting
<1>8. OutputInv'
  BY <1>1, <1>2, <1>7, OutputFrame
<1> QED BY <1>1, <1>2, <1>4, <1>6, <1>8 DEF IInv

LEMMA GetIndexKeeps ==
  ASSUME IInv, ~overtaken, GetIndex
  PROVE  IInv'
<1>1. /\ ~Empty(inp) /\ pc = "get" /\ pc' = "load" /\ slot' = inp.begin
      /\ inp' = [inp EXCEPT !.begin = @ + 1]
      /\ UNCHANGED outVars /\ buf' = buf
      /\ arrived' = arrived /\ burst' = burst /\ moved' = moved /\ host' = host
      /\ script' = script /\ todo' = todo /\ endpoint' = endpoint /\ out' = out
      /\ state' = state
  BY DEF GetIndex, Goto, outVars
<1>2. script \in Scripts /\ TypeOK /\ OutputInv /\ InInv /\ ArrivedInv /\ HostInv
  BY DEF IInv, InputInv
<1>3. /\ inp.begin \in 0 .. Size /\ inp.end \in 0 .. Size
      /\ inp.data \in [0 .. Size - 1 -> Byte]
      /\ inp = [begin |-> inp.begin, end |-> inp.end, data |-> inp.data] /\ out \in Rings
  BY <1>2, Types
<1>4. inp.begin \in 0 .. Size - 1 /\ inp.end \in 0 .. Size - 1
  <2>1. inp.begin < Size /\ inp.end < Size
    BY <1>1, <1>2 DEF InInv
  <2> QED BY <2>1, <1>3, SizeFacts
<1>5. inp' = [begin |-> inp.begin + 1, end |-> inp.end, data |-> inp.data]
  BY <1>1, <1>3
<1>6. inp'.begin = inp.begin + 1 /\ inp'.end = inp.end /\ inp'.data = inp.data
  BY <1>5
<1>7. TypeOK'
  <2>1. inp.begin + 1 \in 0 .. Size
    BY <1>4, SizeFacts
  <2>2. inp' \in Rings
    BY <2>1, <1>3, <1>5 DEF Rings
  <2>3. \A ring \in {out', inp'} :
          ring \in [begin : 0 .. Size, end : 0 .. Size, data : [0 .. Size - 1 -> Byte]]
    BY <2>2, <1>1, <1>3 DEF Rings
  <2> QED BY <1>1, <1>2, <1>4, <2>3 DEF TypeOK
<1>8. InBegin' = InBegin /\ Getting' = Getting
  <2>1. Wrap(inp.begin) = inp.begin
    BY <1>4, WrapFacts
  <2> QED BY <2>1, <1>1 DEF InBegin, Getting
<1>9. InCount' = InCount /\ InCount > 0
  <2>1. InCount' = InCount
    BY <1>6, <1>8 DEF InCount
  <2>2. InBegin = inp.begin
    BY <1>1, <1>4, WrapFacts DEF InBegin
  <2>3. InCount # 0
    BY <2>2, <1>1, <1>4, GapFacts DEF InCount, Empty
  <2>4. InCount \in 0 .. Size - 1
    BY <1>2, InFacts
  <2> QED BY <2>1, <2>3, <2>4
<1>10. InInv'
  <2>1. Len(Getting') + InCount' <= 2 * burst'
    BY <1>1, <1>2, <1>8, <1>9 DEF InInv
  <2>2. inp'.end < Size /\ inp'.begin = slot' + 1 /\ InCount' > 0
    BY <1>1, <1>2, <1>6, <1>9 DEF InInv
  <2> QED BY <2>1, <2>2, <1>1 DEF InInv
<1>11. ArrivedInv'
  BY <1>1, <1>2, <1>6, <1>8, <1>9 DEF ArrivedInv
<1>12. HostInv'
  BY <1>1, <1>2 DEF HostInv
<1>13. OutEnd' = OutEnd /\ Putting' = Putting
  BY <1>1 DEF OutEnd, Putting
<1>14. OutputInv'
  BY <1>1, <1>2, <1>13, OutputFrame
<1> QED BY <1>1, <1>2, <1>7, <1>10, <1>11, <1>12, <1>14 DEF IInv, InputInv

LEMMA GetDataKeeps ==
  ASSUME IInv, ~overtaken, GetData
  PROVE  IInv'
<1>1. /\ pc = "load" /\ pc' = "unwrap" /\ buf' = Append(buf, inp.data[slot])
      /\ UNCHANGED outVars /\ slot' = slot /\ inp' = inp
      /\ arrived' = arrived /\ burst' = burst /\ moved' = moved /\ host' = host
      /\ script' = script /\ todo' = todo /\ endpoint' = endpoint /\ out' = out
      /\ state' = state
  BY DEF GetData, Goto, outVars, inVars
<1>2. script \in Scripts /\ TypeOK /\ OutputInv /\ InInv /\ ArrivedInv /\ HostInv
  BY DEF IInv, InputInv
<1>3. PICK w, n, from, lm, lg, b :
        /\ w = Wrapped(arrived) /\ n = InCount /\ from = InBegin
        /\ lm = Len(moved) /\ lg = Len(buf) /\ b = inp.data[slot]
  OBVIOUS
<1>4. /\ from = slot /\ Getting = buf /\ inp.begin = slot + 1 /\ n > 0
      /\ slot \in 0 .. Size - 1 /\ buf \in Seq(Byte) /\ b \in Byte
  <2>1. from = slot /\ Getting = buf /\ inp.begin = slot + 1 /\ n > 0
    BY <1>1, <1>2, <1>3 DEF InBegin, Getting, InInv
  <2>2. slot \in 0 .. Size - 1 /\ buf \in Seq(Byte)
    BY <1>2 DEF TypeOK
  <2>3. inp.data \in [0 .. Size - 1 -> Byte]
    BY <1>2, Types
  <2> QED BY <2>1, <2>2, <2>3, <1>3
<1>5. /\ n \in 1 .. Size - 1 /\ inp.end \in 0 .. Size - 1 /\ lm \in Nat /\ lg \in Nat
      /\ lg + n < Packet /\ burst \in 0 .. MaxBurst
      /\ lg + n <= 2 * burst /\ lm + lg + n = Len(w) /\ lm + lg \in Nat
  <2>1. /\ n \in 0 .. Size - 1 /\ inp.end \in 0 .. Size - 1 /\ lm \in Nat /\ lg \in Nat
        /\ lg + n < Packet /\ burst \in 0 .. MaxBurst
    BY <1>2, <1>3, <1>4, InFacts
  <2>2. lg + n <= 2 * burst
    BY <1>2, <1>3, <1>4 DEF InInv
  <2>3. lm + lg + n = Len(w)
    BY <1>2, <1>3, <1>4 DEF ArrivedInv
  <2> QED BY <2>1, <2>2, <2>3, <1>4
<1>6. /\ n - 1 \in 0 .. Size - 1 /\ (lg + 1) + (n - 1) = lg + n
      /\ lm + (lg + 1) + (n - 1) = lm + lg + n /\ lg + 1 <= Packet
      /\ lm + (lg + 1) = (lm + lg) + 1
  BY <1>5, SizeFacts
<1>7. /\ buf' \in Seq(Byte) /\ Len(buf') = lg + 1 /\ buf'[lg + 1] = b
      /\ \A i \in 1 .. lg : buf'[i] = buf[i]
  BY <1>1, <1>3, <1>4
<1>8. TypeOK'
  <2>1. Len(buf') <= Packet
    BY <1>6, <1>7
  <2> QED BY <1>1, <1>2, <1>7, <2>1 DEF TypeOK
<1>9. InBegin' = Wrap(from + 1) /\ InCount' = n - 1 /\ Getting' = buf'
  <2>1. InBegin' = Wrap(from + 1) /\ Getting' = buf'
    BY <1>1, <1>4 DEF InBegin, Getting
  <2>2. n = Gap(from, inp.end)
    BY <1>3 DEF InCount
  <2>3. Gap(Wrap(from + 1), inp.end) = n - 1
    <3>1. from \in 0 .. Size - 1 /\ inp.end \in 0 .. Size - 1 /\ Gap(from, inp.end) # 0
      BY <2>2, <1>4, <1>5
    <3>2. Gap(Wrap(from + 1), inp.end) = Gap(from, inp.end) - 1
      BY <3>1, GapFacts
    <3> QED BY <3>2, <2>2
  <2> QED BY <2>1, <2>3, <1>1 DEF InCount
<1>10. /\ b = w[lm + lg + 1]
       /\ Holds(inp.data, Wrap(from + 1), n - 1, w, lm + (lg + 1))
  <2>1. Holds(inp.data, from, n, w, lm + lg)
    BY <1>2, <1>3, <1>4 DEF ArrivedInv
  <2>2. /\ inp.data[from] = w[(lm + lg) + 1]
        /\ Holds(inp.data, Wrap(from + 1), n - 1, w, (lm + lg) + 1)
    BY <2>1, <1>4, <1>5, HoldsTake
  <2> QED BY <2>2, <1>3, <1>4, <1>6
<1>11. Follows(buf', w, lm)
  <2>1. Follows(buf, w, lm)
    BY <1>2, <1>3, <1>4 DEF ArrivedInv
  <2>2. ASSUME NEW i \in 1 .. lg + 1 PROVE buf'[i] = w[lm + i]
    <3>1. CASE i = lg + 1
      <4>1. lm + i = lm + lg + 1
        BY <3>1, <1>5
      <4> QED BY <4>1, <3>1, <1>7, <1>10
    <3>2. CASE i # lg + 1
      <4>1. i \in 1 .. lg
        BY <3>2, <1>5
      <4>2. buf[i] = w[lm + i]
        BY <4>1, <2>1, <1>3 DEF Follows
      <4> QED BY <4>1, <4>2, <1>7
    <3> QED BY <3>1, <3>2
  <2> QED BY <2>2, <1>7 DEF Follows
<1>12. InInv'
  <2>1. Len(Getting') + InCount' <= 2 * burst'
    BY <1>1, <1>5, <1>6, <1>7, <1>9
  <2>2. inp'.end < Size
    BY <1>1, <1>2 DEF InInv
  <2> QED BY <2>1, <2>2, <1>1 DEF InInv
<1>13. ArrivedInv'
  <2>1. Len(moved') + Len(Getting') + InCount' = Len(Wrapped(arrived'))
    BY <1>1, <1>3, <1>5, <1>6, <1>7, <1>9
  <2>2. Follows(Getting', Wrapped(arrived'), Len(moved'))
    BY <1>1, <1>3, <1>9, <1>11
  <2>3. Holds(inp'.data, InBegin', InCount', Wrapped(arrived'), Len(moved') + Len(Getting'))
    BY <1>1, <1>3, <1>7, <1>9, <1>10
  <2>4. /\ arrived' \in Seq(Byte) /\ burst' <= Len(arrived')
        /\ moved' = Wrapped(SubSeq(arrived', 1, Len(arrived') - burst'))
    BY <1>1, <1>2 DEF ArrivedInv
  <2> QED BY <2>1, <2>2, <2>3, <2>4 DEF ArrivedInv
<1>14. HostInv'
  BY <1>1, <1>2 DEF HostInv
<1>15. OutEnd' = OutEnd /\ Putting' = Putting
  BY <1>1 DEF OutEnd, Putting
<1>16. OutputInv'
  BY <1>1, <1>2, <1>15, OutputFrame
<1> QED BY <1>1, <1>2, <1>8, <1>12, <1>13, <1>14, <1>16 DEF IInv, InputInv

LEMMA GetWrapKeeps ==
  ASSUME IInv, ~overtaken, GetWrap
  PROVE  IInv'
<1>1. /\ pc = "unwrap" /\ pc' = "get" /\ inp' = [inp EXCEPT !.begin = @ % Size]
      /\ UNCHANGED outVars /\ buf' = buf /\ slot' = slot
      /\ arrived' = arrived /\ burst' = burst /\ moved' = moved /\ host' = host
      /\ script' = script /\ todo' = todo /\ endpoint' = endpoint /\ out' = out
      /\ state' = state
  BY DEF GetWrap, Goto, outVars
<1>2. script \in Scripts /\ TypeOK /\ OutputInv /\ InInv /\ ArrivedInv /\ HostInv
  BY DEF IInv, InputInv
<1>3. /\ inp.begin \in 0 .. Size /\ inp.end \in 0 .. Size
      /\ inp.data \in [0 .. Size - 1 -> Byte]
      /\ inp = [begin |-> inp.begin, end |-> inp.end, data |-> inp.data] /\ out \in Rings
  BY <1>2, Types
<1>4. /\ inp.begin % Size = Wrap(inp.begin) /\ Wrap(inp.begin) \in 0 .. Size - 1
      /\ Wrap(Wrap(inp.begin)) = Wrap(inp.begin)
  <2>1. inp.begin % Size = Wrap(inp.begin) /\ Wrap(inp.begin) \in 0 .. Size - 1
    BY <1>3, WrapFacts
  <2> QED BY <2>1, WrapFacts
<1>5. inp' = [begin |-> Wrap(inp.begin), end |-> inp.end, data |-> inp.data]
  BY <1>1, <1>3, <1>4
<1>6. inp'.begin = Wrap(inp.begin) /\ inp'.end = inp.end /\ inp'.data = inp.data
  BY <1>5
<1>7. TypeOK'
  <2>1. inp' \in Rings
    BY <1>3, <1>4, <1>5, SizeFacts DEF Rings
  <2>2. \A ring \in {out', inp'} :
          ring \in [begin : 0 .. Size, end : 0 .. Size, data : [0 .. Size - 1 -> Byte]]
    BY <2>1, <1>1, <1>3 DEF Rings
  <2> QED BY <1>1, <1>2, <2>2 DEF TypeOK
<1>8. InBegin' = InBegin /\ Getting' = Getting
  BY <1>1, <1>4, <1>6 DEF InBegin, Getting
<1>9. InCount' = InCount
  BY <1>6, <1>8 DEF InCount
<1>10. InInv'
  <2>1. Len(Getting') + InCount' <= 2 * burst'
    BY <1>1, <1>2, <1>8, <1>9 DEF InInv
  <2>2. inp'.end < Size /\ inp'.begin < Size
    BY <1>2, <1>4, <1>6, SizeFacts DEF InInv
  <2> QED BY <2>1, <2>2, <1>1 DEF InInv
<1>11. ArrivedInv'
  BY <1>1, <1>2, <1>6, <1>8, <1>9 DEF ArrivedInv
<1>12. HostInv'
  BY <1>1, <1>2 DEF HostInv
<1>13. OutEnd' = OutEnd /\ Putting' = Putting
  BY <1>1 DEF OutEnd, Putting
<1>14. OutputInv'
  BY <1>1, <1>2, <1>13, OutputFrame
<1> QED BY <1>1, <1>2, <1>7, <1>10, <1>11, <1>12, <1>14 DEF IInv, InputInv

(* The host takes a packet: it has got some of what came before it, and now *)
(* all of the packet.                                                       *)
Picked(got, bytes, n) ==
  \E at \in [DOMAIN got -> 1 .. n] :
    \A i \in DOMAIN got :
      /\ got[i] = bytes[at[i]]
      /\ i > 1 => at[i] > at[i - 1]

LEMMA PickedMore ==
  ASSUME NEW bytes \in Seq(Byte), NEW got \in Seq(Byte), NEW c \in 0 .. Len(bytes),
         Picked(got, bytes, c), NEW more \in Seq(Byte), Len(more) = Len(bytes) - c,
         \A i \in 1 .. Len(more) : more[i] = bytes[c + i]
  PROVE  Picked(Joined(got, more), bytes, Len(bytes))
<1>1. PICK at \in [DOMAIN got -> 1 .. c] :
        \A i \in DOMAIN got :
          /\ got[i] = bytes[at[i]]
          /\ i > 1 => at[i] > at[i - 1]
  BY DEF Picked
<1>2. PICK g, m, l : g = Len(got) /\ m = Len(more) /\ l = Len(bytes)
  OBVIOUS
<1>3. /\ g \in Nat /\ m \in Nat /\ l \in Nat /\ c \in 0 .. l /\ m = l - c
      /\ DOMAIN got = 1 .. g
  BY <1>2
<1>4. PICK all : all = Joined(got, more)
  OBVIOUS
<1>5. /\ all \in Seq(Byte) /\ DOMAIN all = 1 .. g + m
      /\ \A i \in 1 .. g : all[i] = got[i]
      /\ \A i \in 1 .. g + m : i > g => all[i] = more[i - g]
  <2>1. /\ got \o more \in Seq(Byte) /\ Len(got \o more) = g + m
        /\ \A i \in 1 .. g + m :
             (got \o more)[i] = IF i <= g THEN got[i] ELSE more[i - g]
    BY <1>2, ConcatProperties
  <2>2. all = got \o more
    BY <1>4 DEF Joined
  <2>3. \A i \in 1 .. g + m : all[i] = IF i <= g THEN got[i] ELSE more[i - g]
    BY <2>1, <2>2
  <2>4. \A i \in 1 .. g : i \in 1 .. g + m /\ i <= g
    BY <1>3
  <2>5. \A i \in 1 .. g + m : i > g => ~(i <= g)
    BY <1>3
  <2>6. all \in Seq(Byte) /\ Len(all) = g + m
    BY <2>1, <2>2
  <2>7. DOMAIN all = 1 .. g + m
    BY <2>6
  <2> QED BY <2>3, <2>4, <2>5, <2>6, <2>7
<1> DEFINE new == [i \in 1 .. g + m |-> IF i <= g THEN at[i] ELSE c + (i - g)]
<1>6. ASSUME NEW i \in 1 .. g + m
      PROVE  IF i <= g THEN at[i] \in 1 .. c /\ new[i] = at[i] /\ i \in 1 .. g
             ELSE i - g \in 1 .. m /\ new[i] = c + (i - g)
  BY <1>1, <1>3
<1> HIDE DEF new
<1>7. ASSUME NEW i \in 1 .. g + m PROVE new[i] \in 1 .. l
  <2>1. CASE i <= g
    <3>1. at[i] \in 1 .. c /\ new[i] = at[i]
      BY <2>1, <1>6
    <3> QED BY <3>1, <1>3
  <2>2. CASE ~(i <= g)
    <3>1. i - g \in 1 .. m /\ new[i] = c + (i - g)
      BY <2>2, <1>6
    <3>2. c + (i - g) \in 1 .. l
      BY <3>1, <1>3
    <3> QED BY <3>1, <3>2
  <2> QED BY <2>1, <2>2
<1>8. new \in [1 .. g + m -> 1 .. l]
  BY <1>7 DEF new
<1>9. ASSUME NEW i \in 1 .. g + m PROVE all[i] = bytes[new[i]]
  <2>1. CASE i <= g
    <3>1. new[i] = at[i] /\ i \in 1 .. g
      BY <2>1, <1>6
    <3> QED BY <3>1, <1>1, <1>3, <1>5
  <2>2. CASE ~(i <= g)
    <3>1. i - g \in 1 .. m /\ new[i] = c + (i - g) /\ i > g
      BY <2>2, <1>3, <1>6
    <3>2. more[i - g] = bytes[c + (i - g)]
      BY <3>1, <1>2
    <3> QED BY <3>1, <3>2, <1>5
  <2> QED BY <2>1, <2>2
<1>10. ASSUME NEW i \in 1 .. g + m, i > 1 PROVE new[i] > new[i - 1]
  <2>0. i - 1 \in 1 .. g + m
    BY <1>10, <1>3
  <2>1. CASE i <= g
    <3>1. new[i] = at[i] /\ i \in 1 .. g
      BY <2>1, <1>6
    <3>2. i - 1 <= g
      BY <2>1, <1>3
    <3>3. new[i - 1] = at[i - 1]
      BY <3>2, <2>0, <1>6
    <3> QED BY <3>1, <3>3, <1>1, <1>3, <1>10
  <2>2. CASE ~(i <= g) /\ i - 1 <= g
    <3>1. new[i] = c + (i - g) /\ i - g \in 1 .. m
      BY <2>2, <1>6
    <3>2. at[i - 1] \in 1 .. c /\ new[i - 1] = at[i - 1]
      BY <2>0, <2>2, <1>6
    <3> QED BY <3>1, <3>2, <1>3
  <2>3. CASE ~(i <= g) /\ ~(i - 1 <= g)
    <3>1. new[i] = c + (i - g) /\ i - g \in 1 .. m
      BY <2>3, <1>6
    <3>2. new[i - 1] = c + (i - 1 - g) /\ i - 1 - g \in 1 .. m
      BY <2>0, <2>3, <1>6
    <3> QED BY <3>1, <3>2, <1>3
  <2>4. (i - 1 <= g \/ ~(i - 1 <= g)) /\ (i <= g => i - 1 <= g)
    BY <1>3
  <2> QED BY <2>1, <2>2, <2>3, <2>4
<1>11. Picked(all, bytes, l)
  BY <1>5, <1>8, <1>9, <1>10 DEF Picked
<1> QED BY <1>2, <1>4, <1>11

(* The rest of a stream, when as much of it is left as of a part of it.     *)
LEMMA RestIs ==
  ASSUME NEW s \in Seq(Byte), NEW t \in Seq(Byte), NEW rest \in Seq(Byte),
         Len(rest) = Len(t), Follows(rest, s \o t, Len(s))
  PROVE  rest = t
<1>1. PICK n, m : n = Len(s) /\ m = Len(t)
  OBVIOUS
<1>2. n \in Nat /\ m \in Nat
  BY <1>1
<1>3. ASSUME NEW i \in 1 .. m PROVE rest[i] = t[i]
  <2>1. PICK j : j = n + i /\ j \in 1 .. n + m /\ ~(j <= n) /\ j - n = i
    BY <1>2
  <2>2. (s \o t)[j] = t[j - n]
    BY <2>1, <1>1, ConcatProperties
  <2>3. rest[i] = (s \o t)[j]
    BY <2>1, <1>1 DEF Follows
  <2> QED BY <2>1, <2>2, <2>3
<1> QED BY <1>1, <1>3, SeqEqual

(* What was offered to the host, and what came in since.                    *)
Recent == SubSeq(arrived, Len(arrived) - burst + 1, Len(arrived))

LEMMA RecentFacts ==
  ASSUME TypeOK, InInv, ArrivedInv
  PROVE  /\ Recent \in Seq(Byte) /\ Len(Recent) = burst
         /\ \A i \in 1 .. Len(Recent) : Recent[i] = arrived[Len(arrived) - burst + i]
         /\ Wrapped(Recent) \in Seq(Byte)
         /\ Wrapped(arrived) = moved \o Wrapped(Recent)
<1>3. PICK la, c : la = Len(arrived) /\ c = la - burst
  OBVIOUS
<1>4. /\ arrived \in Seq(Byte) /\ moved \in Seq(Byte)
      /\ la \in Nat /\ burst \in 0 .. MaxBurst /\ burst <= la
  BY <1>3, InFacts DEF ArrivedInv
<1>5. c \in 0 .. la /\ la - c = burst /\ c + 1 \in 1 .. la + 1
  BY <1>3, <1>4, SizeFacts
<1>8. PICK old, new : old = SubSeq(arrived, 1, c) /\ new = SubSeq(arrived, c + 1, la)
  OBVIOUS
<1>9. /\ old \in Seq(Byte) /\ new \in Seq(Byte) /\ Len(new) = la - c
      /\ \A i \in 1 .. Len(new) : new[i] = arrived[c + i]
  <2>1. \A i \in 1 .. c : arrived[i] \in Byte
    BY <1>3, <1>4, <1>5
  <2>2. \A i \in c + 1 .. la : arrived[i] \in Byte
    BY <1>3, <1>4, <1>5
  <2>3. old \in Seq(Byte)
    BY <2>1, <1>5, <1>8, SubSeqProperties
  <2>4. PICK n : n = la - (c + 1) + 1 /\ n = la - c /\ n \in Nat
    BY <1>4, <1>5
  <2>5. /\ new \in Seq(Byte)
        /\ Len(new) = IF c + 1 <= la THEN n ELSE 0
        /\ \A i \in 1 .. n : new[i] = arrived[c + 1 + i - 1]
    BY <2>2, <2>4, <1>4, <1>5, <1>8, SubSeqProperties
  <2>6. Len(new) = n
    BY <2>4, <2>5, <1>4, <1>5
  <2>7. ASSUME NEW i \in 1 .. n PROVE new[i] = arrived[c + i]
    <3>1. c + 1 + i - 1 = c + i
      BY <1>5
    <3> QED BY <3>1, <2>5
  <2> QED BY <2>3, <2>4, <2>5, <2>6, <2>7
<1>10. arrived = old \o new
  <2>1. /\ 1 \in 1 .. Len(arrived) + 1 /\ c \in 1 - 1 .. Len(arrived)
        /\ la \in c .. Len(arrived)
    BY <1>3, <1>4, <1>5
  <2>2. SubSeq(arrived, 1, c) \o SubSeq(arrived, c + 1, la) = SubSeq(arrived, 1, la)
    BY <2>1, <1>4, ConcatAdjacentSubSeq
  <2>3. SubSeq(arrived, 1, la) = arrived
    BY <1>3, <1>4, SubSeqFull
  <2> QED BY <2>2, <2>3, <1>8, Zenon
<1>11. PICK w : w = Wrapped(new)
  OBVIOUS
<1>12. moved = Wrapped(old) /\ w \in Seq(Byte) /\ Wrapped(arrived) = moved \o w
  <2>1. moved = Wrapped(old)
    BY <1>3, <1>8 DEF ArrivedInv
  <2>2. w \in Seq(Byte)
    BY <1>9, <1>11, WrappedMore
  <2>3. Wrapped(old \o new) = Wrapped(old) \o Wrapped(new)
    BY <1>9, WrappedConcat
  <2> QED BY <2>1, <2>2, <2>3, <1>10, <1>11, Zenon
<1>13. new = Recent
  BY <1>3, <1>8 DEF Recent
<1> QED BY <1>3, <1>5, <1>9, <1>11, <1>12, <1>13

LEMMA WritePacketKeeps ==
  ASSUME IInv, ~overtaken, WritePacket
  PROVE  IInv'
<1>1. /\ Empty(inp) \/ Len(buf) = Packet
      /\ pc = "get" /\ pc' = "poll" /\ buf' = <<>> /\ burst' = 0
      /\ IF Count(buf) > 0
         THEN moved' = moved \o buf /\ host' \in {host, Unwrapped(host, buf)}
         ELSE moved' = moved /\ host' = host
      /\ UNCHANGED outVars /\ slot' = slot /\ inp' = inp /\ arrived' = arrived
      /\ script' = script /\ todo' = todo /\ endpoint' = endpoint /\ out' = out
      /\ state' = state
  BY DEF WritePacket, Goto, outVars
<1>2. script \in Scripts /\ TypeOK /\ OutputInv /\ InInv /\ ArrivedInv /\ HostInv
  BY DEF IInv, InputInv
<1>3. PICK la, c, lb : la = Len(arrived) /\ c = la - burst /\ lb = Len(buf)
  OBVIOUS
<1>4. /\ Getting = buf /\ buf \in Seq(Byte) /\ arrived \in Seq(Byte) /\ moved \in Seq(Byte)
      /\ la \in Nat /\ lb \in Nat /\ burst \in 0 .. MaxBurst /\ burst <= la
      /\ lb + InCount < Packet /\ InCount \in 0 .. Size - 1
      /\ inp.end \in 0 .. Size - 1
  <2>1. Getting = buf /\ arrived \in Seq(Byte) /\ burst <= la
    BY <1>1, <1>2, <1>3 DEF Getting, ArrivedInv
  <2> QED BY <2>1, <1>2, <1>3, InFacts
<1>5. /\ c \in 0 .. la /\ la - c = burst /\ c + 1 \in 1 .. la + 1 /\ lb # Packet
      /\ lb >= 0
  BY <1>3, <1>4, SizeFacts
<1>6. Empty(inp)
  BY <1>1, <1>3, <1>5
<1>7. InCount = 0 /\ inp.begin \in 0 .. Size - 1 /\ InBegin = inp.begin
  <2>1. inp.begin \in 0 .. Size - 1
    BY <1>4, <1>6 DEF Empty
  <2>2. InBegin = inp.begin
    BY <2>1, <1>1, WrapFacts DEF InBegin
  <2> QED BY <2>1, <2>2, <1>4, <1>6, GapFacts DEF InCount, Empty
<1>8. PICK new, w : new = Recent /\ w = Wrapped(new)
  OBVIOUS
<1>9. /\ new \in Seq(Byte) /\ Len(new) = la - c
      /\ \A i \in 1 .. Len(new) : new[i] = arrived[c + i]
      /\ w \in Seq(Byte) /\ Wrapped(arrived) = moved \o w
  BY <1>2, <1>3, <1>5, <1>8, RecentFacts
<1>13. buf = w
  <2>1. Follows(buf, moved \o w, Len(moved))
    BY <1>2, <1>4, <1>9 DEF ArrivedInv
  <2>2. Len(moved) + Len(buf) + 0 = Len(moved \o w)
    BY <1>2, <1>4, <1>7, <1>9 DEF ArrivedInv
  <2>3. Len(moved \o w) = Len(moved) + Len(w)
    BY <1>4, <1>9, ConcatProperties
  <2>4. Len(buf) = Len(w)
    BY <2>2, <2>3, <1>4, <1>9
  <2> QED BY <2>1, <2>4, <1>4, <1>9, RestIs
<1>14. moved' = Wrapped(arrived) /\ moved' \in Seq(Byte)
  <2>1. CASE Count(buf) > 0
    <3>1. moved' = moved \o buf
      BY <2>1, <1>1
    <3>2. Wrapped(arrived) \in Seq(Byte)
      BY <1>4, WrappedMore
    <3> QED BY <3>1, <3>2, <1>9, <1>13
  <2>2. CASE ~(Count(buf) > 0)
    <3>1. Count(buf) = lb
      BY <1>3, <1>5 DEF Count
    <3>2. lb = 0
      BY <3>1, <2>2, <1>4
    <3>3. buf = <<>>
      BY <3>2, <1>3, <1>4
    <3>4. moved \o <<>> = moved
      BY <1>4, ConcatEmptySeq
    <3>5. moved' = moved
      BY <2>2, <1>1
    <3> QED BY <3>3, <3>4, <3>5, <1>4, <1>9, <1>13
  <2> QED BY <2>1, <2>2
<1>15. HostInv'
  <2>1. host \in [state : {0}, got : Seq(Byte)]
    BY <1>2 DEF HostInv
  <2>2. PICK got : got = host.got
    OBVIOUS
  <2>3. got \in Seq(Byte) /\ host = [state |-> 0, got |-> got]
    BY <2>1, <2>2
  <2>4. Picked(got, arrived, c)
    BY <1>2, <1>3, <2>2 DEF HostInv, Picked
  <2>5. Picked(Joined(got, new), arrived, la)
    <3>1. c \in 0 .. Len(arrived) /\ Len(new) = Len(arrived) - c
      BY <1>3, <1>5, <1>9
    <3> QED BY <3>1, <2>3, <2>4, <1>3, <1>4, <1>9, PickedMore
  <2>6. Unwrapped(host, buf) = [state |-> 0, got |-> Joined(got, new)]
    <3>1. Leads("host", [state |-> 0, got |-> got], w, [state |-> 0, got |-> Joined(got, new)])
      BY <1>8, <1>9, <2>3, UnwrapsWrapped
    <3>2. Len(buf) \in Nat
      BY <1>3, <1>4
    <3>3. Leads("host", host, buf, [state |-> 0, got |-> Joined(got, new)])
      BY <3>1, <2>3, <1>13
    <3> QED BY <3>2, <3>3, UnwrappedIs
  <2>7. host' = host \/ host' = [state |-> 0, got |-> Joined(got, new)]
    <3>1. host' \in {host, Unwrapped(host, buf)} \/ host' = host
      BY <1>1
    <3> QED BY <3>1, <2>6
  <2>8. Picked(got, arrived, la)
    <3>1. PICK at \in [DOMAIN got -> 1 .. c] :
            \A i \in DOMAIN got :
              /\ got[i] = arrived[at[i]]
              /\ i > 1 => at[i] > at[i - 1]
      BY <2>4 DEF Picked
    <3>2. at \in [DOMAIN got -> 1 .. la]
      <4>1. \A i \in 1 .. c : i \in 1 .. la
        BY <1>4, <1>5
      <4> QED BY <4>1
    <3> QED BY <3>1, <3>2 DEF Picked
  <2>9. Joined(got, new) \in Seq(Byte)
    BY <2>3, <1>9, ConcatProperties DEF Joined
  <2>10. host' \in [state : {0}, got : Seq(Byte)] /\ Picked(host'.got, arrived, la)
    <3>1. CASE host' = host
      BY <3>1, <2>1, <2>2, <2>8
    <3>2. CASE host' = [state |-> 0, got |-> Joined(got, new)]
      <4>1. host'.got = Joined(got, new)
        BY <3>2
      <4> QED BY <3>2, <4>1, <2>5, <2>9
    <3> QED BY <3>1, <3>2, <2>7
  <2>11. Len(arrived') - burst' = la
    BY <1>1, <1>3, <1>4
  <2> QED BY <2>10, <2>11, <1>1 DEF HostInv, Picked
<1>16. TypeOK'
  <2>1. <<>> \in Seq(Byte) /\ Len(<<>>) <= Packet /\ 0 \in 0 .. MaxBurst
    BY SizeFacts
  <2> QED BY <2>1, <1>1, <1>2 DEF TypeOK
<1>17. Getting' = <<>> /\ InBegin' = InBegin /\ InCount' = 0
  <2>1. Getting' = <<>> /\ InBegin' = InBegin
    BY <1>1 DEF Getting, InBegin
  <2> QED BY <2>1, <1>1, <1>7 DEF InCount
<1>18. InInv'
  <2>1. Len(Getting') + InCount' <= 2 * burst'
    BY <1>1, <1>17
  <2>2. inp'.end < Size /\ inp'.begin < Size
    BY <1>1, <1>4, <1>7, SizeFacts
  <2> QED BY <2>1, <2>2, <1>1 DEF InInv
<1>19. ArrivedInv'
  <2>1. SubSeq(arrived', 1, Len(arrived') - burst') = arrived
    <3>1. Len(arrived') - burst' = Len(arrived)
      BY <1>1, <1>3, <1>4
    <3> QED BY <3>1, <1>1, <1>4, SubSeqFull
  <2>2. Len(moved') \in Nat /\ burst' <= Len(arrived')
    BY <1>1, <1>3, <1>4, <1>14
  <2>3. PICK l : l = Len(moved')
    OBVIOUS
  <2>4. l + Len(<<>>) + 0 = l
    BY <2>2, <2>3
  <2>5. Len(moved') + Len(Getting') + InCount' = Len(Wrapped(arrived'))
    BY <2>3, <2>4, <1>1, <1>14, <1>17
  <2>6. Follows(Getting', Wrapped(arrived'), Len(moved'))
    BY <1>17 DEF Follows
  <2>7. Holds(inp'.data, InBegin', InCount', Wrapped(arrived'), Len(moved') + Len(Getting'))
    BY <1>17 DEF Holds
  <2> QED BY <2>1, <2>2, <2>5, <2>6, <2>7, <1>1, <1>4, <1>14 DEF ArrivedInv
<1>20. OutputInv'
  <2>1. OutEnd' = OutEnd /\ Putting' = Putting
    BY <1>1 DEF OutEnd, Putting
  <2> QED BY <2>1, <1>1, <1>2, OutputFrame
<1> QED BY <1>1, <1>2, <1>15, <1>16, <1>18, <1>19, <1>20 DEF IInv, InputInv

-----------------------------------------------------------------------------
(* The theorems. *)

LEMMA StepKeeps ==
  ASSUME IInv, [Next]_vars
  PROVE  IInv'
<1>1. CASE UNCHANGED vars
  <2>1. UNCHANGED outVars /\ UNCHANGED inVars /\ UNCHANGED main
    BY <1>1 DEF vars
  <2>2. /\ script' = script /\ todo' = todo /\ endpoint' = endpoint /\ out' = out
        /\ state' = state /\ inp' = inp /\ burst' = burst
        /\ pc' = pc /\ buf' = buf /\ slot' = slot
    BY <2>1 DEF outVars, inVars, main
  <2>3. /\ OutEnd' = OutEnd /\ Putting' = Putting
        /\ InBegin' = InBegin /\ Getting' = Getting
    BY <2>2 DEF OutEnd, Putting, InBegin, Getting
  <2>4. OutputInv' /\ InputInv'
    BY <2>1, <2>2, <2>3, OutputFrame, InputFrame DEF IInv
  <2>5. TypeOK'
    BY <2>2 DEF IInv, TypeOK
  <2> QED BY <2>2, <2>4, <2>5 DEF IInv
<1>2. CASE Next
  <2>1. ~overtaken
    BY <1>2 DEF Next
  <2>2. CASE HostSends
    BY <2>1, <2>2, HostSendsKeeps
  <2>3. CASE TxDone
    BY <2>1, <2>3, TxDoneKeeps
  <2>4. CASE TxIrq
    BY <2>1, <2>4, TxIrqKeeps
  <2>5. CASE \E b \in LineBytes : RxIrq(b)
    BY <2>1, <2>5, RxIrqKeeps
  <2>6. CASE Output
    BY <2>1, <2>6, ReadPacketKeeps, PutIndexKeeps, PutDataKeeps, PutWrapKeeps, EnableKeeps
       DEF Output
  <2>7. CASE Input
    BY <2>1, <2>7, ReadInputKeeps, GetIndexKeeps, GetDataKeeps, GetWrapKeeps, WritePacketKeeps
       DEF Input
  <2> QED BY <1>2, <2>2, <2>3, <2>4, <2>5, <2>6, <2>7 DEF Next
<1> QED BY <1>1, <1>2

(* The two rings, the packets around them and the decoder agree in every    *)
(* state on what has gone from the host to the serial port, and back.       *)
THEOREM Invariance == Spec => []IInv
<1>1. Init => IInv
  BY InitIInv
<1>2. IInv /\ [Next]_vars => IInv'
  BY StepKeeps
<1> QED BY <1>1, <1>2, PTL DEF Spec

(* The indices, buffers and states of the bridge keep their types: an index *)
(* never exceeds a ring by more than one, and buf never a packet.           *)
THEOREM TypeCorrect == Spec => []TypeOK
<1>1. IInv => TypeOK
  BY DEF IInv
<1> QED BY <1>1, Invariance, PTL

(* ring_write into output_ring never has to give up a byte of a packet that *)
(* cdcacm_data_rx_cb had read, whatever the sizes of ring and packet.       *)
THEOREM PacketAlwaysFits == Spec => []PacketFits
<1>1. IInv => PacketFits
  BY RoomLeft DEF IInv, OutputInv, PacketFits
<1> QED BY <1>1, Invariance, PTL

(* For every script the host plays: what happens at the serial port is a    *)
(* beginning of what the script means, data and signals in their order, as  *)
(* long as usart1_isr has not read a place that main had not filled.        *)
THEOREM LineAlwaysFollows == Spec => []LineFollowsUnlessOvertaken
<1>1. IInv => LineFollowsUnlessOvertaken
  <2>1. SUFFICES ASSUME IInv, ~overtaken PROVE LineFollowsHost
    BY DEF LineFollowsUnlessOvertaken
  <2>2. script \in Scripts /\ TypeOK /\ OutInv /\ StreamInv
    BY <2>1 DEF IInv, OutputInv
  <2>3. script \in Seq(Items)
    BY <2>2, ScriptFacts
  <2>4. PICK k, c, p, e, t, l :
          /\ k = Decoded /\ c = OutCount /\ p = Len(Putting) /\ e = Len(endpoint)
          /\ t = Len(todo) /\ l = Len(Wire(script))
    OBVIOUS
  <2>5. /\ k \in Nat /\ c \in Nat /\ p \in Nat /\ e \in Nat /\ t \in Nat
        /\ k + c + p + e + t = l
    BY <2>2, <2>4, OutFacts, SizeFacts
  <2>6. k \in 0 .. l
    BY <2>5
  <2>7. IsPrefix(Decoding(Wire(script))[Decoded].line, Meaning(script))
    BY <2>3, <2>4, <2>6, DecodingFollows
  <2>8. Decoding(Wire(script))[Decoded].line = line
    <3>1. [state |-> state, line |-> line] = Decoding(Wire(script))[Decoded]
      BY <2>2 DEF StreamInv
    <3>2. [state |-> state, line |-> line].line = line
      OBVIOUS
    <3> QED BY <3>1, <3>2, Zenon
  <2> QED BY <2>7, <2>8 DEF LineFollowsHost
<1> QED BY <1>1, Invariance, PTL

(* For every sequence of bytes that arrives, and whichever packets the host *)
(* misses: what was offered to it and what is in input_ring are, doubled,   *)
(* all that arrived, and what it decoded is taken from that in order.       *)
THEOREM InputAlwaysExact == Spec => []InputExact
<1>1. ASSUME IInv, pc = "poll" PROVE moved \o Contents(inp) = Wrapped(arrived)
  <2>1. TypeOK /\ InInv /\ ArrivedInv
    BY <1>1 DEF IInv, InputInv
  <2>2. PICK w, n, from, lm : w = Wrapped(arrived) /\ n = InCount /\ from = inp.begin
                              /\ lm = Len(moved)
    OBVIOUS
  <2>3. Getting = <<>> /\ Len(Getting) = 0
    BY <1>1 DEF Getting
  <2>4. from \in 0 .. Size - 1 /\ InBegin = from
    <3>1. from \in 0 .. Size /\ from < Size
      BY <1>1, <2>1, <2>2, Types DEF InInv
    <3>2. from \in 0 .. Size - 1
      BY <3>1, SizeFacts
    <3> QED BY <3>2, <2>2, <1>1, WrapFacts DEF InBegin
  <2>5. /\ n \in 0 .. Size - 1 /\ inp.end \in 0 .. Size - 1 /\ n = Gap(from, inp.end)
        /\ lm \in Nat /\ moved \in Seq(Byte) /\ w \in Seq(Byte)
    BY <2>1, <2>2, <2>4, InFacts DEF InCount
  <2>6. lm + n = Len(w) /\ Holds(inp.data, from, n, w, lm)
    <3>1. lm + 0 + n = Len(w) /\ Holds(inp.data, from, n, w, lm + 0)
      BY <2>1, <2>2, <2>3, <2>4 DEF ArrivedInv
    <3>2. lm + 0 + n = lm + n /\ lm + 0 = lm
      BY <2>5
    <3> QED BY <3>1, <3>2
  <2>7. PICK held, rest : held = Contents(inp) /\ rest = Wrapped(Recent)
    OBVIOUS
  <2>8. rest \in Seq(Byte) /\ w = moved \o rest
    BY <2>1, <2>2, <2>7, RecentFacts
  <2>9. held = [i \in 1 .. n |-> inp.data[(from + i - 1) % Size]]
    <3>1. (inp.end - inp.begin) % Size = n
      BY <2>2, <2>4, <2>5, RemainderFacts
    <3> QED BY <3>1, <2>2, <2>7 DEF Contents
  <2>10. ASSUME NEW i \in 1 .. n PROVE held[i] = w[lm + i] /\ held[i] \in Byte
    <3>0. PICK j : j = i - 1
      OBVIOUS
    <3>1. /\ j \in 0 .. n - 1 /\ j \in 0 .. Size - 1
          /\ from + i - 1 = from + j /\ lm + 1 + j = lm + i
      <4>1. n \in 0 .. Size - 1 /\ from \in Nat /\ lm \in Nat /\ Size \in Nat
        BY <2>4, <2>5, SizeFacts
      <4> QED BY <4>1, <3>0
    <3>2. (from + j) % Size = Place(from, j) /\ Place(from, j) \in 0 .. Size - 1
      BY <3>1, <2>4, PlaceFacts
    <3>3. inp.data[Place(from, j)] = w[lm + 1 + j]
      BY <3>1, <2>6 DEF Holds
    <3>4. held[i] = inp.data[(from + i - 1) % Size]
      BY <2>9
    <3>5. inp.data \in [0 .. Size - 1 -> Byte]
      BY <2>1, Types
    <3> QED BY <3>1, <3>2, <3>3, <3>4, <3>5
  <2>11. held \in Seq(Byte) /\ Len(held) = n
    <3>1. held \in [1 .. n -> Byte]
      BY <2>9, <2>10
    <3>2. n \in Nat
      BY <2>5, SizeFacts
    <3> QED BY <3>1, <3>2
  <2>12. held = rest
    <3>1. Len(moved \o rest) = lm + Len(rest)
      BY <2>2, <2>5, <2>8, ConcatProperties
    <3>2. Len(held) = Len(rest)
      BY <3>1, <2>5, <2>6, <2>8, <2>11
    <3>3. Follows(held, moved \o rest, Len(moved))
      BY <2>2, <2>8, <2>10, <2>11 DEF Follows
    <3> QED BY <3>2, <3>3, <2>5, <2>8, <2>11, RestIs
  <2> QED BY <2>2, <2>7, <2>8, <2>12
<1>2. ASSUME IInv
      PROVE  /\ host.state = 0
             /\ \E at \in [DOMAIN host.got -> DOMAIN arrived] :
                  \A i \in DOMAIN host.got :
                    /\ host.got[i] = arrived[at[i]]
                    /\ i > 1 => at[i] > at[i - 1]
  <2>1. TypeOK /\ InInv /\ ArrivedInv /\ HostInv
    BY <1>2 DEF IInv, InputInv
  <2>2. PICK la, c : la = Len(arrived) /\ c = la - burst
    OBVIOUS
  <2>3. \A i \in 1 .. c : i \in 1 .. la
    <3>1. la \in Nat /\ burst \in 0 .. MaxBurst
      BY <2>1, <2>2, InFacts
    <3> QED BY <3>1, <2>2, SizeFacts
  <2>4. PICK at \in [DOMAIN host.got -> 1 .. c] :
          \A i \in DOMAIN host.got :
            /\ host.got[i] = arrived[at[i]]
            /\ i > 1 => at[i] > at[i - 1]
    BY <2>1, <2>2 DEF HostInv
  <2>5. DOMAIN arrived = 1 .. la
    BY <2>1, <2>2 DEF ArrivedInv
  <2>6. at \in [DOMAIN host.got -> DOMAIN arrived]
    BY <2>3, <2>4, <2>5
  <2>7. host.state = 0
    BY <2>1 DEF HostInv
  <2> QED BY <2>4, <2>6, <2>7
<1>3. IInv => InputExact
  BY <1>1, <1>2 DEF InputExact
<1> QED BY <1>3, Invariance, PTL
=============================================================================
