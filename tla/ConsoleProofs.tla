---------------------------- MODULE ConsoleProofs ----------------------------
(***************************************************************************)
(* Proofs about folie as a terminal, for all lines and files, all outputs, *)
(* and any number of silences and losses of the connection.                *)
(***************************************************************************)
EXTENDS Console, SequenceTheorems, WellFoundedInduction, TLAPS

(* Induction, with sets for what is to be shown.                            *)
LEMMA NatInduct ==
  ASSUME NEW N \in Nat, NEW P, 0 \in P, \A n \in 0 .. N - 1 : n \in P => n + 1 \in P
  PROVE  \A n \in 0 .. N : n \in P
<1> DEFINE S == {n \in 0 .. N : n \notin P}
           Less == {ss \in Nat \X Nat : ss[1] < ss[2]}
<1>1. IsWellFoundedOn(Less, Nat)
  BY NatLessThanWellFounded, Zenon DEF OpToRel
<1>2. SUFFICES ASSUME S # {} PROVE FALSE
  OBVIOUS
<1>3. PICK n \in S : \A m \in S : ~(<<m, n>> \in Less)
  <2>1. S \subseteq Nat
    OBVIOUS
  <2> HIDE DEF Less, S
  <2> QED BY <1>1, <1>2, <2>1, WFMin
<1>4. n \in 1 .. N /\ n - 1 \in 0 .. N - 1
  OBVIOUS
<1>5. n - 1 \in P
  <2>1. <<n - 1, n>> \in Less
    BY <1>4
  <2>2. n - 1 \notin S
    BY <1>3, <2>1
  <2> QED BY <1>4, <2>2
<1>6. (n - 1) + 1 = n
  BY <1>4
<1> QED BY <1>4, <1>5, <1>6

LEMMA SeqInduct ==
  ASSUME NEW D, NEW P, <<>> \in P,
         \A s \in Seq(D), d \in D : s \in P => Append(s, d) \in P
  PROVE  \A s \in Seq(D) : s \in P
<1> SUFFICES ASSUME NEW s \in Seq(D) PROVE s \in P
  OBVIOUS
<1> DEFINE Q == {n \in 0 .. Len(s) : SubSeq(s, 1, n) \in P}
<1>1. 0 \in Q
  <2>1. SubSeq(s, 1, 0) = <<>>
    BY SubSeqEmpty
  <2>2. 0 \in 0 .. Len(s)
    OBVIOUS
  <2> QED BY <2>1, <2>2
<1>2. ASSUME NEW n \in 0 .. Len(s) - 1, n \in Q PROVE n + 1 \in Q
  <2>1. SubSeq(s, 1, n) \in Seq(D) /\ s[n + 1] \in D
    BY SubSeqProperties
  <2>2. SubSeq(s, 1, n + 1) = Append(SubSeq(s, 1, n), s[n + 1])
    BY SubSeqProperties
  <2>3. Append(SubSeq(s, 1, n), s[n + 1]) \in P
    BY <1>2, <2>1
  <2>4. n + 1 \in 0 .. Len(s)
    OBVIOUS
  <2> QED BY <2>2, <2>3, <2>4
<1>3. Len(s) \in Q
  <2>1. Len(s) \in Nat
    OBVIOUS
  <2> HIDE DEF Q
  <2>2. \A n \in 0 .. Len(s) : n \in Q
    BY <1>1, <1>2, <2>1, NatInduct
  <2> QED BY <2>1, <2>2
<1>4. SubSeq(s, 1, Len(s)) = s
  BY SubSeqProperties
<1> QED BY <1>3, <1>4

-----------------------------------------------------------------------------
(* FlattenSeq. *)

(* s \o t, as a whole for the provers.                                      *)
Joined(s, t) == s \o t

(* The first n of seqs, flattened, for all n up to a number.                *)
Flattens(f, seqs, n) ==
  f = [i \in 1 .. n |-> IF i = 1 THEN seqs[i] ELSE Joined(f[i - 1], seqs[i])]

LEMMA FlattensExists ==
  ASSUME NEW seqs, NEW N \in Nat
  PROVE  \E f : Flattens(f, seqs, N)
<1> DEFINE P == {n \in 0 .. N : \E f : Flattens(f, seqs, n)}
<1>1. 0 \in P
  <2>1. Flattens([i \in 1 .. 0 |-> seqs], seqs, 0)
    BY DEF Flattens
  <2> QED BY <2>1
<1>2. ASSUME NEW n \in 0 .. N - 1, n \in P PROVE n + 1 \in P
  <2>1. PICK f : Flattens(f, seqs, n)
    BY <1>2
  <2> DEFINE g == [i \in 1 .. n + 1 |->
                     IF i <= n THEN f[i]
                     ELSE IF i = 1 THEN seqs[i] ELSE Joined(f[n], seqs[i])]
  <2>2. ASSUME NEW i \in 1 .. n + 1
        PROVE  g[i] = IF i = 1 THEN seqs[i] ELSE Joined(g[i - 1], seqs[i])
    <3>1. CASE i <= n
      <4>1. i \in 1 .. n /\ (i # 1 => i - 1 \in 1 .. n + 1 /\ i - 1 <= n)
        BY <3>1
      <4>2. f[i] = IF i = 1 THEN seqs[i] ELSE Joined(f[i - 1], seqs[i])
        BY <2>1, <4>1 DEF Flattens
      <4> QED BY <3>1, <4>1, <4>2
    <3>2. CASE i = n + 1
      <4>1. ~(i <= n) /\ i - 1 = n /\ (i # 1 => n \in 1 .. n + 1 /\ n <= n)
        BY <3>2
      <4> QED BY <4>1
    <3> QED BY <3>1, <3>2
  <2>3. Flattens(g, seqs, n + 1)
    BY <2>2 DEF Flattens
  <2> QED BY <2>3
<1> HIDE DEF P
<1>3. N \in P
  BY <1>1, <1>2, NatInduct
<1> QED BY <1>3 DEF P

LEMMA FlattensUnique ==
  ASSUME NEW seqs, NEW more, NEW N \in Nat,
         \A i \in 1 .. N : seqs[i] = more[i]
  PROVE  \A f, g : Flattens(f, seqs, N) /\ Flattens(g, more, N + 1) =>
                    \A i \in 1 .. N : f[i] = g[i]
<1> SUFFICES ASSUME NEW f, Flattens(f, seqs, N), NEW g, Flattens(g, more, N + 1)
             PROVE  \A i \in 1 .. N : f[i] = g[i]
  OBVIOUS
<1> DEFINE P == {n \in 0 .. N : n # 0 => f[n] = g[n]}
<1>1. 0 \in P
  OBVIOUS
<1>2. ASSUME NEW n \in 0 .. N - 1, n \in P PROVE n + 1 \in P
  <2>1. n + 1 \in 1 .. N /\ n + 1 \in 1 .. N + 1 /\ (n + 1) - 1 = n
    OBVIOUS
  <2>2. /\ f[n + 1] = IF n + 1 = 1 THEN seqs[n + 1] ELSE Joined(f[n], seqs[n + 1])
        /\ g[n + 1] = IF n + 1 = 1 THEN more[n + 1] ELSE Joined(g[n], more[n + 1])
    BY <2>1 DEF Flattens
  <2> QED BY <1>2, <2>1, <2>2
<1> HIDE DEF P
<1>3. \A n \in 0 .. N : n \in P
  BY <1>1, <1>2, NatInduct
<1> QED BY <1>3 DEF P

LEMMA FlattenFound ==
  ASSUME NEW s, Len(s) \in Nat, Len(s) # 0
  PROVE  \E f : Flattens(f, s, Len(s)) /\ FlattenSeq(s) = f[Len(s)]
<1>1. FlattenSeq(s) = (CHOOSE f : Flattens(f, s, Len(s)))[Len(s)]
  BY DEF FlattenSeq, Flattens, Joined
<1>2. \E f : Flattens(f, s, Len(s))
  BY FlattensExists
<1> QED BY <1>1, <1>2

LEMMA FlattenLonger ==
  ASSUME NEW n \in Nat, NEW r, NEW t, NEW x,
         Len(r) = n, Len(t) = n + 1, t[n + 1] = x,
         \A i \in 1 .. n : r[i] = t[i]
  PROVE  FlattenSeq(t) = IF n = 0 THEN x ELSE Joined(FlattenSeq(r), x)
<1>1. PICK g : Flattens(g, t, n + 1) /\ FlattenSeq(t) = g[n + 1]
  BY FlattenFound
<1>2. g[n + 1] = IF n + 1 = 1 THEN x ELSE Joined(g[n], x)
  <2>1. n + 1 \in 1 .. n + 1 /\ (n + 1) - 1 = n
    OBVIOUS
  <2> QED BY <1>1, <2>1 DEF Flattens
<1>3. CASE n = 0
  BY <1>1, <1>2, <1>3
<1>4. CASE n # 0
  <2>1. PICK f : Flattens(f, r, n) /\ FlattenSeq(r) = f[n]
    BY <1>4, FlattenFound
  <2>2. \A i \in 1 .. n : f[i] = g[i]
    BY <1>1, <2>1, FlattensUnique
  <2>3. f[n] = g[n] /\ n + 1 # 1
    BY <1>4, <2>2
  <2> QED BY <1>1, <1>2, <1>4, <2>1, <2>3
<1> QED BY <1>3, <1>4

(* A sequence more is one more at the end.                                  *)
LEMMA FlattenAppend ==
  ASSUME NEW D, NEW s \in Seq(Seq(D)), NEW x \in Seq(D)
  PROVE  /\ FlattenSeq(<<>>) = <<>>
         /\ FlattenSeq(Append(s, x)) =
              IF s = <<>> THEN x ELSE FlattenSeq(s) \o x
<1>1. FlattenSeq(<<>>) = <<>>
  BY DEF FlattenSeq
<1>2. PICK n, r, t : n = Len(s) /\ r = s /\ t = Append(s, x)
  OBVIOUS
<1>3. /\ n \in Nat /\ Len(r) = n /\ Len(t) = n + 1 /\ t[n + 1] = x
      /\ \A i \in 1 .. n : r[i] = t[i]
      /\ s = <<>> <=> n = 0
  BY <1>2, AppendProperties
<1>4. FlattenSeq(t) = IF n = 0 THEN x ELSE Joined(FlattenSeq(r), x)
  BY <1>3, FlattenLonger
<1> QED BY <1>1, <1>2, <1>3, <1>4 DEF Joined

LEMMA FlattenType ==
  ASSUME NEW D
  PROVE  \A s \in Seq(Seq(D)) : FlattenSeq(s) \in Seq(D)
<1> DEFINE P == {s \in Seq(Seq(D)) : FlattenSeq(s) \in Seq(D)}
<1>1. <<>> \in P
  BY DEF FlattenSeq
<1>2. ASSUME NEW s \in Seq(Seq(D)), NEW x \in Seq(D), s \in P
      PROVE  Append(s, x) \in P
  <2>1. FlattenSeq(s) \o x \in Seq(D)
    BY <1>2, ConcatProperties
  <2>2. Append(s, x) \in Seq(Seq(D))
    OBVIOUS
  <2>3. FlattenSeq(Append(s, x)) = IF s = <<>> THEN x ELSE FlattenSeq(s) \o x
    BY FlattenAppend
  <2> QED BY <2>1, <2>2, <2>3
<1> HIDE DEF P
<1>3. \A s \in Seq(Seq(D)) : s \in P
  BY <1>1, <1>2, SeqInduct
<1> QED BY <1>3 DEF P

(* A sequence more, and any number of them.                                 *)
LEMMA FlattenMore ==
  ASSUME NEW D, NEW s \in Seq(Seq(D)), NEW x \in Seq(D)
  PROVE  FlattenSeq(Append(s, x)) = FlattenSeq(s) \o x
<1>1. CASE s = <<>>
  <2>1. FlattenSeq(s) = <<>>
    BY <1>1, FlattenAppend
  <2>2. <<>> \o x = x
    BY ConcatEmptySeq
  <2> QED BY <1>1, <2>1, <2>2, FlattenAppend
<1>2. CASE s # <<>>
  BY <1>2, FlattenAppend
<1> QED BY <1>1, <1>2

Mapped(f, s) == [i \in DOMAIN s |-> f[s[i]]]

MapsMore(f, D, E) ==
  \A s \in Seq(D), d \in D :
    /\ Mapped(f, s) \in Seq(E)
    /\ Mapped(f, Append(s, d)) = Append(Mapped(f, s), f[d])

LEMMA MappedMore ==
  ASSUME NEW D, NEW E, NEW f \in [D -> E]
  PROVE  MapsMore(f, D, E)
<1> SUFFICES ASSUME NEW s \in Seq(D), NEW d \in D
             PROVE  /\ Mapped(f, s) \in Seq(E)
                    /\ Mapped(f, Append(s, d)) = Append(Mapped(f, s), f[d])
  BY DEF MapsMore
<1>1. DOMAIN s = 1 .. Len(s) /\ Len(s) \in Nat
  OBVIOUS
<1>2. Mapped(f, s) \in Seq(E) /\ Len(Mapped(f, s)) = Len(s)
  BY <1>1 DEF Mapped
<1> DEFINE more == Append(s, d)
<1>3. /\ DOMAIN more = 1 .. Len(s) + 1 /\ more[Len(s) + 1] = d
      /\ \A i \in 1 .. Len(s) : more[i] = s[i]
  BY AppendProperties
<1>4. Mapped(f, more) = [i \in 1 .. Len(s) + 1 |-> f[more[i]]]
  BY <1>3 DEF Mapped
<1> DEFINE longer == Append(Mapped(f, s), f[d])
<1>5. f[d] \in E
  OBVIOUS
<1>6. /\ longer \in Seq(E) /\ Len(longer) = Len(s) + 1
      /\ longer[Len(s) + 1] = f[d]
      /\ \A i \in 1 .. Len(s) : longer[i] = Mapped(f, s)[i]
  BY <1>2, <1>5, AppendProperties
<1>7. \A i \in 1 .. Len(s) : Mapped(f, s)[i] = f[s[i]]
  BY <1>1 DEF Mapped
<1> HIDE DEF more, longer
<1>8. longer = [i \in 1 .. Len(s) + 1 |-> longer[i]]
  BY <1>6
<1>9. \A i \in 1 .. Len(s) + 1 : longer[i] = f[more[i]]
  <2> TAKE i \in 1 .. Len(s) + 1
  <2>1. CASE i = Len(s) + 1
    BY <2>1, <1>3, <1>6
  <2>2. CASE i \in 1 .. Len(s)
    BY <2>2, <1>3, <1>6, <1>7
  <2> QED BY <2>1, <2>2, <1>1
<1> QED BY <1>2, <1>4, <1>8, <1>9 DEF more, longer

(* A sequence, each of its elements turned into a sequence, in one.         *)
LEMMA FlattenMapped ==
  ASSUME NEW D, NEW E, NEW f \in [D -> Seq(E)]
  PROVE  /\ FlattenSeq(Mapped(f, <<>>)) = <<>>
         /\ \A s \in Seq(D) : FlattenSeq(Mapped(f, s)) \in Seq(E)
         /\ \A s \in Seq(D), d \in D :
              FlattenSeq(Mapped(f, Append(s, d))) = FlattenSeq(Mapped(f, s)) \o f[d]
<1>1. FlattenSeq(Mapped(f, <<>>)) = <<>>
  BY DEF Mapped, FlattenSeq
<1>2. ASSUME NEW s \in Seq(D), NEW d \in D
      PROVE  /\ Mapped(f, s) \in Seq(Seq(E))
             /\ Mapped(f, Append(s, d)) = Append(Mapped(f, s), f[d])
  <2>1. MapsMore(f, D, Seq(E))
    BY MappedMore
  <2> QED BY <2>1 DEF MapsMore
<1>3. ASSUME NEW s \in Seq(D), NEW d \in D
      PROVE  FlattenSeq(Mapped(f, Append(s, d))) = FlattenSeq(Mapped(f, s)) \o f[d]
  <2>1. f[d] \in Seq(E)
    OBVIOUS
  <2> QED BY <1>2, <2>1, FlattenMore
<1>4. ASSUME NEW s \in Seq(D) PROVE FlattenSeq(Mapped(f, s)) \in Seq(E)
  <2>1. CASE s = <<>>
    <3>1. <<>> \in Seq(E)
      OBVIOUS
    <3> QED BY <2>1, <3>1, <1>1, Zenon
  <2>2. CASE s # <<>>
    <3>1. s[1] \in D
      BY <2>2
    <3> QED BY <3>1, <1>2, FlattenType
  <2> QED BY <2>1, <2>2
<1> QED BY <1>1, <1>3, <1>4

-----------------------------------------------------------------------------
(* What the host writes and what the bridge doubles. *)

(* A sequence, each of its elements turned into a sequence by f, in one.    *)
Flat(f, s) == FlattenSeq(Mapped(f, s))

Flattened(f, D, E) ==
  /\ Flat(f, <<>>) = <<>>
  /\ \A s \in Seq(D) : Flat(f, s) \in Seq(E)
  /\ \A d \in D : Flat(f, <<d>>) = f[d]
  /\ \A s, t \in Seq(D) : Flat(f, s \o t) = Flat(f, s) \o Flat(f, t)

LEMMA FlatFacts ==
  ASSUME NEW D, NEW E, NEW f \in [D -> Seq(E)]
  PROVE  Flattened(f, D, E)
<1>1. /\ Flat(f, <<>>) = <<>>
      /\ \A s \in Seq(D) : Flat(f, s) \in Seq(E)
      /\ \A s \in Seq(D), d \in D : Flat(f, Append(s, d)) = Flat(f, s) \o f[d]
  BY FlattenMapped DEF Flat
<1> HIDE DEF Flat
<1>2. ASSUME NEW d \in D PROVE Flat(f, <<d>>) = f[d]
  <2>1. <<>> \in Seq(D) /\ Append(<<>>, d) = <<d>>
    OBVIOUS
  <2>2. Flat(f, <<d>>) = Flat(f, <<>>) \o f[d]
    BY <1>1, <2>1, Zenon
  <2>3. f[d] \in Seq(E)
    OBVIOUS
  <2> QED BY <1>1, <2>2, <2>3, ConcatEmptySeq
<1>3. ASSUME NEW s \in Seq(D)
      PROVE  \A t \in Seq(D) : Flat(f, s \o t) = Flat(f, s) \o Flat(f, t)
  <2> DEFINE P == {t \in Seq(D) : Flat(f, s \o t) = Flat(f, s) \o Flat(f, t)}
  <2>1. <<>> \in P
    <3>1. s \o <<>> = s /\ Flat(f, s) \o <<>> = Flat(f, s) /\ <<>> \in Seq(D)
      BY <1>1, ConcatEmptySeq
    <3> QED BY <3>1, <1>1
  <2>2. ASSUME NEW t \in Seq(D), NEW d \in D, t \in P PROVE Append(t, d) \in P
    <3>1. s \o Append(t, d) = Append(s \o t, d) /\ s \o t \in Seq(D) /\ Append(t, d) \in Seq(D)
      OBVIOUS
    <3>2. /\ Flat(f, s \o Append(t, d)) = Flat(f, s \o t) \o f[d]
          /\ Flat(f, Append(t, d)) = Flat(f, t) \o f[d]
      BY <3>1, <1>1
    <3>3. Flat(f, s) \in Seq(E) /\ Flat(f, t) \in Seq(E) /\ f[d] \in Seq(E)
      BY <1>1
    <3>4. (Flat(f, s) \o Flat(f, t)) \o f[d] = Flat(f, s) \o (Flat(f, t) \o f[d])
      BY <3>3, ConcatAssociative
    <3> QED BY <2>2, <3>1, <3>2, <3>4
  <2> HIDE DEF P
  <2>3. \A t \in Seq(D) : t \in P
    BY <2>1, <2>2, SeqInduct
  <2> QED BY <2>3 DEF P
<1> QED BY <1>1, <1>2, <1>3 DEF Flattened

-----------------------------------------------------------------------------
(* Types. *)

(* All lines there are, and what the target may say.                        *)
Names  == STRING \cup {"", "boot", "error"}
Kinds  == {"begin", "end", "cr", "space", "ok", "nl", "said", "line"}
Tokens == Kinds \X Names
Work   == Item \cup {Level(1), Level(-1)}

(* What the parts of the state may be, and what the goroutines know of each *)
(* other.                                                                   *)
MainInv ==
  /\ typed \in Seq(Item) /\ todo \in Seq(Work)
  /\ main \in {"starting", "running", "progress"}
  /\ progress \in Seq(BOOLEAN) /\ Len(progress) <= 1
  /\ main # "progress" => progress = <<>>
  /\ xpc # "select" => main = "progress" /\ progress = <<>>

ExchangeInv ==
  /\ xpc \in {"select", "echo", "prompt"}
  /\ xline \in Names /\ sent \in Seq(Names)
  /\ depth \in Int
  /\ collected \in Seq(Tokens)
  /\ xpc = "select" => collected = <<>>
  /\ xpc # "select" => sent # <<>>
  /\ xpc = "echo" => xline # "" /\ xline = sent[Len(sent)] /\ ~echoed

WireInv ==
  /\ link \in {"up", "down", "gone"}
  /\ tin \in Seq(Tokens) /\ tline \in Seq(Tokens) /\ tout \in Seq(Tokens)
  /\ wire \in Seq(Tokens) /\ emitted \in Seq(Tokens) /\ shown \in Seq(Tokens)
  /\ executed \in Seq(Seq(Tokens))
  /\ faults \in Nat

TypeInv == MainInv /\ ExchangeInv /\ WireInv

(* The items of the main goroutine's work.                                  *)
LEMMA WorkKinds ==
  ASSUME NEW item \in Work
  PROVE  /\ item.kind \in {"text", "include", "blank", "level"}
         /\ item.kind = "text" => item \in [kind : {"text"}, line : STRING] /\ item.line \in STRING
         /\ item.kind = "include" => item.files \in Seq(STRING)
         /\ item.kind = "level" => item \in {Level(1), Level(-1)} /\ item.n \in {1, -1}
         /\ item.kind # "level" => item \in Item
<1>1. CASE item \in [kind : {"text"}, line : STRING]
  BY <1>1 DEF Item
<1>2. CASE item \in [kind : {"include"}, files : Seq(STRING)]
  BY <1>2 DEF Item
<1>3. CASE item = Blank
  BY <1>3 DEF Item, Blank
<1>4. CASE item \in {Level(1), Level(-1)}
  BY <1>4 DEF Level
<1> QED BY <1>1, <1>2, <1>3, <1>4 DEF Work, Item

(* Tokens.                                                                  *)
LEMMA TokenTypes ==
  /\ CR \in Tokens /\ Space \in Tokens /\ Ok \in Tokens /\ NL \in Tokens
  /\ \A line \in Names : Said(line) \in Tokens
  /\ \A line \in Names : Begin(line) \in Tokens /\ End(line) \in Tokens
  /\ \A line \in Names : Input(line) \in Tokens
BY DEF Tokens, Kinds, Names, CR, Space, Ok, NL, Said, Begin, End, Input

LEMMA EchoType ==
  ASSUME NEW line \in Names
  PROVE  /\ Echo(line) \in Seq(Tokens)
         /\ line # "" => /\ Echo(line) = <<Begin(line), End(line)>>
                         /\ Len(Echo(line)) = 2
                         /\ Echo(line)[1] = Begin(line) /\ Echo(line)[2] = End(line)
         /\ line = "" => Echo(line) = <<>>
<1>1. Begin(line) \in Tokens /\ End(line) \in Tokens
  BY TokenTypes
<1>2. /\ line # "" => Echo(line) = <<Begin(line), End(line)>>
      /\ line = "" => Echo(line) = <<>>
  BY DEF Echo
<1>3. <<>> \in Seq(Tokens)
  OBVIOUS
<1>4. ASSUME NEW e, e = <<Begin(line), End(line)>>
      PROVE  e \in Seq(Tokens) /\ Len(e) = 2 /\ e[1] = Begin(line) /\ e[2] = End(line)
  BY <1>1, <1>4
<1> QED BY <1>2, <1>3, <1>4, Zenon

LEMMA LineType ==
  ASSUME NEW line \in Names
  PROVE  /\ Line(line) \in Seq(Tokens)
         /\ line # "" => Line(line) = <<Input(line)>>
         /\ line = "" => Line(line) = <<>>
<1>1. Input(line) \in Tokens
  BY TokenTypes
<1>2. /\ line # "" => Line(line) = <<Input(line)>>
      /\ line = "" => Line(line) = <<>>
  BY DEF Line
<1>3. <<Input(line)>> \in Seq(Tokens) /\ <<>> \in Seq(Tokens)
  BY <1>1
<1> QED BY <1>2, <1>3

LEMMA PromptType == /\ Prompt \in Seq(Tokens) /\ Len(Prompt) = 2 /\ Prompt[1] = Ok /\ Prompt[2] = NL
BY TokenTypes DEF Prompt

LEMMA OutputType ==
  ASSUME NEW line \in DOMAIN Output
  PROVE  /\ line \in Names
         /\ Output[line] \in Seq(Tokens)
         /\ \A i \in 1 .. Len(Output[line]) : Output[line][i] \in {Said(line), NL}
<1>1. line \in STRING /\ Output[line] \in Seq({Said(line), NL})
  BY ConsoleAssumption
<1>2. line \in Names
  BY <1>1 DEF Names
<1>3. Said(line) \in Tokens /\ NL \in Tokens
  BY <1>2, TokenTypes
<1> QED BY <1>1, <1>2, <1>3

(* Two sequences in one.                                                    *)
LEMMA ConcatAt ==
  ASSUME NEW D, NEW s \in Seq(D), NEW t \in Seq(D)
  PROVE  /\ s \o t \in Seq(D)
         /\ Len(s \o t) = Len(s) + Len(t)
         /\ \A i \in 1 .. Len(s) : (s \o t)[i] = s[i]
         /\ \A i \in 1 .. Len(t) : (s \o t)[Len(s) + i] = t[i]
<1>1. PICK m \in Nat, n \in Nat : m = Len(s) /\ n = Len(t)
  OBVIOUS
<1>2. /\ s \o t \in Seq(D) /\ Len(s \o t) = Len(s) + Len(t)
      /\ \A i \in 1 .. m + n : (s \o t)[i] = IF i <= m THEN s[i] ELSE t[i - m]
  BY <1>1, ConcatProperties
<1>3. ASSUME NEW i \in 1 .. m PROVE (s \o t)[i] = s[i]
  <2>1. i \in 1 .. m + n /\ i <= m
    OBVIOUS
  <2> QED BY <1>2, <2>1
<1>4. ASSUME NEW i \in 1 .. n PROVE (s \o t)[m + i] = t[i]
  <2>1. m + i \in 1 .. m + n /\ ~(m + i <= m) /\ (m + i) - m = i
    OBVIOUS
  <2> QED BY <1>2, <2>1
<1> QED BY <1>1, <1>2, <1>3, <1>4

(* What the target answers: whatever it is, a new line is the end, and a    *)
(* prompt stands only before it.                                            *)
LEMMA AnswerFacts ==
  ASSUME NEW input
  PROVE  /\ Answer(input) \in Seq(Tokens)
         /\ Len(Answer(input)) >= 2
         /\ \A i \in 1 .. Len(Answer(input)) :
              /\ Answer(input)[i] = Ok => i = Len(Answer(input)) - 1
              /\ Answer(input)[i][1] \in {"said", "ok", "nl"}
<1>1. CASE \E line \in DOMAIN Output : input = Echo(line)
  <2> DEFINE line == CHOOSE line \in DOMAIN Output : input = Echo(line)
  <2>1. line \in DOMAIN Output
    BY <1>1
  <2>2. Answer(input) = Output[line] \o IF line \in Fails THEN <<Said(line), NL>> ELSE <<Ok, NL>>
    BY <1>1 DEF Answer
  <2> HIDE DEF line
  <2>3. /\ Said(line) \in Tokens /\ NL \in Tokens /\ Ok \in Tokens
        /\ Output[line] \in Seq(Tokens)
        /\ \A i \in 1 .. Len(Output[line]) : Output[line][i] \in {Said(line), NL}
    BY <2>1, OutputType, TokenTypes
  <2>4. /\ Said(line)[1] = "said" /\ NL[1] = "nl" /\ Ok[1] = "ok"
        /\ Said(line) # Ok /\ NL # Ok
    BY DEF Said, NL, Ok
  <2>5. PICK e \in Seq(Tokens) :
           /\ Len(e) = 2 /\ e[1] \in {Said(line), Ok} /\ e[2] = NL
           /\ Answer(input) = Output[line] \o e
    <3>1. CASE line \in Fails
      <4>1. <<Said(line), NL>> \in Seq(Tokens)
        BY <2>3
      <4> QED BY <4>1, <3>1, <2>2
    <3>2. CASE line \notin Fails
      <4>1. <<Ok, NL>> \in Seq(Tokens)
        BY <2>3
      <4> QED BY <4>1, <3>2, <2>2
    <3> QED BY <3>1, <3>2
  <2> DEFINE o == Output[line]
             a == Answer(input)
  <2>6. /\ a \in Seq(Tokens) /\ Len(a) = Len(o) + 2 /\ Len(o) \in Nat
        /\ \A i \in 1 .. Len(o) : a[i] = o[i]
        /\ a[Len(o) + 1] = e[1] /\ a[Len(o) + 2] = e[2]
    <3>1. o \in Seq(Tokens) /\ Len(o) \in Nat /\ a = o \o e /\ e \in Seq(Tokens)
      BY <2>3, <2>5
    <3>2. 1 \in 1 .. Len(e) /\ 2 \in 1 .. Len(e) /\ Len(e) = 2
      BY <2>5
    <3> HIDE DEF o, a
    <3>3. /\ o \o e \in Seq(Tokens) /\ Len(o \o e) = Len(o) + Len(e)
          /\ \A i \in 1 .. Len(o) : (o \o e)[i] = o[i]
          /\ \A i \in 1 .. Len(e) : (o \o e)[Len(o) + i] = e[i]
      BY <3>1, ConcatAt
    <3> QED BY <3>1, <3>2, <3>3
  <2>7. ASSUME NEW i \in 1 .. Len(a)
        PROVE  /\ a[i] = Ok => i = Len(a) - 1
               /\ a[i][1] \in {"said", "ok", "nl"}
    <3>1. CASE i \in 1 .. Len(o)
      <4>1. a[i] \in {Said(line), NL}
        BY <3>1, <2>3, <2>6
      <4> QED BY <4>1, <2>4
    <3>2. CASE i = Len(o) + 1
      BY <3>2, <2>4, <2>5, <2>6
    <3>3. CASE i = Len(o) + 2
      BY <3>3, <2>4, <2>5, <2>6
    <3> QED BY <3>1, <3>2, <3>3, <2>6
  <2>8. Len(a) >= 2
    BY <2>6
  <2>9. a \in Seq(Tokens)
    BY <2>6
  <2> HIDE DEF o
  <2> QED BY <2>7, <2>8, <2>9, Zenon
<1>2. CASE ~\E line \in DOMAIN Output : input = Echo(line)
  <2>1. Answer(input) = <<Said("error"), NL>>
    BY <1>2 DEF Answer
  <2>2. Said("error") \in Tokens /\ NL \in Tokens
    BY TokenTypes DEF Names
  <2>3. Said("error")[1] = "said" /\ NL[1] = "nl" /\ Said("error") # Ok /\ NL # Ok
    BY DEF Said, NL, Ok
  <2> QED BY <2>1, <2>2, <2>3
<1> QED BY <1>1, <1>2

(* A sequence in two parts.                                                 *)
LEMMA Cut ==
  ASSUME NEW D, NEW s \in Seq(D), NEW n \in 0 .. Len(s)
  PROVE  /\ SubSeq(s, 1, n) \in Seq(D) /\ SubSeq(s, n + 1, Len(s)) \in Seq(D)
         /\ Len(SubSeq(s, 1, n)) = n /\ Len(SubSeq(s, n + 1, Len(s))) = Len(s) - n
         /\ \A i \in 1 .. n : SubSeq(s, 1, n)[i] = s[i]
         /\ \A i \in 1 .. Len(s) - n : SubSeq(s, n + 1, Len(s))[i] = s[n + i]
         /\ SubSeq(s, 1, n) \o SubSeq(s, n + 1, Len(s)) = s
<1>1. /\ SubSeq(s, 1, n) \in Seq(D) /\ Len(SubSeq(s, 1, n)) = n
      /\ \A i \in 1 .. n : SubSeq(s, 1, n)[i] = s[i]
  OBVIOUS
<1>2. /\ SubSeq(s, n + 1, Len(s)) \in Seq(D) /\ Len(SubSeq(s, n + 1, Len(s))) = Len(s) - n
      /\ \A i \in 1 .. Len(s) - n : SubSeq(s, n + 1, Len(s))[i] = s[n + i]
  OBVIOUS
<1>3. SubSeq(s, 1, n) \o SubSeq(s, n + 1, Len(s)) = s
  <2>1. SubSeq(s, 1, Len(s)) = s
    BY SubSeqFull
  <2>2. 1 \in 1 .. Len(s) + 1 /\ n \in 1 - 1 .. Len(s) /\ Len(s) \in n .. Len(s)
    OBVIOUS
  <2> QED BY <2>1, <2>2, ConcatAdjacentSubSeq
<1> QED BY <1>1, <1>2, <1>3

LEMMA Joins ==
  ASSUME NEW D, NEW s \in Seq(D), NEW t \in Seq(D)
  PROVE  s \o t \in Seq(D)
BY ConcatProperties

LEMMA Pair ==
  ASSUME NEW D, NEW s \in D, NEW t \in D
  PROVE  <<s, t>> = <<s>> \o <<t>> /\ <<s>> \in Seq(D) /\ <<t>> \in Seq(D)
<1>1. PICK r, a, b : r = <<s, t>> /\ a = <<s>> /\ b = <<t>>
  OBVIOUS
<1>2. /\ r \in Seq(D) /\ a \in Seq(D) /\ b \in Seq(D)
      /\ Len(r) = 2 /\ Len(a) = 1 /\ Len(b) = 1
      /\ r[1] = s /\ r[2] = t /\ a[1] = s /\ b[1] = t
  BY <1>1
<1>3. /\ a \o b \in Seq(D) /\ Len(a \o b) = Len(a) + Len(b)
      /\ \A i \in 1 .. Len(a) : (a \o b)[i] = a[i]
      /\ \A i \in 1 .. Len(b) : (a \o b)[Len(a) + i] = b[i]
  BY <1>2, ConcatAt
<1>4. Len(a \o b) = 2 /\ (a \o b)[1] = s /\ (a \o b)[1 + 1] = t
  BY <1>2, <1>3
<1>5. \A i \in 1 .. 2 : r[i] = (a \o b)[i]
  BY <1>2, <1>4
<1>6. r = a \o b
  BY <1>2, <1>3, <1>4, <1>5, SeqEqual
<1> QED BY <1>1, <1>2, <1>6

(* Three in one, as a whole for the provers.                                *)
Grouped(s, t, u) == (s \o t) \o u = s \o (t \o u)

LEMMA Regroup ==
  ASSUME NEW s \in Seq(Tokens), NEW t \in Seq(Tokens), NEW u \in Seq(Tokens)
  PROVE  Grouped(s, t, u)
BY ConcatAssociative DEF Grouped

LEMMA FlushedType ==
  ASSUME NEW all \in Seq(Tokens)
  PROVE  Flushed(all) \in 0 .. Len(all)
<1> DEFINE ends == {i \in 1 .. Len(all) : all[i] = NL}
<1>1. CASE ends = {}
  <2>1. Flushed(all) = 0 /\ 0 \in 0 .. Len(all)
    BY <1>1 DEF Flushed
  <2> QED BY <2>1
<1>2. CASE ends # {}
  <2>1. PICK N \in Nat : N = Len(all)
    OBVIOUS
  <2>2. \E i \in ends : \A j \in ends : j <= i
    <3> DEFINE P == {n \in 0 .. N : (\E i \in ends : i <= n) =>
                                       \E i \in ends : i <= n /\ \A j \in ends : j <= n => j <= i}
    <3>1. 0 \in P
      BY <2>1
    <3>2. ASSUME NEW n \in 0 .. N - 1, n \in P PROVE n + 1 \in P
      <4>1. CASE n + 1 \in ends
        <5>1. n + 1 <= n + 1 /\ \A j \in ends : j <= n + 1 => j <= n + 1
          OBVIOUS
        <5> QED BY <4>1, <5>1
      <4>2. CASE n + 1 \notin ends
        <5>1. \A j \in ends : j <= n + 1 => j <= n
          BY <4>2
        <5>2. \A j \in ends : j <= n => j <= n + 1
          OBVIOUS
        <5>3. SUFFICES ASSUME \E i \in ends : i <= n + 1
                       PROVE  \E i \in ends : i <= n + 1 /\ \A j \in ends : j <= n + 1 => j <= i
          OBVIOUS
        <5>4. \E i \in ends : i <= n
          BY <5>1, <5>3
        <5>5. PICK i \in ends : i <= n /\ \A j \in ends : j <= n => j <= i
          BY <5>4, <3>2
        <5> QED BY <5>1, <5>2, <5>5
      <4> QED BY <4>1, <4>2
    <3> HIDE DEF P, ends
    <3>3. \A n \in 0 .. N : n \in P
      BY <3>1, <3>2, NatInduct
    <3>4. N \in P
      BY <3>3
    <3>5. (\E i \in ends : i <= N) =>
             \E i \in ends : i <= N /\ \A j \in ends : j <= N => j <= i
      BY <3>4 DEF P
    <3> QED BY <3>5, <2>1, <1>2 DEF ends
  <2>3. Flushed(all) \in ends
    BY <1>2, <2>2 DEF Flushed
  <2> QED BY <2>1, <2>3
<1> QED BY <1>1, <1>2

-----------------------------------------------------------------------------
(* TypeInv. *)

(* What a file is replaced by.                                              *)
LEMMA ContentType ==
  ASSUME NEW f
  PROVE  Content(f) \in Seq(Item) /\ doInclude(f) \in Seq(Work)
<1>1. Content(f) \in Seq(Item)
  <2>1. f \in DOMAIN Files => Files[f] \in Seq(Item)
    BY Zenon, ConsoleAssumption
  <2>2. <<>> \in Seq(Item)
    OBVIOUS
  <2> QED BY <2>1, <2>2, Zenon DEF Content
<1>2. Content(f) \in Seq(Work)
  BY <1>1 DEF Work
<1>3. <<Level(1)>> \in Seq(Work) /\ <<Level(-1)>> \in Seq(Work)
  BY DEF Work
<1>4. <<Level(1)>> \o Content(f) \in Seq(Work) /\ <<>> \in Seq(Work)
  BY <1>2, <1>3, Joins
<1>5. (<<Level(1)>> \o Content(f)) \o <<Level(-1)>> \in Seq(Work)
  BY <1>3, <1>4, Joins
<1> QED BY <1>1, <1>4, <1>5 DEF doInclude

LEMMA InitTypes == Init => TypeInv
<1> SUFFICES ASSUME Init PROVE TypeInv
  OBVIOUS
<1>1. Said("boot") \in Tokens /\ "" \in Names
  <2>1. "boot" \in Names /\ "" \in Names
    BY DEF Names
  <2> QED BY <2>1, TokenTypes, Zenon
<1>2. MainInv
  <2>1. <<>> \in Seq(Work) /\ <<>> \in Seq(BOOLEAN) /\ Len(<<>>) <= 1
    OBVIOUS
  <2> QED BY <2>1, ConsoleAssumption DEF Init, MainInv
<1>3. ExchangeInv
  <2>1. <<>> \in Seq(Names) /\ <<>> \in Seq(Tokens)
    OBVIOUS
  <2>2. depth = 0 /\ xpc = "select"
    BY Zenon DEF Init
  <2>3. depth \in Int
    BY <2>2
  <2>4. xline \in Names /\ sent \in Seq(Names) /\ collected \in Seq(Tokens) /\ collected = <<>>
    BY <1>1, <2>1, Zenon DEF Init
  <2> QED BY <2>2, <2>3, <2>4 DEF ExchangeInv
<1>4. WireInv
  <2>1. <<Said("boot")>> \in Seq(Tokens) /\ <<>> \in Seq(Tokens) /\ <<>> \in Seq(Seq(Tokens))
    <3>1. ASSUME NEW t \in Tokens PROVE <<t>> \in Seq(Tokens)
      OBVIOUS
    <3>2. <<>> \in Seq(Tokens) /\ <<>> \in Seq(Seq(Tokens))
      OBVIOUS
    <3> QED BY <1>1, <3>1, <3>2, Zenon
  <2>2. faults \in Nat /\ link = "up"
    BY DEF Init
  <2>3. /\ tin \in Seq(Tokens) /\ tline \in Seq(Tokens) /\ tout \in Seq(Tokens)
        /\ wire \in Seq(Tokens) /\ emitted \in Seq(Tokens) /\ shown \in Seq(Tokens)
        /\ executed \in Seq(Seq(Tokens))
    BY <2>1, Zenon DEF Init
  <2> QED BY <2>2, <2>3 DEF WireInv
<1> QED BY <1>2, <1>3, <1>4 DEF TypeInv

LEMMA SendTypes ==
  ASSUME WireInv, NEW tokens \in Seq(Tokens), tokens # <<>>, serialSend(tokens)
  PROVE  tin' \in Seq(Tokens) /\ link' \in {"up", "down", "gone"}
<1>1. CASE link = "up"
  <2>1. /\ tin' \in IF Busy THEN {tin, Append(tin, Last(tokens)), tin \o tokens}
                    ELSE {tin \o tokens}
        /\ UNCHANGED link
    BY <1>1 DEF serialSend
  <2>2. Last(tokens) \in Tokens
    BY DEF Last
  <2>3. tin \o tokens \in Seq(Tokens) /\ Append(tin, Last(tokens)) \in Seq(Tokens)
    BY <2>2, Joins DEF WireInv
  <2>4. tin' \in {tin, Append(tin, Last(tokens)), tin \o tokens}
    BY <2>1
  <2> QED BY <2>1, <2>3, <2>4 DEF WireInv
<1>2. CASE link # "up"
  BY <1>2 DEF serialSend, WireInv
<1> QED BY <1>1, <1>2

LEMMA EmitTypes ==
  ASSUME WireInv, NEW t \in Tokens, Emit(<<t>>)
  PROVE  wire' \in Seq(Tokens) /\ emitted' \in Seq(Tokens)
<1>1. <<t>> \in Seq(Tokens)
  OBVIOUS
<1>2. wire \in Seq(Tokens) /\ emitted \in Seq(Tokens)
  BY DEF WireInv
<1>3. wire \o <<t>> \in Seq(Tokens) /\ emitted \o <<t>> \in Seq(Tokens)
  BY <1>1, <1>2, Joins
<1> QED BY <1>2, <1>3 DEF Emit

LEMMA ChunkTypes ==
  ASSUME WireInv, NEW n \in 1 .. Len(wire), NEW data, Chunk(data, n)
  PROVE  /\ data \in Seq(Tokens) /\ wire' \in Seq(Tokens) /\ wire = data \o wire'
         /\ Len(data) = n /\ UNCHANGED faults
<1>1. n \in 0 .. Len(wire) /\ wire \in Seq(Tokens)
  BY DEF WireInv
<1>2. data = SubSeq(wire, 1, n) /\ wire' = SubSeq(wire, n + 1, Len(wire)) /\ UNCHANGED faults
  BY DEF Chunk
<1> QED BY <1>1, <1>2, Cut

LEMMA TargetTypes == TypeInv /\ Target => TypeInv'
<1> SUFFICES ASSUME TypeInv, Target PROVE TypeInv'
  OBVIOUS
<1> USE DEF TypeInv
<1>1. CASE TargetReads
  <2>1. Head(tin) \in Tokens /\ Tail(tin) \in Seq(Tokens)
    BY <1>1 DEF TargetReads, WireInv
  <2>2. <<Space>> \o Answer(tline) \in Seq(Tokens)
    <3>1. <<Space>> \in Seq(Tokens)
      BY TokenTypes
    <3> QED BY <3>1, AnswerFacts, Joins
  <2>3. tout' \in Seq(Tokens) /\ tline' \in Seq(Tokens) /\ executed' \in Seq(Seq(Tokens))
    <3>0. /\ tline \in Seq(Tokens) /\ tout \in Seq(Tokens)
          /\ executed \in Seq(Seq(Tokens))
      BY DEF WireInv
    <3>1. CASE Head(tin) = CR
      <4>1. Append(executed, tline) \in Seq(Seq(Tokens))
        BY <3>0
      <4>2. <<>> \in Seq(Tokens)
        OBVIOUS
      <4> QED BY <3>1, <4>1, <4>2, <1>1, <2>2 DEF TargetReads
    <3>2. CASE Head(tin) # CR
      <4>1. Append(tline, Head(tin)) \in Seq(Tokens)
        BY <2>1, <3>0
      <4> QED BY <3>0, <3>2, <4>1, <1>1 DEF TargetReads
    <3> QED BY <3>1, <3>2
  <2>4. wire' \in Seq(Tokens) /\ emitted' \in Seq(Tokens)
    <3>1. CASE Head(tin) = CR
      BY <3>1, <1>1 DEF TargetReads, WireInv
    <3>2. CASE Head(tin) # CR
      BY <3>2, <1>1, <2>1, EmitTypes DEF TargetReads
    <3> QED BY <3>1, <3>2
  <2> QED BY <1>1, <2>1, <2>3, <2>4 DEF TargetReads, MainInv, ExchangeInv, WireInv,
                                        mainVars, exchangeVars
<1>2. CASE TargetSends
  <2>1. Head(tout) \in Tokens /\ Tail(tout) \in Seq(Tokens)
    BY <1>2 DEF TargetSends, WireInv
  <2>2. wire' \in Seq(Tokens) /\ emitted' \in Seq(Tokens)
    BY <1>2, <2>1, EmitTypes DEF TargetSends
  <2> QED BY <1>2, <2>1, <2>2 DEF TargetSends, MainInv, ExchangeInv, WireInv,
                                   mainVars, exchangeVars
<1> QED BY <1>1, <1>2 DEF Target

LEMMA LinkTypes == TypeInv /\ (Unplug \/ Reconnect) => TypeInv'
<1> SUFFICES ASSUME TypeInv, Unplug \/ Reconnect PROVE TypeInv'
  OBVIOUS
<1> USE DEF TypeInv
<1>1. CASE Unplug
  <2>1. SubSeq(emitted, 1, Len(emitted) - Len(wire)) \in Seq(Tokens)
    BY DEF WireInv
  <2>2. <<>> \in Seq(Tokens)
    OBVIOUS
  <2>3. MainInv' /\ ExchangeInv'
    BY <1>1 DEF Unplug, MainInv, ExchangeInv, mainVars, exchangeVars
  <2>4. faults' \in Nat
    BY <1>1 DEF Unplug, WireInv
  <2>5. WireInv'
    BY <1>1, <2>1, <2>2, <2>4 DEF Unplug, WireInv
  <2> QED BY <2>3, <2>5
<1>2. CASE Reconnect
  BY <1>2 DEF Reconnect, MainInv, ExchangeInv, WireInv, mainVars, exchangeVars, targetVars
<1> QED BY <1>1, <1>2

LEMMA MainTypes == TypeInv /\ (Starts \/ Readline \/ Walk \/ TakeProgress) => TypeInv'
<1> SUFFICES ASSUME TypeInv, Starts \/ Readline \/ Walk \/ TakeProgress PROVE TypeInv'
  OBVIOUS
<1> USE DEF TypeInv
<1>1. CASE Starts
  <2>1. xpc = "select"
    BY <1>1 DEF Starts, MainInv, ExchangeInv
  <2>2. wire' \in Seq(Tokens) /\ emitted' \in Seq(Tokens) /\ faults' \in Nat
    <3>1. CASE TimeOut /\ UNCHANGED emitted
      BY <3>1 DEF TimeOut, WireInv
    <3>2. ASSUME NEW n \in 1 .. Len(wire), Chunk(SubSeq(wire, 1, n), n),
                 emitted' = SubSeq(emitted, 1, Len(emitted) - Len(wire)) \o wire'
          PROVE  wire' \in Seq(Tokens) /\ emitted' \in Seq(Tokens) /\ faults' \in Nat
      <4>1. wire' \in Seq(Tokens) /\ UNCHANGED faults
        BY <3>2, ChunkTypes
      <4>2. SubSeq(emitted, 1, Len(emitted) - Len(wire)) \in Seq(Tokens)
        BY DEF WireInv
      <4> QED BY <4>1, <4>2, <3>2, Joins DEF WireInv
    <3> QED BY <3>1, <3>2, <1>1 DEF Starts
  <2> QED BY <1>1, <2>1, <2>2 DEF Starts, MainInv, ExchangeInv, WireInv, exchangeVars, targetVars
<1>2. CASE Readline
  <2>1. Head(typed) \in Item /\ Tail(typed) \in Seq(Item)
    BY <1>2 DEF Readline, MainInv
  <2>2. todo' \in Seq(Work)
    BY <1>2, <2>1 DEF Readline, Work
  <2> QED BY <1>2, <2>1, <2>2 DEF Readline, MainInv, ExchangeInv, WireInv,
                                        exchangeVars, targetVars
<1>3. CASE Walk
  <2>1. todo' \in Seq(Work)
    <3>1. Head(todo) \in Work /\ Tail(todo) \in Seq(Work)
      <4>1. todo \in Seq(Work) /\ todo # <<>>
        BY <1>3 DEF Walk, MainInv
      <4> QED BY <4>1
    <3>2. CASE Head(todo).kind = "blank" /\ todo' = Tail(todo)
      BY <3>1, <3>2
    <3>3. CASE Head(todo).kind = "include"
      <4> DEFINE files == Head(todo).files
      <4>1. files \in Seq(STRING)
        BY <3>1, <3>3, WorkKinds
      <4>2. todo' = IF files = <<>> THEN Tail(todo)
                    ELSE doInclude(Head(files)) \o <<Include(Tail(files))>> \o Tail(todo)
        BY <1>3, <3>3 DEF Walk
      <4>3. CASE files = <<>>
        BY <3>1, <4>2, <4>3
      <4>4. CASE files # <<>>
        <5>1. Tail(files) \in Seq(STRING) /\ Head(files) \in STRING
          <6> HIDE DEF files
          <6> QED BY <4>1, <4>4
        <5>2. Include(Tail(files)) \in Work
          BY <5>1 DEF Work, Item, Include
        <5>3. <<Include(Tail(files))>> \in Seq(Work)
          BY <5>2
        <5>4. doInclude(Head(files)) \in Seq(Work)
          BY ContentType
        <5> QED BY <3>1, <4>2, <4>4, <5>3, <5>4, Joins
      <4> QED BY <4>3, <4>4
    <3> QED BY <3>2, <3>3, <1>3 DEF Walk
  <2> QED BY <1>3, <2>1 DEF Walk, MainInv, ExchangeInv, WireInv, exchangeVars, targetVars
<1>4. CASE TakeProgress
  <2>1. xpc = "select" /\ progress' = <<>>
    <3>1. progress \in Seq(BOOLEAN) /\ Len(progress) <= 1 /\ progress # <<>>
      BY <1>4 DEF TakeProgress, MainInv
    <3>2. Tail(progress) = <<>>
      BY <3>1
    <3> QED BY <3>1, <3>2, <1>4 DEF TakeProgress, MainInv
  <2> QED BY <1>4, <2>1 DEF TakeProgress, MainInv, ExchangeInv, WireInv, exchangeVars, targetVars
<1> QED BY <1>1, <1>2, <1>3, <1>4

LEMMA SelectTypes == TypeInv /\ (PassOn \/ TakeLine \/ TakeLevel) => TypeInv'
<1> SUFFICES ASSUME TypeInv, PassOn \/ TakeLine \/ TakeLevel PROVE TypeInv'
  OBVIOUS
<1> USE DEF TypeInv
<1>1. CASE PassOn
  <2>1. PICK n, data : n \in 1 .. Len(wire) /\ Chunk(data, n) /\ Show(data)
    BY <1>1 DEF PassOn
  <2>2. data \in Seq(Tokens) /\ wire' \in Seq(Tokens) /\ UNCHANGED faults
    BY <2>1, ChunkTypes
  <2>3. shown' \in Seq(Tokens)
    BY <2>1, <2>2, Joins DEF Show, WireInv
  <2> QED BY <1>1, <2>2, <2>3 DEF PassOn, MainInv, ExchangeInv, WireInv,
                                   mainVars, exchangeVars, targetVars
<1>2. CASE TakeLine
  <2>1. todo \in Seq(Work) /\ todo # <<>> /\ Head(todo).kind = "text"
    BY <1>2 DEF TakeLine, MainInv
  <2>2. Head(todo) \in Work /\ Tail(todo) \in Seq(Work)
    BY <2>1
  <2>3. Head(todo).line \in STRING
    BY <2>1, <2>2, WorkKinds
  <2>4. xline' \in Names /\ xline' = Head(todo).line
    BY <1>2, <2>3 DEF TakeLine, Names
  <2>5. /\ sent' = Append(sent, xline') /\ sent \in Seq(Names)
    BY <1>2 DEF TakeLine, ExchangeInv
  <2>6. /\ sent' \in Seq(Names) /\ sent' # <<>> /\ sent'[Len(sent')] = xline'
    BY <2>4, <2>5
  <2>7. tin' \in Seq(Tokens) /\ link' \in {"up", "down", "gone"}
    <3>1. CASE xline' # ""
      <4>1. serialSend(Echo(xline'))
        BY <1>2, <3>1 DEF TakeLine
      <4>2. Echo(xline') \in Seq(Tokens) /\ Len(Echo(xline')) = 2
        BY <2>4, <3>1, EchoType
      <4>3. Echo(xline') # <<>>
        BY <4>2
      <4> QED BY <4>1, <4>2, <4>3, SendTypes
    <3>2. CASE xline' = ""
      <4>1. serialSend(<<CR>>)
        BY <1>2, <3>2 DEF TakeLine
      <4>2. <<CR>> \in Seq(Tokens) /\ <<CR>> # <<>>
        BY TokenTypes
      <4> QED BY <4>1, <4>2, SendTypes
    <3> QED BY <3>1, <3>2
  <2>8. MainInv'
    <3>1. progress = <<>> /\ main' = "progress"
      BY <1>2 DEF TakeLine, MainInv
    <3> QED BY <1>2, <2>2, <3>1 DEF TakeLine, MainInv
  <2>9. ExchangeInv'
    <3>2. /\ echoed' = FALSE /\ depth' = depth /\ depth \in Int /\ collected' = <<>>
          /\ xpc' \in {"echo", "prompt"} /\ (xpc' = "echo" => xline' # "")
      BY <1>2 DEF TakeLine, ExchangeInv
    <3>3. <<>> \in Seq(Tokens)
      OBVIOUS
    <3>4. collected' \in Seq(Tokens) /\ ~echoed' /\ depth' \in Int
      BY <3>2, <3>3, Zenon
    <3> QED BY <2>4, <2>6, <3>2, <3>4 DEF ExchangeInv
  <2>10. WireInv'
    BY <1>2, <2>7 DEF TakeLine, WireInv
  <2> QED BY <2>8, <2>9, <2>10
<1>3. CASE TakeLevel
  <2>1. todo \in Seq(Work) /\ todo # <<>> /\ Head(todo).kind = "level"
    BY <1>3 DEF TakeLevel, MainInv
  <2>2. Head(todo) \in Work /\ Tail(todo) \in Seq(Work)
    BY <2>1
  <2>3. Head(todo).n \in {1, -1}
    BY <2>1, <2>2, WorkKinds
  <2>4. depth' \in Int
    BY <1>3, <2>3 DEF TakeLevel, ExchangeInv
  <2> QED BY <1>3, <2>2, <2>4 DEF TakeLevel, MainInv, ExchangeInv, WireInv, targetVars
<1> QED BY <1>1, <1>2, <1>3

(* What serialExchange collects, cut where it likes.                        *)
LEMMA CollectedType ==
  ASSUME TypeInv, NEW data \in Seq(Tokens)
  PROVE  /\ collected \o data \in Seq(Tokens)
         /\ \A n \in 0 .. Len(collected \o data) :
              /\ SubSeq(collected \o data, 1, n) \in Seq(Tokens)
              /\ SubSeq(collected \o data, n + 1, Len(collected \o data)) \in Seq(Tokens)
<1>1. collected \o data \in Seq(Tokens)
  BY Joins DEF TypeInv, ExchangeInv
<1> QED BY <1>1, Cut

(* The other way round.                                                     *)
LEMMA ReverseFacts ==
  ASSUME NEW D, NEW s \in Seq(D)
  PROVE  /\ Reverse(s) \in Seq(D) /\ Len(Reverse(s)) = Len(s)
         /\ \A i \in 1 .. Len(s) : Reverse(s)[i] = s[(Len(s) - i) + 1]
<1>1. PICK n \in Nat : n = Len(s)
  OBVIOUS
<1>2. Reverse(s) = [i \in 1 .. n |-> s[(n - i) + 1]]
  BY <1>1 DEF Reverse
<1>3. \A i \in 1 .. n : s[(n - i) + 1] \in D
  <2> TAKE i \in 1 .. n
  <2>1. (n - i) + 1 \in 1 .. Len(s)
    BY <1>1
  <2> QED BY <2>1
<1> DEFINE r == [i \in 1 .. n |-> s[(n - i) + 1]]
<1>4. r \in [1 .. n -> D] /\ \A i \in 1 .. n : r[i] = s[(n - i) + 1]
  BY <1>3
<1> HIDE DEF r
<1>5. r \in Seq(D) /\ Len(r) = n
  BY <1>4
<1> QED BY <1>1, <1>2, <1>4, <1>5 DEF r

(* Whatever ends with both halves of an echo, or with a prompt, does so in  *)
(* its last two tokens.                                                     *)
LEMMA EndsInTwo ==
  ASSUME NEW all \in Seq(Tokens), NEW end \in Seq(Tokens), Len(end) = 2, IsSuffix(end, all)
  PROVE  /\ Len(all) >= 2 /\ Len(all) - 2 \in 0 .. Len(all)
         /\ all = SubSeq(all, 1, Len(all) - 2) \o end
         /\ all[Len(all)] = end[2] /\ all[Len(all) - 1] = end[1]
<1>1. IsPrefix(Reverse(end), Reverse(all))
  BY DEF IsSuffix
<1>2. /\ Len(Reverse(end)) = 2 /\ Len(Reverse(all)) = Len(all)
      /\ Reverse(end) \in Seq(Tokens) /\ Reverse(all) \in Seq(Tokens)
      /\ \A i \in 1 .. Len(all) : Reverse(all)[i] = all[(Len(all) - i) + 1]
      /\ \A i \in 1 .. 2 : Reverse(end)[i] = end[(2 - i) + 1]
  <2>1. \A s \in Seq(Tokens) :
           /\ Reverse(s) \in Seq(Tokens) /\ Len(Reverse(s)) = Len(s)
           /\ \A i \in 1 .. Len(s) : Reverse(s)[i] = s[(Len(s) - i) + 1]
    BY ReverseFacts
  <2> QED BY <2>1
<1>3. /\ Len(all) >= 2
      /\ \A i \in 1 .. 2 : Reverse(end)[i] = Reverse(all)[i]
  <2>1. PICK s, t, n : /\ s = Reverse(end) /\ t = Reverse(all) /\ n = Len(all)
                        /\ s \in Seq(Tokens) /\ t \in Seq(Tokens)
                        /\ Len(s) = 2 /\ Len(t) = n /\ n \in Nat
    BY <1>2
  <2>2. 2 <= n /\ SubSeq(s, 1, 2) = SubSeq(t, 1, 2)
    BY <1>1, <2>1 DEF IsPrefix
  <2>3. \A i \in 1 .. 2 : SubSeq(s, 1, 2)[i] = s[i] /\ SubSeq(t, 1, 2)[i] = t[i]
    <3>1. 2 \in 0 .. Len(s) /\ 2 \in 0 .. Len(t)
      BY <2>1, <2>2
    <3> QED BY <2>1, <3>1, Cut
  <2> QED BY <2>1, <2>2, <2>3
<1>4. PICK m \in Nat : m = Len(all) - 2 /\ m + 2 = Len(all)
  BY <1>3
<1>5. all[m + 2] = end[2] /\ all[m + 1] = end[1]
  <2>1. /\ 1 \in 1 .. 2 /\ 2 \in 1 .. 2 /\ (2 - 1) + 1 = 2 /\ (2 - 2) + 1 = 1
        /\ (Len(all) - 1) + 1 = m + 2 /\ (Len(all) - 2) + 1 = m + 1
        /\ 1 \in 1 .. Len(all) /\ 2 \in 1 .. Len(all)
    BY <1>4
  <2>2. /\ Reverse(all)[1] = all[m + 2] /\ Reverse(all)[2] = all[m + 1]
        /\ Reverse(end)[1] = end[2] /\ Reverse(end)[2] = end[1]
    BY <1>2, <2>1
  <2> QED BY <1>3, <2>1, <2>2
<1>6. /\ m \in 0 .. Len(all) /\ (m + 1) + 1 = m + 2 /\ m + 1 - 1 = m
  BY <1>4
<1>7. SubSeq(all, m + 1, Len(all)) = end
  <2>1. /\ SubSeq(all, m + 1, Len(all)) \in Seq(Tokens)
        /\ Len(SubSeq(all, m + 1, Len(all))) = 2
        /\ \A i \in 1 .. 2 : SubSeq(all, m + 1, Len(all))[i] = all[m + i]
    BY <1>4, <1>6, Cut
  <2>2. \A i \in 1 .. 2 : SubSeq(all, m + 1, Len(all))[i] = end[i]
    BY <1>5, <2>1
  <2> QED BY <2>1, <2>2, SeqEqual
<1>8. SubSeq(all, 1, m) \o SubSeq(all, m + 1, Len(all)) = all
  BY <1>6, Cut
<1>9. Len(all) - 2 = m /\ Len(all) = m + 2 /\ Len(all) - 1 = m + 1
  BY <1>4
<1>10. all = SubSeq(all, 1, m) \o end
  BY <1>7, <1>8
<1> QED BY <1>3, <1>5, <1>6, <1>9, <1>10

LEMMA ShowTypes ==
  ASSUME WireInv, NEW tokens \in Seq(Tokens), Show(tokens)
  PROVE  shown' \in Seq(Tokens)
BY Joins DEF Show, WireInv

LEMMA CRType == <<CR>> \in Seq(Tokens) /\ <<CR>> # <<>>
BY TokenTypes

LEMMA EchoTypes == TypeInv /\ ExpectEcho => TypeInv'
<1> SUFFICES ASSUME TypeInv, ExpectEcho PROVE TypeInv'
  OBVIOUS
<1> USE DEF TypeInv
<1>1. xpc = "echo" /\ xline \in Names /\ Echo(xline) \in Seq(Tokens) /\ Len(Echo(xline)) = 2
  BY EchoType DEF ExpectEcho, ExchangeInv
<1>2. MainInv'
  BY DEF ExpectEcho, MainInv, mainVars
<1>3. SUFFICES /\ wire' \in Seq(Tokens) /\ faults' \in Nat /\ shown' \in Seq(Tokens)
               /\ collected' \in Seq(Tokens)
               /\ tin' \in Seq(Tokens) /\ link' \in {"up", "down", "gone"}
               /\ \/ xpc' = "prompt" /\ xline' \in Names
                  \/ UNCHANGED <<xpc, xline, echoed>>
  <2>1. ExchangeInv'
    <3>1. UNCHANGED <<depth, sent>>
      BY DEF ExpectEcho
    <3>2. sent \in Seq(Names) /\ sent # <<>> /\ depth \in Int
      BY <1>1 DEF ExchangeInv
    <3>3. CASE xpc' = "prompt" /\ xline' \in Names
      BY <1>3, <3>1, <3>2, <3>3 DEF ExchangeInv
    <3>4. CASE UNCHANGED <<xpc, xline, echoed>>
      BY <1>1, <1>3, <3>1, <3>4 DEF ExchangeInv
    <3> QED BY <1>3, <3>3, <3>4
  <2>2. WireInv'
    BY <1>1, <1>3 DEF ExpectEcho, WireInv
  <2> QED BY <1>2, <2>1, <2>2
<1>4. <<>> \in Seq(Tokens) /\ "" \in Names
  BY DEF Names
<1>5. ASSUME NEW n \in 1 .. Len(wire), NEW data, Chunk(data, n), EchoSeen(data)
      PROVE  /\ wire' \in Seq(Tokens) /\ faults' \in Nat /\ shown' \in Seq(Tokens)
             /\ collected' \in Seq(Tokens)
             /\ tin' \in Seq(Tokens) /\ link' \in {"up", "down", "gone"}
             /\ xpc' = "prompt" /\ xline' \in Names
  <2> DEFINE all == collected \o data
  <2>1. data \in Seq(Tokens) /\ wire' \in Seq(Tokens) /\ UNCHANGED faults
    BY <1>5, ChunkTypes
  <2>2. /\ IsSuffix(Echo(xline), all)
        /\ Show(SubSeq(all, 1, Len(all) - 2) \o IF immediate THEN Line(xline) ELSE <<>>)
        /\ xline' = IF immediate THEN "" ELSE xline
        /\ xpc' = "prompt" /\ collected' = <<>> /\ serialSend(<<CR>>)
    BY <1>5 DEF EchoSeen
  <2>3. all \in Seq(Tokens)
    BY <2>1, CollectedType
  <2> HIDE DEF all
  <2>4. SubSeq(all, 1, Len(all) - 2) \in Seq(Tokens)
    BY <1>1, <2>2, <2>3, EndsInTwo, Cut
  <2>5. (IF immediate THEN Line(xline) ELSE <<>>) \in Seq(Tokens)
    BY <1>1, <1>4, LineType
  <2>6. shown' \in Seq(Tokens)
    BY <2>2, <2>4, <2>5, Joins, ShowTypes
  <2>7. tin' \in Seq(Tokens) /\ link' \in {"up", "down", "gone"}
    BY <2>2, CRType, SendTypes
  <2> QED BY <1>1, <1>4, <2>1, <2>2, <2>6, <2>7 DEF WireInv
<1>6. ASSUME NEW n \in 1 .. Len(wire), NEW data, Chunk(data, n), EchoGoesOn(data)
      PROVE  /\ wire' \in Seq(Tokens) /\ faults' \in Nat /\ shown' \in Seq(Tokens)
             /\ collected' \in Seq(Tokens)
             /\ UNCHANGED <<tin, link, xpc, xline, echoed>>
  <2> DEFINE all == collected \o data
  <2>1. data \in Seq(Tokens) /\ wire' \in Seq(Tokens) /\ UNCHANGED faults
    BY <1>6, ChunkTypes
  <2>2. /\ Show(SubSeq(all, 1, Flushed(all)))
        /\ collected' = SubSeq(all, Flushed(all) + 1, Len(all))
        /\ UNCHANGED <<tin, link, xpc, xline, echoed>>
    BY <1>6 DEF EchoGoesOn
  <2>3. all \in Seq(Tokens)
    BY <2>1, CollectedType
  <2> HIDE DEF all
  <2>4. SubSeq(all, 1, Flushed(all)) \in Seq(Tokens) /\ collected' \in Seq(Tokens)
    BY <2>2, <2>3, FlushedType, Cut
  <2>5. shown' \in Seq(Tokens)
    BY <2>2, <2>4, ShowTypes
  <2> QED BY <2>1, <2>2, <2>4, <2>5 DEF WireInv
<1>7. CASE NoEcho
  <2>1. wire' \in Seq(Tokens) /\ faults' \in Nat
    BY <1>7 DEF NoEcho, TimeOut, WireInv
  <2>2. shown' \in Seq(Tokens)
    BY <1>7, ShowTypes DEF NoEcho, ExchangeInv
  <2>3. tin' \in Seq(Tokens) /\ link' \in {"up", "down", "gone"}
    BY <1>7, CRType, SendTypes DEF NoEcho
  <2> QED BY <1>1, <1>4, <1>7, <2>1, <2>2, <2>3 DEF NoEcho
<1>8. \/ \E n \in 1 .. Len(wire) : \E data \in {SubSeq(wire, 1, n)} :
            Chunk(data, n) /\ (EchoSeen(data) \/ EchoGoesOn(data))
      \/ NoEcho
  BY DEF ExpectEcho
<1>9. CASE \E n \in 1 .. Len(wire) : \E data \in {SubSeq(wire, 1, n)} :
             Chunk(data, n) /\ (EchoSeen(data) \/ EchoGoesOn(data))
  <2>1. PICK n, data : n \in 1 .. Len(wire) /\ Chunk(data, n) /\ (EchoSeen(data) \/ EchoGoesOn(data))
    BY <1>9
  <2>2. CASE EchoSeen(data)
    BY <2>1, <2>2, <1>5
  <2>3. CASE EchoGoesOn(data)
    BY <2>1, <2>3, <1>6 DEF WireInv
  <2> QED BY <2>1, <2>2, <2>3
<1> QED BY <1>7, <1>8, <1>9

LEMMA ProcessedTypes ==
  ASSUME TypeInv, xpc = "prompt", progress = <<>>,
         NEW matched \in BOOLEAN, NEW prefix \in Seq(Tokens), Processed(matched, prefix)
  PROVE  /\ shown' \in Seq(Tokens) /\ collected' = <<>> /\ xpc' = "select"
         /\ progress' \in Seq(BOOLEAN) /\ Len(progress') <= 1 /\ UNCHANGED xline
<1> USE DEF TypeInv
<1>1. progress' = Append(progress, matched)
  BY DEF Processed
<1>2. progress' \in Seq(BOOLEAN) /\ Len(progress') = 1
  BY <1>1 DEF MainInv
<1>3. (Line(xline) \o prefix) \o (IF matched THEN Prompt ELSE <<>>) \in Seq(Tokens)
  <2>1. Line(xline) \in Seq(Tokens)
    BY LineType DEF ExchangeInv
  <2>2. (IF matched THEN Prompt ELSE <<>>) \in Seq(Tokens)
    <3>1. <<>> \in Seq(Tokens)
      OBVIOUS
    <3> QED BY <3>1, PromptType
  <2> QED BY <2>1, <2>2, Joins
<1>4. shown' \in Seq(Tokens)
  <2>1. \/ Show(Line(xline) \o prefix \o (IF matched THEN Prompt ELSE <<>>))
        \/ UNCHANGED shown
    BY DEF Processed
  <2> QED BY <1>3, <2>1, ShowTypes DEF WireInv
<1> QED BY <1>2, <1>4 DEF Processed

LEMMA PromptTypes == TypeInv /\ ExpectPrompt => TypeInv'
<1> SUFFICES ASSUME TypeInv, ExpectPrompt PROVE TypeInv'
  OBVIOUS
<1> USE DEF TypeInv
<1>1. /\ xpc = "prompt" /\ progress = <<>> /\ main = "progress" /\ xline \in Names
      /\ Prompt \in Seq(Tokens) /\ Len(Prompt) = 2
  BY PromptType DEF ExpectPrompt, ExchangeInv, MainInv
<1>2. <<>> \in Seq(Tokens) /\ "" \in Names
  BY DEF Names
<1>3. SUFFICES /\ wire' \in Seq(Tokens) /\ faults' \in Nat /\ shown' \in Seq(Tokens)
               /\ \/ /\ collected' = <<>> /\ xpc' = "select" /\ UNCHANGED xline
                     /\ progress' \in Seq(BOOLEAN) /\ Len(progress') <= 1
                  \/ /\ collected' \in Seq(Tokens) /\ xline' \in Names
                     /\ UNCHANGED <<xpc, progress>>
  <2>1. MainInv'
    <3>1. UNCHANGED mainVars /\ progress' \in Seq(BOOLEAN) /\ Len(progress') <= 1
      BY <1>1, <1>3 DEF ExpectPrompt, MainInv
    <3>2. xpc' = "select" \/ progress' = <<>>
      BY <1>1, <1>3
    <3> QED BY <1>1, <3>1, <3>2 DEF MainInv, mainVars
  <2>2. ExchangeInv'
    BY <1>1, <1>2, <1>3 DEF ExpectPrompt, ExchangeInv
  <2>3. WireInv'
    BY <1>1, <1>3 DEF ExpectPrompt, WireInv, targetVars
  <2> QED BY <2>1, <2>2, <2>3
<1>4. ASSUME NEW n \in 1 .. Len(wire), NEW data, Chunk(data, n),
             PromptSeen(data) \/ PromptGoesOn(data) \/ NoPrompt(data)
      PROVE  /\ wire' \in Seq(Tokens) /\ faults' \in Nat /\ shown' \in Seq(Tokens)
             /\ \/ /\ collected' = <<>> /\ xpc' = "select" /\ UNCHANGED xline
                   /\ progress' \in Seq(BOOLEAN) /\ Len(progress') <= 1
                \/ /\ collected' \in Seq(Tokens) /\ xline' \in Names
                   /\ UNCHANGED <<xpc, progress>>
  <2> DEFINE all == collected \o data
  <2>1. data \in Seq(Tokens) /\ wire' \in Seq(Tokens) /\ UNCHANGED faults
    BY <1>4, ChunkTypes
  <2>2. all \in Seq(Tokens)
    BY <2>1, CollectedType
  <2>3. faults' \in Nat
    BY <2>1 DEF WireInv
  <2>4. CASE PromptSeen(data)
    <3>1. IsSuffix(Prompt, all) /\ Processed(TRUE, SubSeq(all, 1, Len(all) - 2))
      BY <2>4 DEF PromptSeen
    <3> HIDE DEF all
    <3>2. SubSeq(all, 1, Len(all) - 2) \in Seq(Tokens)
      BY <1>1, <2>2, <3>1, EndsInTwo, Cut
    <3> QED BY <1>1, <2>1, <2>3, <3>1, <3>2, ProcessedTypes
  <2>5. CASE PromptGoesOn(data)
    <3>1. /\ IF Flushed(all) > 0
             THEN Show(Line(xline) \o SubSeq(all, 1, Flushed(all))) /\ xline' = ""
             ELSE UNCHANGED <<shown, xline>>
          /\ collected' = SubSeq(all, Flushed(all) + 1, Len(all))
          /\ UNCHANGED <<xpc, progress>>
      BY <2>5 DEF PromptGoesOn
    <3> HIDE DEF all
    <3>2. SubSeq(all, 1, Flushed(all)) \in Seq(Tokens) /\ collected' \in Seq(Tokens)
      BY <2>2, <3>1, FlushedType, Cut
    <3>3. Line(xline) \o SubSeq(all, 1, Flushed(all)) \in Seq(Tokens)
      BY <1>1, <3>2, LineType, Joins
    <3>4. shown' \in Seq(Tokens) /\ xline' \in Names
      BY <1>1, <1>2, <3>1, <3>3, ShowTypes DEF WireInv
    <3> QED BY <2>1, <2>3, <3>1, <3>2, <3>4
  <2>6. CASE NoPrompt(data)
    <3>1. Processed(FALSE, all)
      BY <2>6 DEF NoPrompt
    <3> HIDE DEF all
    <3> QED BY <1>1, <2>1, <2>2, <2>3, <3>1, ProcessedTypes
  <2> QED BY <1>4, <2>4, <2>5, <2>6
<1>5. CASE TimeOut /\ NoPrompt(<<>>)
  <2>1. wire' \in Seq(Tokens) /\ faults' \in Nat
    BY <1>5 DEF TimeOut, WireInv
  <2>2. Processed(FALSE, collected \o <<>>)
    BY <1>5 DEF NoPrompt
  <2>3. collected \o <<>> \in Seq(Tokens)
    BY <1>2, CollectedType
  <2> QED BY <1>1, <2>1, <2>2, <2>3, ProcessedTypes
<1>6. CASE \E n \in 1 .. Len(wire) : \E data \in {SubSeq(wire, 1, n)} :
             /\ Chunk(data, n)
             /\ PromptSeen(data) \/ PromptGoesOn(data) \/ (immediate /\ NoPrompt(data))
  <2>1. PICK n, data :
           n \in 1 .. Len(wire) /\ Chunk(data, n) /\ (PromptSeen(data) \/ PromptGoesOn(data) \/ NoPrompt(data))
    BY <1>6
  <2> QED BY <2>1, <1>4
<1> QED BY <1>5, <1>6 DEF ExpectPrompt

LEMMA NextTypes == TypeInv /\ [Next]_vars => TypeInv'
<1> SUFFICES ASSUME TypeInv, [Next]_vars PROVE TypeInv'
  OBVIOUS
<1>1. CASE UNCHANGED vars
  BY <1>1 DEF TypeInv, MainInv, ExchangeInv, WireInv, vars, mainVars, exchangeVars, targetVars
<1>2. CASE Next
  BY <1>2, TargetTypes, LinkTypes, MainTypes, SelectTypes, EchoTypes, PromptTypes
     DEF Next, Exchange
<1> QED BY <1>1, <1>2

(* What the parts of the state may be; and that at most one progress is     *)
(* waiting, none while a line is exchanged: serialExchange never blocks on  *)
(* its channel of one with the main goroutine waiting for something else.   *)
THEOREM TypeCorrect == Spec => []TypeInv
<1>1. Init => TypeInv
  BY InitTypes
<1>2. TypeInv /\ [Next]_vars => TypeInv'
  BY NextTypes
<1> QED BY <1>1, <1>2, PTL DEF Spec

-----------------------------------------------------------------------------
(* NothingHidden. *)

SayOf == [t \in Tokens |-> IF IsSaid(t) THEN <<t>> ELSE <<>>]

(* Of two parts, what is said of both.                                      *)
SayingsJoin ==
  \A s, t \in Seq(Tokens) : Sayings(s \o t) = Sayings(s) \o Sayings(t)

LEMMA SayingsFacts ==
  /\ Sayings(<<>>) = <<>>
  /\ \A s \in Seq(Tokens) : Sayings(s) \in Seq(Tokens)
  /\ \A t \in Tokens : Sayings(<<t>>) = IF IsSaid(t) THEN <<t>> ELSE <<>>
  /\ SayingsJoin
<1>1. ASSUME NEW t \in Tokens PROVE (IF IsSaid(t) THEN <<t>> ELSE <<>>) \in Seq(Tokens)
  <2>1. <<t>> \in Seq(Tokens) /\ <<>> \in Seq(Tokens)
    OBVIOUS
  <2> QED BY <2>1
<1>2. SayOf \in [Tokens -> Seq(Tokens)]
  BY <1>1 DEF SayOf
<1>3. ASSUME NEW s \in Seq(Tokens) PROVE Sayings(s) = Flat(SayOf, s)
  <2>1. \A i \in DOMAIN s : s[i] \in Tokens
    OBVIOUS
  <2>2. \A i \in DOMAIN s : SayOf[s[i]] = IF IsSaid(s[i]) THEN <<s[i]>> ELSE <<>>
    BY <2>1 DEF SayOf
  <2>3. Mapped(SayOf, s) = [i \in DOMAIN s |-> IF IsSaid(s[i]) THEN <<s[i]>> ELSE <<>>]
    BY <2>2 DEF Mapped
  <2> QED BY <2>3 DEF Sayings, Flat
<1>4. /\ Flat(SayOf, <<>>) = <<>>
      /\ \A s \in Seq(Tokens) : Flat(SayOf, s) \in Seq(Tokens)
      /\ \A t \in Tokens : Flat(SayOf, <<t>>) = SayOf[t]
      /\ \A s, t \in Seq(Tokens) : Flat(SayOf, s \o t) = Flat(SayOf, s) \o Flat(SayOf, t)
  <2>1. Flattened(SayOf, Tokens, Tokens)
    BY <1>2, FlatFacts
  <2> QED BY <2>1 DEF Flattened
<1>5. <<>> \in Seq(Tokens) /\ \A t \in Tokens : <<t>> \in Seq(Tokens)
  OBVIOUS
<1>6. \A s, t \in Seq(Tokens) : s \o t \in Seq(Tokens)
  BY Joins
<1>7. SayingsJoin
  BY <1>3, <1>4, <1>6 DEF SayingsJoin
<1>8. \A t \in Tokens : SayOf[t] = IF IsSaid(t) THEN <<t>> ELSE <<>>
  BY DEF SayOf
<1> HIDE DEF SayOf
<1> QED BY <1>3, <1>4, <1>5, <1>7, <1>8

(* What says nothing.                                                       *)
LEMMA Silent ==
  /\ \A line \in Names : Sayings(Echo(line)) = <<>> /\ Sayings(Line(line)) = <<>>
  /\ Sayings(Prompt) = <<>> /\ Sayings(<<Space>>) = <<>> /\ Sayings(<<>>) = <<>>
<1>1. /\ ~IsSaid(Space) /\ ~IsSaid(Ok) /\ ~IsSaid(NL)
      /\ \A line : ~IsSaid(Begin(line)) /\ ~IsSaid(End(line)) /\ ~IsSaid(Input(line))
  BY DEF IsSaid, Space, Ok, NL, Begin, End, Input
<1>2. ASSUME NEW s \in Tokens, NEW t \in Tokens, ~IsSaid(s), ~IsSaid(t)
      PROVE  Sayings(<<s>>) = <<>> /\ Sayings(<<s, t>>) = <<>>
  <2>1. Sayings(<<s>>) = <<>> /\ Sayings(<<t>>) = <<>>
    BY <1>2, SayingsFacts, Zenon
  <2>2. <<s, t>> = <<s>> \o <<t>> /\ <<s>> \in Seq(Tokens) /\ <<t>> \in Seq(Tokens)
    BY Pair
  <2>3. Sayings(<<s, t>>) = <<>> \o <<>>
    BY <2>1, <2>2, SayingsFacts, Zenon DEF SayingsJoin
  <2> QED BY <2>1, <2>3
<1>3. Sayings(Prompt) = <<>> /\ Sayings(<<Space>>) = <<>>
  BY <1>1, <1>2, TokenTypes, Zenon DEF Prompt
<1>4. ASSUME NEW line \in Names PROVE Sayings(Echo(line)) = <<>> /\ Sayings(Line(line)) = <<>>
  <2>1. Begin(line) \in Tokens /\ End(line) \in Tokens /\ Input(line) \in Tokens
    BY TokenTypes
  <2>2. /\ Sayings(<<Begin(line), End(line)>>) = <<>>
        /\ Sayings(<<Input(line)>>) = <<>> /\ Sayings(<<>>) = <<>>
    BY <1>1, <1>2, <2>1, SayingsFacts
  <2> QED BY <2>2 DEF Echo, Line
<1> QED BY <1>3, <1>4, SayingsFacts

(* All that is left the target has either sent and nobody has read, or it   *)
(* has been read: then what it said is shown or collected.                  *)
ReadSo(read) ==
  /\ read \in Seq(Tokens)
  /\ emitted = read \o wire
  /\ Sayings(read) = Sayings(shown) \o Sayings(collected)
HiddenInv == \E read \in Seq(Tokens) : ReadSo(read)

GoesOn(read, data, s, c) == Sayings(read \o data) = Sayings(s) \o Sayings(c \o data)

LEMMA ReadOn ==
  ASSUME NEW read \in Seq(Tokens), NEW data \in Seq(Tokens),
         NEW s \in Seq(Tokens), NEW c \in Seq(Tokens),
         Sayings(read) = Sayings(s) \o Sayings(c)
  PROVE  GoesOn(read, data, s, c)
<1>1. PICK x \in Seq(Tokens), y \in Seq(Tokens), z \in Seq(Tokens) :
         x = Sayings(s) /\ y = Sayings(c) /\ z = Sayings(data)
  BY SayingsFacts
<1>2. Sayings(read \o data) = Sayings(read) \o z /\ Sayings(c \o data) = y \o z
  BY <1>1, SayingsFacts, Zenon DEF SayingsJoin
<1>3. Sayings(read) = x \o y
  BY <1>1
<1>4. (x \o y) \o z = x \o (y \o z)
  <2>1. Grouped(x, y, z)
    BY <1>1, Regroup
  <2> QED BY <2>1 DEF Grouped
<1> QED BY <1>1, <1>2, <1>3, <1>4, Zenon DEF GoesOn

(* A chunk is read and shown, or collected, all of it.                      *)
LEMMA Reads ==
  ASSUME TypeInv, NEW data \in Seq(Tokens),
         wire = data \o wire', wire' \in Seq(Tokens), UNCHANGED emitted,
         shown' \in Seq(Tokens), collected' \in Seq(Tokens),
         Sayings(shown') \o Sayings(collected')
           = Sayings(shown) \o Sayings(collected \o data),
         HiddenInv
  PROVE  HiddenInv'
<1>1. PICK read \in Seq(Tokens) : ReadSo(read)
  BY DEF HiddenInv
<1>2. PICK s \in Seq(Tokens), c \in Seq(Tokens), w \in Seq(Tokens) :
         s = shown /\ c = collected /\ w = wire'
  BY DEF TypeInv, ExchangeInv, WireInv
<1>3. read \o data \in Seq(Tokens)
  BY Joins
<1>4. emitted' = (read \o data) \o wire'
  <2>1. emitted' = read \o wire /\ wire = data \o w
    BY <1>1, <1>2 DEF ReadSo
  <2>2. (read \o data) \o w = read \o (data \o w)
    <3>1. Grouped(read, data, w)
      BY <1>1, <1>2, Regroup
    <3> QED BY <3>1 DEF Grouped
  <2> QED BY <1>2, <2>1, <2>2, Zenon
<1>5. Sayings(read \o data) = Sayings(s) \o Sayings(c \o data)
  <2>1. Sayings(read) = Sayings(s) \o Sayings(c)
    BY <1>1, <1>2, Zenon DEF ReadSo
  <2>2. GoesOn(read, data, s, c)
    BY <1>1, <1>2, <2>1, ReadOn
  <2> QED BY <2>2 DEF GoesOn
<1>6. Sayings(read \o data) = Sayings(shown') \o Sayings(collected')
  BY <1>2, <1>5, Zenon
<1> QED BY <1>3, <1>4, <1>6 DEF HiddenInv, ReadSo

(* Nothing is read.                                                         *)
LEMMA NothingRead ==
  ASSUME TypeInv, UNCHANGED <<wire, emitted>>,
         shown' \in Seq(Tokens), collected' \in Seq(Tokens),
         Sayings(shown') \o Sayings(collected') = Sayings(shown) \o Sayings(collected),
         HiddenInv
  PROVE  HiddenInv'
BY DEF HiddenInv, ReadSo

(* What has been shown, with more after it.                                 *)
LEMMA ShownMore ==
  ASSUME TypeInv, NEW tokens \in Seq(Tokens), Show(tokens)
  PROVE  shown' \in Seq(Tokens) /\ Sayings(shown') = Sayings(shown) \o Sayings(tokens)
BY SayingsFacts, Joins DEF Show, TypeInv, WireInv, SayingsJoin

LEMMA TargetHides == TypeInv /\ HiddenInv /\ Target => HiddenInv'
<1> SUFFICES ASSUME TypeInv, HiddenInv, Target PROVE HiddenInv'
  OBVIOUS
<1>1. UNCHANGED <<shown, collected>>
  BY DEF Target, TargetReads, TargetSends, exchangeVars
<1>2. PICK read \in Seq(Tokens) : ReadSo(read)
  BY DEF HiddenInv
<1>3. /\ wire \in Seq(Tokens) /\ tin \in Seq(Tokens) /\ tout \in Seq(Tokens)
  BY DEF TypeInv, WireInv
<1>4. ASSUME NEW t \in Tokens, Emit(<<t>>) PROVE HiddenInv'
  <2>1. CASE link = "up"
    <3>1. <<t>> \in Seq(Tokens)
      OBVIOUS
    <3>2. (read \o wire) \o <<t>> = read \o (wire \o <<t>>)
      BY <1>3, <3>1, ConcatAssociative
    <3>3. emitted' = read \o wire'
      BY <1>2, <1>4, <2>1, <3>2 DEF Emit, ReadSo
    <3> QED BY <1>1, <1>2, <3>3 DEF HiddenInv, ReadSo
  <2>2. CASE link # "up"
    BY <1>1, <1>2, <1>4, <2>2 DEF Emit, HiddenInv, ReadSo
  <2> QED BY <2>1, <2>2
<1>5. \/ UNCHANGED <<wire, emitted>>
      \/ \E t \in Tokens : Emit(<<t>>)
  <2>1. CASE TargetReads
    <3>1. Head(tin) \in Tokens
      BY <1>3, <2>1 DEF TargetReads
    <3> QED BY <2>1, <3>1 DEF TargetReads
  <2>2. CASE TargetSends
    <3>1. Head(tout) \in Tokens
      BY <1>3, <2>2 DEF TargetSends
    <3> QED BY <2>2, <3>1 DEF TargetSends
  <2> QED BY <2>1, <2>2 DEF Target
<1>6. CASE UNCHANGED <<wire, emitted>>
  BY <1>1, <1>2, <1>6 DEF HiddenInv, ReadSo
<1> QED BY <1>4, <1>5, <1>6

(* Without what nobody has read.                                            *)
LEMMA WithoutWire ==
  ASSUME NEW read \in Seq(Tokens), NEW w \in Seq(Tokens)
  PROVE  SubSeq(read \o w, 1, Len(read \o w) - Len(w)) = read
<1>1. PICK m \in Nat, n \in Nat : m = Len(read) /\ n = Len(w)
  OBVIOUS
<1>2. /\ read \o w \in Seq(Tokens) /\ Len(read \o w) = m + n
      /\ \A i \in 1 .. m : (read \o w)[i] = read[i]
  BY <1>1, ConcatAt
<1>3. m \in 0 .. Len(read \o w) /\ Len(read \o w) - Len(w) = m
  BY <1>1, <1>2
<1>4. /\ SubSeq(read \o w, 1, m) \in Seq(Tokens) /\ Len(SubSeq(read \o w, 1, m)) = m
      /\ \A i \in 1 .. m : SubSeq(read \o w, 1, m)[i] = (read \o w)[i]
  BY <1>2, <1>3, Cut
<1>5. SubSeq(read \o w, 1, m) = read
  BY <1>1, <1>2, <1>4, SeqEqual
<1> QED BY <1>3, <1>5

LEMMA DroppedHides == TypeInv /\ HiddenInv /\ (Unplug \/ Starts) => HiddenInv'
<1> SUFFICES ASSUME TypeInv, HiddenInv, Unplug \/ Starts PROVE HiddenInv'
  OBVIOUS
<1>1. UNCHANGED <<shown, collected>>
  BY DEF Unplug, Starts, exchangeVars
<1>2. PICK read \in Seq(Tokens) : ReadSo(read)
  BY DEF HiddenInv
<1>3. wire \in Seq(Tokens) /\ SubSeq(emitted, 1, Len(emitted) - Len(wire)) = read
  BY <1>2, WithoutWire DEF ReadSo, TypeInv, WireInv
<1>4. CASE Unplug
  <2>1. emitted' = read /\ wire' = <<>>
    BY <1>3, <1>4 DEF Unplug
  <2>2. read \o <<>> = read
    BY ConcatEmptySeq
  <2> QED BY <1>1, <1>2, <2>1, <2>2 DEF HiddenInv, ReadSo
<1>5. CASE Starts
  <2>1. CASE TimeOut /\ UNCHANGED emitted
    BY <1>1, <1>2, <2>1 DEF TimeOut, HiddenInv, ReadSo
  <2>2. CASE \E n \in 1 .. Len(wire) :
               /\ Chunk(SubSeq(wire, 1, n), n)
               /\ emitted' = SubSeq(emitted, 1, Len(emitted) - Len(wire)) \o wire'
    <3>1. emitted' = read \o wire'
      BY <1>3, <2>2
    <3> QED BY <1>1, <1>2, <3>1 DEF HiddenInv, ReadSo
  <2> QED BY <1>5, <2>1, <2>2 DEF Starts
<1> QED BY <1>4, <1>5

LEMMA PassHides == TypeInv /\ TypeInv' /\ HiddenInv /\ PassOn => HiddenInv'
<1> SUFFICES ASSUME TypeInv, TypeInv', HiddenInv, PassOn PROVE HiddenInv'
  OBVIOUS
<1>1. PICK n, data : n \in 1 .. Len(wire) /\ Chunk(data, n) /\ Show(data)
  BY DEF PassOn
<1>2. data \in Seq(Tokens) /\ wire' \in Seq(Tokens) /\ wire = data \o wire'
  BY <1>1, ChunkTypes DEF TypeInv
<1>3. collected = <<>> /\ collected' = <<>> /\ UNCHANGED emitted
  BY DEF PassOn, TypeInv, ExchangeInv, exchangeVars
<1>4. shown' \in Seq(Tokens) /\ Sayings(shown') = Sayings(shown) \o Sayings(data)
  <2>1. Show(data)
    BY <1>1
  <2>2. \A tokens \in Seq(Tokens) : Show(tokens) =>
           shown' \in Seq(Tokens) /\ Sayings(shown') = Sayings(shown) \o Sayings(tokens)
    BY ShownMore
  <2> QED BY <1>2, <2>1, <2>2
<1>5. Sayings(shown') \in Seq(Tokens) /\ Sayings(<<>>) = <<>> /\ <<>> \in Seq(Tokens)
  <2>1. <<>> \in Seq(Tokens) /\ shown' \in Seq(Tokens)
    BY <1>4
  <2> QED BY <2>1, SayingsFacts, Zenon
<1>6. <<>> \o data = data /\ Sayings(shown') \o <<>> = Sayings(shown')
  BY <1>2, <1>5, ConcatEmptySeq
<1>7. Sayings(shown') \o Sayings(collected') = Sayings(shown) \o Sayings(collected \o data)
  BY <1>3, <1>4, <1>5, <1>6, Zenon
<1> QED BY <1>2, <1>3, <1>4, <1>5, <1>7, Reads

(* Of what has been collected, all but what says nothing is shown or kept.  *)
Told(tokens, all) ==
  /\ tokens \in Seq(Tokens) /\ all \in Seq(Tokens)
  /\ Sayings(tokens) \o Sayings(collected') = Sayings(all)

LEMMA ShowsTold ==
  ASSUME TypeInv, NEW tokens, NEW all, Told(tokens, all), Show(tokens),
         collected' \in Seq(Tokens)
  PROVE  /\ shown' \in Seq(Tokens)
         /\ Sayings(shown') \o Sayings(collected') = Sayings(shown) \o Sayings(all)
<1>1. tokens \in Seq(Tokens)
  BY DEF Told
<1>2. shown' \in Seq(Tokens) /\ Sayings(shown') = Sayings(shown) \o Sayings(tokens)
  BY <1>1, ShownMore
<1>3. shown \in Seq(Tokens)
  BY DEF TypeInv, WireInv
<1>4. /\ Sayings(shown) \in Seq(Tokens) /\ Sayings(tokens) \in Seq(Tokens)
      /\ Sayings(collected') \in Seq(Tokens)
  BY <1>1, <1>3, SayingsFacts
<1>5. (Sayings(shown) \o Sayings(tokens)) \o Sayings(collected')
        = Sayings(shown) \o (Sayings(tokens) \o Sayings(collected'))
  <2>1. Grouped(Sayings(shown), Sayings(tokens), Sayings(collected'))
    BY <1>4, Regroup
  <2> QED BY <2>1, Zenon DEF Grouped
<1>6. Sayings(tokens) \o Sayings(collected') = Sayings(all)
  BY DEF Told
<1> QED BY <1>2, <1>5, <1>6, Zenon

LEMMA AllTold ==
  ASSUME NEW tokens \in Seq(Tokens), NEW all \in Seq(Tokens), collected' = <<>>,
         Sayings(tokens) = Sayings(all)
  PROVE  Told(tokens, all)
<1>1. Sayings(all) \in Seq(Tokens) /\ Sayings(<<>>) = <<>>
  BY SayingsFacts
<1>2. Sayings(all) \o <<>> = Sayings(all)
  BY <1>1, ConcatEmptySeq
<1> QED BY <1>1, <1>2, Zenon DEF Told

(* A part that says nothing may be left away.                               *)
LEMMA SilentPart ==
  ASSUME NEW s \in Seq(Tokens), NEW t \in Seq(Tokens)
  PROVE  /\ Sayings(t) = <<>> => Sayings(s \o t) = Sayings(s)
         /\ Sayings(s) = <<>> => Sayings(s \o t) = Sayings(t)
<1>1. Sayings(s \o t) = Sayings(s) \o Sayings(t)
  BY SayingsFacts, Zenon DEF SayingsJoin
<1>2. Sayings(s) \in Seq(Tokens) /\ Sayings(t) \in Seq(Tokens)
  BY SayingsFacts
<1>3. Sayings(s) \o <<>> = Sayings(s) /\ <<>> \o Sayings(t) = Sayings(t)
  BY <1>2, ConcatEmptySeq
<1> QED BY <1>1, <1>3, Zenon

(* Up to the last new line shown, the rest kept.                            *)
LEMMA FlushedTold ==
  ASSUME NEW all \in Seq(Tokens),
         collected' = SubSeq(all, Flushed(all) + 1, Len(all))
  PROVE  /\ Told(SubSeq(all, 1, Flushed(all)), all) /\ collected' \in Seq(Tokens)
         /\ Flushed(all) = 0 => Sayings(collected') = Sayings(all)
<1>1. PICK n, a, b : n = Flushed(all) /\ a = SubSeq(all, 1, n) /\ b = SubSeq(all, n + 1, Len(all))
  OBVIOUS
<1>2. n \in 0 .. Len(all)
  BY <1>1, FlushedType
<1>3. a \in Seq(Tokens) /\ b \in Seq(Tokens) /\ a \o b = all /\ Len(a) = n
  BY <1>1, <1>2, Cut
<1>4. Sayings(a) \o Sayings(b) = Sayings(all)
  BY <1>3, SayingsFacts, Zenon DEF SayingsJoin
<1>5. n = 0 => b = all
  <2>1. n = 0 => a = <<>>
    BY <1>3
  <2>2. <<>> \o b = b
    BY <1>3, ConcatEmptySeq
  <2> QED BY <1>3, <2>1, <2>2
<1> QED BY <1>1, <1>3, <1>4, <1>5, Zenon DEF Told

LEMMA EchoHides == TypeInv /\ TypeInv' /\ HiddenInv /\ ExpectEcho => HiddenInv'
<1> SUFFICES ASSUME TypeInv, TypeInv', HiddenInv, ExpectEcho PROVE HiddenInv'
  OBVIOUS
<1>1. /\ xpc = "echo" /\ xline \in Names /\ xline # "" /\ UNCHANGED emitted
      /\ collected \in Seq(Tokens) /\ collected' \in Seq(Tokens)
  BY DEF ExpectEcho, TypeInv, ExchangeInv
<1>2. ASSUME NEW n \in 1 .. Len(wire), NEW data, Chunk(data, n),
             NEW tokens, Show(tokens), Told(tokens, collected \o data)
      PROVE  HiddenInv'
  <2>1. data \in Seq(Tokens) /\ wire' \in Seq(Tokens) /\ wire = data \o wire'
    BY <1>2, ChunkTypes DEF TypeInv
  <2>2. /\ shown' \in Seq(Tokens)
        /\ Sayings(shown') \o Sayings(collected') = Sayings(shown) \o Sayings(collected \o data)
    BY <1>1, <1>2, ShowsTold
  <2> QED BY <1>1, <2>1, <2>2, Reads
<1>3. ASSUME NEW n \in 1 .. Len(wire), NEW data, Chunk(data, n), EchoSeen(data)
      PROVE  HiddenInv'
  <2>1. PICK all : all = collected \o data
    OBVIOUS
  <2>2. data \in Seq(Tokens) /\ all \in Seq(Tokens)
    BY <1>3, <2>1, ChunkTypes, CollectedType DEF TypeInv
  <2>3. PICK tail, head : /\ tail = (IF immediate THEN Line(xline) ELSE <<>>)
                          /\ head = SubSeq(all, 1, Len(all) - 2)
    OBVIOUS
  <2>4. IsSuffix(Echo(xline), all) /\ Show(head \o tail) /\ collected' = <<>>
    BY <1>3, <2>1, <2>3 DEF EchoSeen
  <2>5. /\ Echo(xline) \in Seq(Tokens) /\ Len(Echo(xline)) = 2
        /\ Sayings(Echo(xline)) = <<>>
    BY <1>1, EchoType, Silent
  <2>6. head \in Seq(Tokens) /\ all = head \o Echo(xline)
    BY <2>2, <2>3, <2>4, <2>5, EndsInTwo, Cut
  <2>7. tail \in Seq(Tokens) /\ Sayings(tail) = <<>>
    <3>1. <<>> \in Seq(Tokens)
      OBVIOUS
    <3> QED BY <1>1, <2>3, <3>1, LineType, Silent
  <2>8. Sayings(head \o tail) = Sayings(all) /\ head \o tail \in Seq(Tokens)
    <3>1. Sayings(head \o tail) = Sayings(head)
      BY <2>6, <2>7, SilentPart
    <3>2. Sayings(head \o Echo(xline)) = Sayings(head)
      BY <2>5, <2>6, SilentPart
    <3> QED BY <2>6, <2>7, <3>1, <3>2, Joins
  <2>9. Told(head \o tail, collected \o data)
    BY <2>1, <2>2, <2>4, <2>8, AllTold
  <2> QED BY <1>2, <1>3, <2>4, <2>9
<1>4. ASSUME NEW n \in 1 .. Len(wire), NEW data, Chunk(data, n), EchoGoesOn(data)
      PROVE  HiddenInv'
  <2>1. PICK all : all = collected \o data
    OBVIOUS
  <2>2. data \in Seq(Tokens) /\ all \in Seq(Tokens)
    BY <1>4, <2>1, ChunkTypes, CollectedType DEF TypeInv
  <2>3. /\ Show(SubSeq(all, 1, Flushed(all)))
        /\ collected' = SubSeq(all, Flushed(all) + 1, Len(all))
    BY <1>4, <2>1 DEF EchoGoesOn
  <2>4. Told(SubSeq(all, 1, Flushed(all)), collected \o data)
    BY <2>1, <2>2, <2>3, FlushedTold
  <2> QED BY <1>2, <1>4, <2>3, <2>4
<1>5. CASE NoEcho
  <2>1. UNCHANGED wire /\ Show(collected) /\ collected' = <<>>
    BY <1>5 DEF NoEcho, TimeOut
  <2>2. Told(collected, collected)
    BY <1>1, <2>1, AllTold
  <2>3. /\ shown' \in Seq(Tokens)
        /\ Sayings(shown') \o Sayings(collected') = Sayings(shown) \o Sayings(collected)
    BY <1>1, <2>1, <2>2, ShowsTold
  <2> QED BY <1>1, <2>1, <2>3, NothingRead
<1>6. CASE \E n \in 1 .. Len(wire) : \E data \in {SubSeq(wire, 1, n)} :
             Chunk(data, n) /\ (EchoSeen(data) \/ EchoGoesOn(data))
  BY <1>3, <1>4, <1>6
<1> QED BY <1>5, <1>6 DEF ExpectEcho

(* What is shown, or only hidden, of the end of a line.                     *)
LEMMA ProcessedTold ==
  ASSUME TypeInv, NEW matched \in BOOLEAN, NEW prefix \in Seq(Tokens), NEW all \in Seq(Tokens),
         Processed(matched, prefix), Sayings(prefix) = Sayings(all)
  PROVE  /\ shown' \in Seq(Tokens)
         /\ Sayings(shown') \o Sayings(collected') = Sayings(shown) \o Sayings(all)
<1>1. xline \in Names /\ shown \in Seq(Tokens)
  BY DEF TypeInv, ExchangeInv, WireInv
<1>2. PICK a, b : a = Line(xline) /\ b = (IF matched THEN Prompt ELSE <<>>)
  OBVIOUS
<1>3. <<>> \in Seq(Tokens) /\ collected' = <<>>
  BY DEF Processed
<1>4. /\ a \in Seq(Tokens) /\ Sayings(a) = <<>>
      /\ b \in Seq(Tokens) /\ Sayings(b) = <<>>
  BY <1>1, <1>2, <1>3, LineType, PromptType, Silent
<1>5. \/ Show(a \o prefix \o b)
      \/ prefix = <<Space>> /\ UNCHANGED shown
  BY <1>2 DEF Processed
<1>6. CASE Show(a \o prefix \o b)
  <2>1. a \o prefix \in Seq(Tokens) /\ Sayings(a \o prefix) = Sayings(prefix)
    BY <1>4, Joins, SilentPart
  <2>2. /\ (a \o prefix) \o b \in Seq(Tokens)
        /\ Sayings((a \o prefix) \o b) = Sayings(a \o prefix)
    BY <1>4, <2>1, Joins, SilentPart
  <2>3. Told(a \o prefix \o b, all)
    BY <1>3, <2>1, <2>2, AllTold
  <2> QED BY <1>3, <1>6, <2>3, ShowsTold
<1>7. CASE prefix = <<Space>> /\ UNCHANGED shown
  <2>1. Sayings(all) = <<>> /\ Sayings(<<>>) = <<>>
    BY <1>7, Silent
  <2> QED BY <1>1, <1>3, <1>7, <2>1, Zenon
<1> QED BY <1>5, <1>6, <1>7

LEMMA PromptHides == TypeInv /\ TypeInv' /\ HiddenInv /\ ExpectPrompt => HiddenInv'
<1> SUFFICES ASSUME TypeInv, TypeInv', HiddenInv, ExpectPrompt PROVE HiddenInv'
  OBVIOUS
<1>1. /\ UNCHANGED emitted /\ xline \in Names
      /\ collected \in Seq(Tokens) /\ collected' \in Seq(Tokens)
  BY DEF ExpectPrompt, TypeInv, ExchangeInv
<1>2. ASSUME NEW n \in 1 .. Len(wire), NEW data, Chunk(data, n), shown' \in Seq(Tokens),
             Sayings(shown') \o Sayings(collected') = Sayings(shown) \o Sayings(collected \o data)
      PROVE  HiddenInv'
  <2>1. data \in Seq(Tokens) /\ wire' \in Seq(Tokens) /\ wire = data \o wire'
    BY <1>2, ChunkTypes DEF TypeInv
  <2> QED BY <1>1, <1>2, <2>1, Reads
<1>3. ASSUME NEW n \in 1 .. Len(wire), NEW data, Chunk(data, n),
             PromptSeen(data) \/ PromptGoesOn(data) \/ NoPrompt(data)
      PROVE  HiddenInv'
  <2>1. PICK all : all = collected \o data
    OBVIOUS
  <2>2. data \in Seq(Tokens) /\ all \in Seq(Tokens)
    BY <1>3, <2>1, ChunkTypes, CollectedType DEF TypeInv
  <2>3. CASE PromptSeen(data)
    <3>1. PICK head : head = SubSeq(all, 1, Len(all) - 2)
      OBVIOUS
    <3>2. IsSuffix(Prompt, all) /\ Processed(TRUE, head)
      BY <2>1, <2>3, <3>1 DEF PromptSeen
    <3>3. head \in Seq(Tokens) /\ all = head \o Prompt
      BY <2>2, <3>1, <3>2, PromptType, EndsInTwo, Cut
    <3>4. Sayings(head) = Sayings(all)
      BY <3>3, PromptType, Silent, SilentPart
    <3>5. /\ shown' \in Seq(Tokens)
          /\ Sayings(shown') \o Sayings(collected') = Sayings(shown) \o Sayings(all)
      BY <2>2, <3>2, <3>3, <3>4, ProcessedTold
    <3> QED BY <1>2, <1>3, <2>1, <3>5
  <2>4. CASE PromptGoesOn(data)
    <3>1. PICK a, b : a = Line(xline) /\ b = SubSeq(all, 1, Flushed(all))
      OBVIOUS
    <3>2. /\ IF Flushed(all) > 0 THEN Show(a \o b) ELSE UNCHANGED shown
          /\ collected' = SubSeq(all, Flushed(all) + 1, Len(all))
      BY <2>1, <2>4, <3>1 DEF PromptGoesOn
    <3>3. Told(b, all) /\ (Flushed(all) = 0 => Sayings(collected') = Sayings(all))
      BY <2>2, <3>1, <3>2, FlushedTold
    <3>4. Flushed(all) > 0 \/ Flushed(all) = 0
      BY <2>2, FlushedType
    <3>5. CASE Flushed(all) > 0
      <4>1. a \in Seq(Tokens) /\ Sayings(a) = <<>> /\ b \in Seq(Tokens)
        BY <1>1, <3>1, <3>3, LineType, Silent DEF Told
      <4>2. a \o b \in Seq(Tokens) /\ Sayings(a \o b) = Sayings(b)
        BY <4>1, Joins, SilentPart
      <4>3. Told(a \o b, all)
        BY <3>3, <4>2, Zenon DEF Told
      <4>4. Show(a \o b)
        BY <3>2, <3>5
      <4>5. /\ shown' \in Seq(Tokens)
            /\ Sayings(shown') \o Sayings(collected') = Sayings(shown) \o Sayings(all)
        BY <1>1, <4>3, <4>4, ShowsTold
      <4> QED BY <1>2, <1>3, <2>1, <4>5
    <3>6. CASE Flushed(all) = 0
      <4>1. UNCHANGED shown /\ Sayings(collected') = Sayings(all)
        BY <3>2, <3>3, <3>6
      <4>2. shown \in Seq(Tokens)
        BY DEF TypeInv, WireInv
      <4>3. Sayings(shown') \o Sayings(collected') = Sayings(shown) \o Sayings(collected \o data)
        BY <2>1, <4>1, Zenon
      <4> QED BY <1>2, <1>3, <4>1, <4>2, <4>3
    <3> QED BY <3>4, <3>5, <3>6
  <2>5. CASE NoPrompt(data)
    <3>1. Processed(FALSE, all)
      BY <2>1, <2>5 DEF NoPrompt
    <3>2. /\ shown' \in Seq(Tokens)
          /\ Sayings(shown') \o Sayings(collected') = Sayings(shown) \o Sayings(all)
      BY <2>2, <3>1, ProcessedTold
    <3> QED BY <1>2, <1>3, <2>1, <3>2
  <2> QED BY <1>3, <2>3, <2>4, <2>5
<1>4. CASE TimeOut /\ NoPrompt(<<>>)
  <2>1. UNCHANGED wire /\ Processed(FALSE, collected \o <<>>)
    BY <1>4 DEF TimeOut, NoPrompt
  <2>2. collected \o <<>> = collected
    BY <1>1, ConcatEmptySeq
  <2>3. /\ shown' \in Seq(Tokens)
        /\ Sayings(shown') \o Sayings(collected') = Sayings(shown) \o Sayings(collected)
    BY <1>1, <2>1, <2>2, ProcessedTold
  <2> QED BY <1>1, <2>1, <2>3, NothingRead
<1>5. CASE \E n \in 1 .. Len(wire) : \E data \in {SubSeq(wire, 1, n)} :
             /\ Chunk(data, n)
             /\ PromptSeen(data) \/ PromptGoesOn(data) \/ (immediate /\ NoPrompt(data))
  BY <1>3, <1>5
<1> QED BY <1>4, <1>5 DEF ExpectPrompt

LEMMA OthersHide ==
  /\ TypeInv /\ TypeInv' /\ HiddenInv
  /\ TakeLine \/ TakeLevel \/ Reconnect \/ Readline \/ Walk \/ TakeProgress \/ UNCHANGED vars
  => HiddenInv'
<1> SUFFICES ASSUME TypeInv, TypeInv', HiddenInv,
                    TakeLine \/ TakeLevel \/ Reconnect \/ Readline \/ Walk \/ TakeProgress
                      \/ UNCHANGED vars
             PROVE  HiddenInv'
  OBVIOUS
<1>1. UNCHANGED <<wire, emitted, shown>>
  BY DEF TakeLine, TakeLevel, Reconnect, Readline, Walk, TakeProgress, vars
<1>2. UNCHANGED collected
  <2>1. CASE TakeLine
    BY <2>1 DEF TakeLine, TypeInv, ExchangeInv
  <2>2. CASE ~TakeLine
    BY <2>2 DEF TakeLevel, Reconnect, Readline, Walk, TakeProgress, vars, exchangeVars
  <2> QED BY <2>1, <2>2
<1> QED BY <1>1, <1>2 DEF HiddenInv, ReadSo

LEMMA NextHides == TypeInv /\ TypeInv' /\ HiddenInv /\ [Next]_vars => HiddenInv'
BY TargetHides, DroppedHides, PassHides, EchoHides, PromptHides, OthersHide DEF Next, Exchange

(* NothingHidden holds whatever lines, files and outputs there are, however *)
(* chunks are cut, the target is silent and the connection lost: what folie *)
(* leaves out of what it prints is never something the target had to say.   *)
THEOREM NothingEverHidden == Spec => []NothingHidden
<1>1. Init => TypeInv /\ HiddenInv
  <2>1. ASSUME Init PROVE HiddenInv
    <3>1. emitted = <<>> /\ wire = <<>> /\ shown = <<>> /\ collected = <<>>
      BY <2>1, Zenon DEF Init
    <3>2. Sayings(<<>>) = <<>> /\ <<>> \in Seq(Tokens) /\ <<>> \o <<>> = <<>>
      BY SayingsFacts, ConcatEmptySeq
    <3> QED BY <3>1, <3>2, Zenon DEF HiddenInv, ReadSo
  <2> QED BY <2>1, InitTypes
<1>2. TypeInv /\ HiddenInv /\ [Next]_vars => TypeInv' /\ HiddenInv'
  BY NextTypes, NextHides
<1>3. TypeInv /\ HiddenInv => NothingHidden
  <2> SUFFICES ASSUME TypeInv, HiddenInv PROVE NothingHidden
    OBVIOUS
  <2>1. PICK read \in Seq(Tokens) : ReadSo(read)
    BY DEF HiddenInv
  <2>2. shown \in Seq(Tokens) /\ collected \in Seq(Tokens) /\ wire \in Seq(Tokens)
    BY DEF TypeInv, ExchangeInv, WireInv
  <2>3. shown \o collected \in Seq(Tokens)
    BY <2>2, Joins
  <2>4. /\ Sayings((shown \o collected) \o wire) = Sayings(shown \o collected) \o Sayings(wire)
        /\ Sayings(shown \o collected) = Sayings(shown) \o Sayings(collected)
        /\ Sayings(read \o wire) = Sayings(read) \o Sayings(wire)
    BY <2>2, <2>3, SayingsFacts, Zenon DEF SayingsJoin
  <2>5. emitted = read \o wire /\ Sayings(read) = Sayings(shown) \o Sayings(collected)
    BY <2>1 DEF ReadSo
  <2> QED BY <2>4, <2>5, Zenon DEF NothingHidden
<1> QED BY <1>1, <1>2, <1>3, PTL DEF Spec

-----------------------------------------------------------------------------
(* OwnPrompt.  Nothing but lines that were sent is echoed; the end of a     *)
(* line that was never sent before comes after everything else, and a       *)
(* prompt that is given after that is the last thing that the target says.  *)

SentLines == {sent[j] : j \in 1 .. Len(sent)}

(* All ends of lines in s are of some of these lines.                       *)
Known(s, lines) == \A i \in 1 .. Len(s) : s[i][1] = "end" => s[i][2] \in lines

(* The end of line stands nowhere in s but at its end.                      *)
LastEnd(s, line) == \A i \in 1 .. Len(s) : s[i] = End(line) => i = Len(s)

(* With this much to come after s, a prompt stands at the end but for one.  *)
Late(s, after) == \A i \in 1 .. Len(s) : s[i] = Ok => (Len(s) - i) + after <= 1

EchoPhase(line) ==
  /\ LastEnd(tin, line) /\ LastEnd(wire, line)
  /\ (\E i \in 1 .. Len(wire) : wire[i] = End(line)) => tin = <<>> /\ tout = <<>>

PromptPhase ==
  \/ tin = <<CR>> /\ tout = <<>> /\ wire = <<>> /\ collected = <<>>
  \/ /\ tin = <<>>
     /\ Late(collected, Len(wire) + Len(tout)) /\ Late(wire, Len(tout)) /\ Late(tout, 0)

OwnInv ==
  /\ Known(tin, SentLines) /\ Known(wire, SentLines) /\ Known(tout, {})
  /\ xpc = "echo" /\ ~Repeated => EchoPhase(xline)
  /\ xpc = "prompt" /\ echoed /\ ~Repeated => PromptPhase

LEMMA TailAt ==
  ASSUME NEW D, NEW s \in Seq(D), s # <<>>
  PROVE  /\ Head(s) \in D /\ Tail(s) \in Seq(D) /\ Len(s) \in Nat
         /\ Len(s) >= 1 /\ Len(Tail(s)) = Len(s) - 1
         /\ Head(s) = s[1] /\ \A i \in 1 .. Len(s) - 1 : Tail(s)[i] = s[i + 1]
OBVIOUS

LEMMA KnownJoin ==
  ASSUME NEW s \in Seq(Tokens), NEW t \in Seq(Tokens), NEW lines,
         Known(s, lines), Known(t, lines)
  PROVE  Known(s \o t, lines)
<1>1. PICK m, n, st : m = Len(s) /\ n = Len(t) /\ st = s \o t /\ m \in Nat /\ n \in Nat
  <2>1. Len(s) \in Nat /\ Len(t) \in Nat
    OBVIOUS
  <2> QED BY <2>1, Zenon
<1>2. /\ Len(st) = m + n
      /\ \A i \in 1 .. m : st[i] = s[i]
      /\ \A i \in 1 .. n : st[m + i] = t[i]
  BY <1>1, ConcatAt
<1>3. ASSUME NEW i \in 1 .. m + n, st[i][1] = "end" PROVE st[i][2] \in lines
  <2>1. CASE i \in 1 .. m
    BY <1>1, <1>2, <1>3, <2>1 DEF Known
  <2>2. CASE i \notin 1 .. m
    <3>1. PICK j \in 1 .. n : i = m + j
      <4>1. i - m \in 1 .. n /\ i = m + (i - m)
        BY <1>1, <2>2
      <4> QED BY <4>1
    <3> QED BY <1>1, <1>2, <1>3, <3>1 DEF Known
  <2> QED BY <2>1, <2>2
<1>4. Known(st, lines)
  BY <1>2, <1>3 DEF Known
<1> QED BY <1>1, <1>4

LEMMA KnownRest ==
  ASSUME NEW s \in Seq(Tokens), NEW n \in 0 .. Len(s), NEW lines, Known(s, lines)
  PROVE  Known(SubSeq(s, n + 1, Len(s)), lines)
<1>1. PICK r : r = SubSeq(s, n + 1, Len(s))
  OBVIOUS
<1>2. PICK l \in Nat : l = Len(s)
  OBVIOUS
<1>3. Len(r) = l - n /\ \A i \in 1 .. l - n : r[i] = s[n + i]
  BY <1>1, <1>2, Cut
<1>4. ASSUME NEW i \in 1 .. l - n, r[i][1] = "end" PROVE r[i][2] \in lines
  <2>1. n + i \in 1 .. l /\ r[i] = s[n + i]
    BY <1>2, <1>3
  <2> QED BY <1>2, <1>4, <2>1 DEF Known
<1>5. Known(r, lines)
  BY <1>3, <1>4 DEF Known
<1> QED BY <1>1, <1>5

LEMMA KnownTail ==
  ASSUME NEW s \in Seq(Tokens), s # <<>>, NEW lines, Known(s, lines)
  PROVE  Known(Tail(s), lines) /\ Known(<<Head(s)>>, lines)
<1>1. PICK l, r, h : l = Len(s) /\ r = Tail(s) /\ h = Head(s) /\ l \in Nat
  <2>1. Len(s) \in Nat
    OBVIOUS
  <2> QED BY <2>1, Zenon
<1>2. /\ l >= 1 /\ Len(r) = l - 1 /\ h = s[1]
      /\ \A i \in 1 .. l - 1 : r[i] = s[i + 1]
  BY <1>1, TailAt
<1>3. ASSUME NEW i \in 1 .. l - 1, r[i][1] = "end" PROVE r[i][2] \in lines
  <2>1. i + 1 \in 1 .. l /\ r[i] = s[i + 1]
    BY <1>1, <1>2
  <2> QED BY <1>1, <1>3, <2>1 DEF Known
<1>4. Known(r, lines)
  BY <1>2, <1>3 DEF Known
<1>5. h[1] = "end" => h[2] \in lines
  <2>1. 1 \in 1 .. l
    BY <1>1, <1>2
  <2> QED BY <1>1, <1>2, <2>1 DEF Known
<1>6. Len(<<h>>) = 1 /\ <<h>>[1] = h
  OBVIOUS
<1>7. Known(<<h>>, lines)
  BY <1>5, <1>6 DEF Known
<1> QED BY <1>1, <1>4, <1>7

LEMMA LateJoin ==
  ASSUME NEW s \in Seq(Tokens), NEW t \in Seq(Tokens), NEW k \in Nat
  PROVE  Late(s \o t, k) <=> Late(s, Len(t) + k) /\ Late(t, k)
<1>1. PICK m, n, st : m = Len(s) /\ n = Len(t) /\ st = s \o t /\ m \in Nat /\ n \in Nat
  <2>1. Len(s) \in Nat /\ Len(t) \in Nat
    OBVIOUS
  <2> QED BY <2>1, Zenon
<1>2. /\ Len(st) = m + n
      /\ \A i \in 1 .. m : st[i] = s[i]
      /\ \A i \in 1 .. n : st[m + i] = t[i]
  BY <1>1, ConcatAt
<1>3. ASSUME Late(s, n + k), Late(t, k) PROVE Late(st, k)
  <2> SUFFICES ASSUME NEW i \in 1 .. m + n, st[i] = Ok PROVE ((m + n) - i) + k <= 1
    BY <1>2 DEF Late
  <2>1. CASE i \in 1 .. m
    <3>1. (m - i) + (n + k) <= 1
      BY <1>1, <1>2, <1>3, <2>1 DEF Late
    <3> QED BY <1>1, <3>1
  <2>2. CASE i \notin 1 .. m
    <3>1. PICK j \in 1 .. n : i = m + j
      <4>1. i - m \in 1 .. n /\ i = m + (i - m)
        BY <1>1, <2>2
      <4> QED BY <4>1
    <3>2. (n - j) + k <= 1
      BY <1>1, <1>2, <1>3, <3>1 DEF Late
    <3> QED BY <1>1, <3>1, <3>2
  <2> QED BY <2>1, <2>2
<1>4. ASSUME Late(st, k) PROVE Late(s, n + k) /\ Late(t, k)
  <2>1. ASSUME NEW i \in 1 .. m, s[i] = Ok PROVE (m - i) + (n + k) <= 1
    <3>1. i \in 1 .. m + n /\ st[i] = Ok
      BY <1>1, <1>2, <2>1
    <3>2. ((m + n) - i) + k <= 1
      BY <1>2, <1>4, <3>1 DEF Late
    <3> QED BY <1>1, <3>2
  <2>2. ASSUME NEW i \in 1 .. n, t[i] = Ok PROVE (n - i) + k <= 1
    <3>1. m + i \in 1 .. m + n /\ st[m + i] = Ok
      BY <1>1, <1>2, <2>2
    <3>2. ((m + n) - (m + i)) + k <= 1
      BY <1>2, <1>4, <3>1 DEF Late
    <3> QED BY <1>1, <3>2
  <2> QED BY <1>1, <2>1, <2>2 DEF Late
<1> QED BY <1>1, <1>3, <1>4

LEMMA LateSooner ==
  ASSUME NEW s \in Seq(Tokens), NEW k \in Nat, NEW l \in Nat, l <= k, Late(s, k)
  PROVE  Late(s, l)
<1>1. ASSUME NEW i \in 1 .. Len(s), s[i] = Ok PROVE (Len(s) - i) + l <= 1
  <2>1. (Len(s) - i) + k <= 1 /\ Len(s) \in Nat
    BY <1>1 DEF Late
  <2> QED BY <2>1
<1> QED BY <1>1 DEF Late

(* Head and tail.                                                           *)
LEMMA HeadTail ==
  ASSUME NEW D, NEW s \in Seq(D), s # <<>>
  PROVE  /\ <<Head(s)>> \in Seq(D) /\ Tail(s) \in Seq(D) /\ Len(<<Head(s)>>) = 1
         /\ s = <<Head(s)>> \o Tail(s)
<1>1. PICK h, r : h = <<Head(s)>> /\ r = Tail(s)
  OBVIOUS
<1>2. PICK l \in Nat : l = Len(s)
  OBVIOUS
<1>3. /\ Head(s) \in D /\ r \in Seq(D) /\ l >= 1 /\ Len(r) = l - 1
      /\ Head(s) = s[1] /\ \A i \in 1 .. l - 1 : r[i] = s[i + 1]
  BY <1>1, <1>2, TailAt
<1>4. h \in Seq(D) /\ Len(h) = 1 /\ h[1] = s[1]
  BY <1>1, <1>3
<1>5. /\ h \o r \in Seq(D) /\ Len(h \o r) = l
      /\ \A i \in 1 .. 1 : (h \o r)[i] = h[i]
      /\ \A i \in 1 .. l - 1 : (h \o r)[1 + i] = r[i]
  <2>1. /\ h \o r \in Seq(D) /\ Len(h \o r) = Len(h) + Len(r)
        /\ \A i \in 1 .. Len(h) : (h \o r)[i] = h[i]
        /\ \A i \in 1 .. Len(r) : (h \o r)[Len(h) + i] = r[i]
    <3>1. h \in Seq(D) /\ r \in Seq(D)
      BY <1>3, <1>4
    <3> QED BY <3>1, ConcatAt
  <2> QED BY <1>2, <1>3, <1>4, <2>1
<1>6. \A i \in 1 .. l : s[i] = (h \o r)[i]
  <2> TAKE i \in 1 .. l
  <2>1. CASE i = 1
    BY <2>1, <1>4, <1>5
  <2>2. CASE i # 1
    <3>1. PICK j \in 1 .. l - 1 : i = 1 + j /\ i = j + 1
      <4>1. i - 1 \in 1 .. l - 1 /\ i = 1 + (i - 1) /\ i = (i - 1) + 1
        BY <1>2, <2>2
      <4> QED BY <4>1
    <3> QED BY <3>1, <1>3, <1>5
  <2> QED BY <2>1, <2>2
<1>7. s = h \o r
  BY <1>2, <1>5, <1>6, SeqEqual
<1> QED BY <1>1, <1>3, <1>4, <1>7

(* One token, and none.                                                     *)
LEMMA OneToken ==
  ASSUME NEW t \in Tokens, NEW lines, NEW k \in Nat
  PROVE  /\ <<t>> \in Seq(Tokens) /\ Len(<<t>>) = 1 /\ <<t>>[1] = t
         /\ (t[1] = "end" => t[2] \in lines) <=> Known(<<t>>, lines)
         /\ Known(<<>>, lines) /\ Late(<<>>, k)
<1>1. PICK s : s = <<t>>
  OBVIOUS
<1>2. s \in Seq(Tokens) /\ Len(s) = 1 /\ s[1] = t
  BY <1>1
<1>3. (t[1] = "end" => t[2] \in lines) <=> Known(s, lines)
  BY <1>2 DEF Known
<1>4. Known(<<>>, lines) /\ Late(<<>>, k)
  BY DEF Known, Late
<1> QED BY <1>1, <1>2, <1>3, <1>4

(* Kinds of tokens, and whose the end of a line is.                         *)
LEMMA TokenKinds ==
  /\ CR[1] # "end" /\ Space[1] # "end" /\ Ok[1] # "end" /\ NL[1] # "end"
  /\ \A line : /\ Begin(line)[1] # "end" /\ Said(line)[1] # "end"
               /\ End(line)[1] = "end" /\ End(line)[2] = line
               /\ End(line) # CR /\ End(line) # Begin(line)
  /\ Space # Ok /\ CR # Ok /\ NL # Ok
BY DEF CR, Space, Ok, NL, Begin, End, Said

LEMMA KnownMore ==
  ASSUME NEW s \in Seq(Tokens), NEW lines, NEW more, lines \subseteq more, Known(s, lines)
  PROVE  Known(s, more)
BY DEF Known

LEMMA KnownSend ==
  ASSUME WireInv, NEW tokens \in Seq(Tokens), tokens # <<>>, serialSend(tokens),
         NEW lines, Known(tin, lines), Known(tokens, lines)
  PROVE  Known(tin', lines)
<1>1. CASE link = "up"
  <2>1. Last(tokens) \in Tokens /\ Last(tokens) = tokens[Len(tokens)] /\ Len(tokens) \in 1 .. Len(tokens)
    BY DEF Last
  <2>2. PICK e : e = Last(tokens)
    OBVIOUS
  <2>3. <<e>> \in Seq(Tokens) /\ Known(<<e>>, lines)
    <3>1. e \in Tokens /\ (e[1] = "end" => e[2] \in lines)
      BY <2>1, <2>2 DEF Known
    <3> QED BY <3>1, OneToken, 0 \in Nat
  <2>4. tin \in Seq(Tokens)
    BY DEF WireInv
  <2>5. Known(tin \o <<e>>, lines) /\ Known(tin \o tokens, lines)
    BY <2>3, <2>4, KnownJoin
  <2>6. Append(tin, e) = tin \o <<e>>
    BY <2>1, <2>2, <2>4
  <2>7. tin' \in {tin, Append(tin, e), tin \o tokens}
    BY <1>1, <2>2 DEF serialSend
  <2> QED BY <2>5, <2>6, <2>7
<1>2. CASE link # "up"
  BY <1>2 DEF serialSend
<1> QED BY <1>1, <1>2

LEMMA KnownEcho ==
  ASSUME NEW line \in Names, NEW lines, line \in lines
  PROVE  Known(Echo(line), lines) /\ Known(<<CR>>, lines)
<1>1. CASE line # ""
  <2>1. PICK e : e = Echo(line)
    OBVIOUS
  <2>2. Len(e) = 2 /\ e[1] = Begin(line) /\ e[2] = End(line)
    BY <1>1, <2>1, EchoType
  <2>3. Known(e, lines)
    BY <2>2, TokenKinds DEF Known
  <2> QED BY <2>1, <2>3, TokenTypes, TokenKinds, OneToken, 0 \in Nat
<1>2. CASE line = ""
  <2>1. Echo(line) = <<>>
    BY <1>2, EchoType
  <2> QED BY <2>1, TokenTypes, TokenKinds, OneToken, 0 \in Nat
<1> QED BY <1>1, <1>2

LEMMA KnownAnswer ==
  ASSUME NEW input
  PROVE  /\ <<Space>> \o Answer(input) \in Seq(Tokens)
         /\ Known(<<Space>> \o Answer(input), {}) /\ Late(<<Space>> \o Answer(input), 0)
<1>1. PICK a : a = Answer(input)
  OBVIOUS
<1>2. /\ a \in Seq(Tokens)
      /\ \A i \in 1 .. Len(a) : /\ a[i] = Ok => i = Len(a) - 1
                                /\ a[i][1] \in {"said", "ok", "nl"}
  BY <1>1, AnswerFacts
<1>3. Known(a, {})
  BY <1>2 DEF Known
<1>4. Late(a, 0)
  <2>1. ASSUME NEW i \in 1 .. Len(a), a[i] = Ok PROVE (Len(a) - i) + 0 <= 1
    <3>1. i = Len(a) - 1 /\ Len(a) \in Nat
      BY <1>2, <2>1
    <3> QED BY <3>1
  <2> QED BY <2>1 DEF Late
<1>5. PICK s : s = <<Space>>
  OBVIOUS
<1>6. s \in Seq(Tokens) /\ Known(s, {}) /\ Len(s) = 1 /\ s[1] = Space
  BY <1>5, TokenTypes, TokenKinds, OneToken, 0 \in Nat
<1>7. Late(s, Len(a) + 0)
  BY <1>6, TokenKinds DEF Late
<1>8. Known(s \o a, {}) /\ s \o a \in Seq(Tokens) /\ Late(s \o a, 0)
  BY <1>2, <1>3, <1>4, <1>6, <1>7, KnownJoin, LateJoin, Joins, 0 \in Nat
<1> QED BY <1>1, <1>5, <1>8

(* Nothing that is not in s itself.                                         *)
LEMMA LastEndRest ==
  ASSUME NEW s \in Seq(Tokens), NEW n \in 0 .. Len(s), NEW line, LastEnd(s, line)
  PROVE  /\ LastEnd(SubSeq(s, n + 1, Len(s)), line)
         /\ (\E i \in 1 .. Len(SubSeq(s, n + 1, Len(s))) : SubSeq(s, n + 1, Len(s))[i] = End(line))
              => \E i \in 1 .. Len(s) : s[i] = End(line)
<1>1. PICK r, l : r = SubSeq(s, n + 1, Len(s)) /\ l = Len(s)
  OBVIOUS
<1>2. l \in Nat /\ n \in 0 .. l
  BY <1>1
<1>3. Len(r) = l - n /\ \A i \in 1 .. l - n : r[i] = s[n + i]
  BY <1>1, Cut
<1>4. ASSUME NEW i \in 1 .. l - n, r[i] = End(line)
      PROVE  i = l - n /\ n + i \in 1 .. l /\ s[n + i] = End(line)
  <2>1. n + i \in 1 .. l /\ s[n + i] = End(line)
    BY <1>2, <1>3, <1>4
  <2>2. n + i = l
    BY <1>1, <2>1 DEF LastEnd
  <2> QED BY <1>2, <2>1, <2>2
<1>5. LastEnd(r, line)
  BY <1>3, <1>4 DEF LastEnd
<1>6. (\E i \in 1 .. Len(r) : r[i] = End(line)) => \E i \in 1 .. l : s[i] = End(line)
  BY <1>3, <1>4
<1> QED BY <1>1, <1>5, <1>6

LEMMA LastEndTail ==
  ASSUME NEW s \in Seq(Tokens), s # <<>>, NEW line, LastEnd(s, line)
  PROVE  LastEnd(Tail(s), line) /\ (Head(s) = End(line) => Tail(s) = <<>>)
<1>1. PICK l, r, h : l = Len(s) /\ r = Tail(s) /\ h = Head(s)
  OBVIOUS
<1>2. /\ l \in Nat /\ l >= 1 /\ r \in Seq(Tokens) /\ Len(r) = l - 1 /\ h = s[1]
      /\ \A i \in 1 .. l - 1 : r[i] = s[i + 1]
  BY <1>1, TailAt
<1>3. ASSUME NEW i \in 1 .. l - 1, r[i] = End(line) PROVE i = l - 1
  <2>1. i + 1 \in 1 .. l /\ s[i + 1] = End(line)
    BY <1>2, <1>3
  <2>2. i + 1 = l
    BY <1>1, <2>1 DEF LastEnd
  <2> QED BY <1>2, <2>2
<1>4. LastEnd(r, line)
  BY <1>2, <1>3 DEF LastEnd
<1>5. ASSUME h = End(line) PROVE r = <<>>
  <2>1. 1 \in 1 .. l /\ s[1] = End(line)
    BY <1>2, <1>5
  <2>2. 1 = l
    BY <1>1, <2>1 DEF LastEnd
  <2> QED BY <1>2, <2>2
<1> QED BY <1>1, <1>4, <1>5

LEMMA LateRest ==
  ASSUME NEW s \in Seq(Tokens), NEW n \in 0 .. Len(s), NEW k \in Nat, Late(s, k)
  PROVE  Late(SubSeq(s, n + 1, Len(s)), k)
<1>1. PICK a, b : a = SubSeq(s, 1, n) /\ b = SubSeq(s, n + 1, Len(s))
  OBVIOUS
<1>2. a \in Seq(Tokens) /\ b \in Seq(Tokens) /\ a \o b = s
  BY <1>1, Cut
<1>3. Late(b, k)
  BY <1>2, LateJoin
<1> QED BY <1>1, <1>3

LEMMA OwnFrame ==
  ASSUME OwnInv, UNCHANGED <<tin, tout, wire, collected, xpc, xline, echoed, sent>>
  PROVE  OwnInv'
BY DEF OwnInv, EchoPhase, PromptPhase, Known, LastEnd, Late, SentLines, Repeated

(* What the target sends reaches the wire or is dropped.                    *)
LEMMA Emits ==
  ASSUME WireInv, NEW t \in Tokens, Emit(<<t>>)
  PROVE  wire' \in {wire, wire \o <<t>>} /\ wire \in Seq(Tokens)
BY DEF Emit, WireInv

(* The target executes the line.                                            *)
LEMMA PromptReads ==
  ASSUME PromptPhase, TargetReads
  PROVE  /\ PromptPhase' /\ tin = <<CR>> /\ tin' = <<>> /\ tline' = <<>>
         /\ executed' = Append(executed, tline)
<1>1. /\ tout = <<>> /\ tin # <<>> /\ tin' = Tail(tin) /\ UNCHANGED collected
  BY DEF TargetReads, exchangeVars
<1>2. tin = <<CR>> /\ wire = <<>> /\ collected = <<>>
  BY <1>1 DEF PromptPhase
<1>3. Tail(tin) = <<>> /\ Head(tin) = CR
  BY <1>2
<1>4. /\ tout' = <<Space>> \o Answer(tline) /\ UNCHANGED wire
      /\ tline' = <<>> /\ executed' = Append(executed, tline)
  BY <1>3 DEF TargetReads
<1>5. Late(tout', 0) /\ tout' \in Seq(Tokens)
  BY <1>4, KnownAnswer
<1>6. tin' = <<>> /\ wire' = <<>> /\ collected' = <<>>
  BY <1>1, <1>2, <1>3, <1>4
<1>7. \A k \in Nat : Late(<<>>, k)
  BY DEF Late
<1>8. Len(<<>>) = 0 /\ Len(tout') \in Nat /\ 0 + Len(tout') \in Nat
  BY <1>5
<1>9. Late(collected', Len(wire') + Len(tout')) /\ Late(wire', Len(tout'))
  BY <1>6, <1>7, <1>8
<1> QED BY <1>2, <1>4, <1>5, <1>6, <1>9 DEF PromptPhase

LEMMA ReadsOwn == TypeInv /\ OwnInv /\ TargetReads => OwnInv'
<1> SUFFICES ASSUME TypeInv, OwnInv, TargetReads PROVE OwnInv'
  OBVIOUS
<1>1. /\ tout = <<>> /\ tin # <<>> /\ tin' = Tail(tin)
      /\ UNCHANGED <<collected, xpc, xline, echoed, sent>>
  BY DEF TargetReads, exchangeVars
<1>2. /\ tin \in Seq(Tokens) /\ wire \in Seq(Tokens) /\ Head(tin) \in Tokens
      /\ WireInv
  BY <1>1, TailAt DEF TypeInv, WireInv
<1>3. /\ SentLines' = SentLines /\ (Repeated' <=> Repeated)
  BY <1>1 DEF SentLines, Repeated
<1>4. Known(Tail(tin), SentLines) /\ Known(<<Head(tin)>>, SentLines)
  BY <1>1, <1>2, KnownTail DEF OwnInv
<1>5. PICK t \in Tokens : t = Head(tin)
  BY <1>2
<1>6. ASSUME xpc = "echo", ~Repeated
      PROVE  /\ LastEnd(Tail(tin), xline)
             /\ t = End(xline) => Tail(tin) = <<>>
             /\ ~\E i \in 1 .. Len(wire) : wire[i] = End(xline)
  <2>1. EchoPhase(xline)
    BY <1>6 DEF OwnInv
  <2> QED BY <1>1, <1>2, <1>5, <2>1, LastEndTail DEF EchoPhase
<1>7. CASE t = CR
  <2>1. tout' = <<Space>> \o Answer(tline) /\ UNCHANGED wire
    BY <1>5, <1>7 DEF TargetReads
  <2>2. Known(tout', {}) /\ Late(tout', 0)
    BY <2>1, KnownAnswer
  <2>3. Known(tin', SentLines') /\ Known(wire', SentLines')
    BY <1>1, <1>3, <1>4, <2>1 DEF OwnInv
  <2>4. ASSUME xpc' = "echo", ~Repeated' PROVE EchoPhase(xline)'
    <3>1. /\ LastEnd(tin', xline') /\ ~\E i \in 1 .. Len(wire') : wire'[i] = End(xline')
      BY <1>1, <1>3, <1>6, <2>1, <2>4
    <3> QED BY <3>1 DEF EchoPhase, LastEnd
  <2>5. ASSUME xpc' = "prompt", echoed', ~Repeated' PROVE PromptPhase'
    <3>1. PromptPhase
      BY <1>1, <1>3, <2>5 DEF OwnInv
    <3> QED BY <3>1, PromptReads
  <2> QED BY <2>2, <2>3, <2>4, <2>5 DEF OwnInv
<1>8. CASE t # CR
  <2>1. UNCHANGED tout /\ Emit(<<t>>)
    BY <1>5, <1>8 DEF TargetReads
  <2>2. wire' \in {wire, wire \o <<t>>}
    BY <1>2, <2>1, Emits
  <2>3. Known(tin', SentLines') /\ Known(wire', SentLines') /\ Known(tout', {})
    <3>1. Known(wire, SentLines) /\ <<t>> \in Seq(Tokens)
      BY <1>2 DEF OwnInv
    <3>2. Known(wire \o <<t>>, SentLines)
      BY <1>2, <1>4, <1>5, <3>1, KnownJoin
    <3> QED BY <1>1, <1>3, <1>4, <2>1, <2>2, <3>1, <3>2 DEF OwnInv
  <2>4. ASSUME xpc' = "echo", ~Repeated' PROVE EchoPhase(xline)'
    <3>1. /\ LastEnd(tin', xline) /\ xline' = xline /\ tout' = <<>>
          /\ t = End(xline) => tin' = <<>>
          /\ ~\E i \in 1 .. Len(wire) : wire[i] = End(xline)
      BY <1>1, <1>3, <1>6, <2>1, <2>4
    <3>2. CASE wire' = wire
      BY <3>1, <3>2 DEF EchoPhase, LastEnd
    <3>3. CASE wire' = wire \o <<t>>
      <4>1. PICK n, w : n = Len(wire) /\ n \in Nat /\ w = wire'
        BY <1>2
      <4>2. Len(w) = n + 1 /\ w[n + 1] = t /\ \A i \in 1 .. n : w[i] = wire[i]
        BY <1>2, <3>3, <4>1
      <4>3. \A i \in 1 .. n + 1 : w[i] = End(xline) => i = n + 1 /\ t = End(xline)
        <5> TAKE i \in 1 .. n + 1
        <5>1. CASE i = n + 1
          BY <4>2, <5>1
        <5>2. CASE i \in 1 .. n
          BY <3>1, <4>1, <4>2, <5>2
        <5> QED BY <4>1, <5>1, <5>2
      <4>4. LastEnd(w, xline)
        BY <4>2, <4>3 DEF LastEnd
      <4>5. (\E i \in 1 .. Len(w) : w[i] = End(xline)) => tin' = <<>>
        BY <3>1, <4>2, <4>3
      <4> QED BY <3>1, <4>1, <4>4, <4>5 DEF EchoPhase
    <3> QED BY <2>2, <3>2, <3>3
  <2>5. ~(xpc' = "prompt" /\ echoed' /\ ~Repeated')
    <3>1. SUFFICES ASSUME xpc = "prompt", echoed, ~Repeated PROVE FALSE
      BY <1>1, <1>3
    <3>2. PromptPhase
      BY <3>1 DEF OwnInv
    <3>3. tin = <<CR>>
      BY <1>1, <3>2 DEF PromptPhase
    <3> QED BY <1>5, <1>8, <3>3
  <2> QED BY <2>3, <2>4, <2>5 DEF OwnInv
<1> QED BY <1>7, <1>8

LEMMA PromptSends ==
  ASSUME TypeInv, PromptPhase, TargetSends
  PROVE  PromptPhase' /\ tin = <<>>
<1>1. /\ tout # <<>> /\ tout' = Tail(tout) /\ Emit(<<Head(tout)>>)
      /\ UNCHANGED <<tin, collected>>
  BY DEF TargetSends, exchangeVars
<1>2. /\ tout \in Seq(Tokens) /\ wire \in Seq(Tokens) /\ collected \in Seq(Tokens)
      /\ Head(tout) \in Tokens /\ WireInv
  BY <1>1, TailAt DEF TypeInv, WireInv, ExchangeInv
<1>3. PICK h : h = <<Head(tout)>>
  OBVIOUS
<1>4. /\ h \in Seq(Tokens) /\ Len(h) = 1 /\ tout = h \o tout' /\ tout' \in Seq(Tokens)
      /\ wire' \in {wire, wire \o h}
  BY <1>1, <1>2, <1>3, HeadTail, Emits
<1>5. PICK m, n : /\ m = Len(wire) /\ n = Len(tout') /\ m \in Nat /\ n \in Nat
                  /\ Len(tout) = 1 + n
  <2>1. Len(wire) \in Nat /\ Len(tout') \in Nat /\ Len(tout) = 1 + Len(tout')
    BY <1>1, <1>2, TailAt
  <2> QED BY <2>1
<1>6. /\ tin = <<>> /\ Late(collected, m + (1 + n)) /\ Late(wire, 1 + n) /\ Late(tout, 0)
  BY <1>1, <1>5 DEF PromptPhase
<1>7. Late(h, n) /\ Late(tout', 0)
  <2>1. Late(h \o tout', 0)
    BY <1>4, <1>6
  <2>2. Late(h, n + 0) /\ Late(tout', 0)
    BY <1>4, <1>5, <2>1, LateJoin, 0 \in Nat
  <2> QED BY <1>5, <2>2
<1>8. CASE wire' = wire
  <2>1. m + n \in Nat /\ m + (1 + n) \in Nat /\ 1 + n \in Nat /\ m + n <= m + (1 + n) /\ n <= 1 + n
    BY <1>5
  <2>2. Late(collected, m + n) /\ Late(wire, n)
    BY <1>2, <1>5, <1>6, <2>1, LateSooner
  <2> QED BY <1>1, <1>5, <1>6, <1>7, <1>8, <2>2 DEF PromptPhase
<1>9. CASE wire' = wire \o h
  <2>1. Late(wire \o h, n)
    BY <1>2, <1>4, <1>5, <1>6, <1>7, LateJoin
  <2>2. Len(wire') = m + 1 /\ (m + 1) + n = m + (1 + n)
    BY <1>2, <1>4, <1>5, <1>9
  <2> QED BY <1>1, <1>5, <1>6, <1>7, <1>9, <2>1, <2>2 DEF PromptPhase
<1> QED BY <1>4, <1>6, <1>8, <1>9

LEMMA SendsOwn == TypeInv /\ OwnInv /\ TargetSends => OwnInv'
<1> SUFFICES ASSUME TypeInv, OwnInv, TargetSends PROVE OwnInv'
  OBVIOUS
<1>1. /\ tout # <<>> /\ tout' = Tail(tout) /\ Emit(<<Head(tout)>>)
      /\ UNCHANGED <<tin, collected, xpc, xline, echoed, sent>>
  BY DEF TargetSends, exchangeVars
<1>2. /\ tout \in Seq(Tokens) /\ wire \in Seq(Tokens) /\ collected \in Seq(Tokens)
      /\ Head(tout) \in Tokens /\ Tail(tout) \in Seq(Tokens) /\ WireInv
  BY <1>1, TailAt DEF TypeInv, WireInv, ExchangeInv
<1>3. /\ SentLines' = SentLines /\ (Repeated' <=> Repeated)
  BY <1>1 DEF SentLines, Repeated
<1>4. PICK t, h : t = Head(tout) /\ h = <<t>>
  OBVIOUS
<1>5. /\ h \in Seq(Tokens) /\ Len(h) = 1 /\ h[1] = t
      /\ tout = h \o tout' /\ wire' \in {wire, wire \o h}
  BY <1>1, <1>2, <1>4, HeadTail, Emits
<1>6. Known(h, {}) /\ Known(tout', {})
  BY <1>1, <1>2, <1>4, KnownTail DEF OwnInv
<1>7. Known(tin', SentLines') /\ Known(wire', SentLines') /\ Known(tout', {})
  <2>1. Known(h, SentLines)
    BY <1>5, <1>6, KnownMore
  <2>2. Known(wire \o h, SentLines)
    BY <1>2, <1>5, <2>1, KnownJoin DEF OwnInv
  <2> QED BY <1>1, <1>3, <1>5, <1>6, <2>2 DEF OwnInv
<1>8. ASSUME xpc' = "echo", ~Repeated' PROVE EchoPhase(xline)'
  <2>1. EchoPhase(xline) /\ xline' = xline
    BY <1>1, <1>3, <1>8 DEF OwnInv
  <2>2. LastEnd(tin, xline) /\ ~\E i \in 1 .. Len(wire) : wire[i] = End(xline)
    BY <1>1, <2>1 DEF EchoPhase
  <2>3. t # End(xline)
    BY <1>5, <1>6, TokenKinds DEF Known
  <2>4. ~\E i \in 1 .. Len(wire') : wire'[i] = End(xline)
    <3>1. CASE wire' = wire
      BY <2>2, <3>1
    <3>2. CASE wire' = wire \o h
      <4>1. PICK n, w : n = Len(wire) /\ n \in Nat /\ w = wire'
        BY <1>2
      <4>2. Len(w) = n + 1 /\ w[n + 1] = t /\ \A i \in 1 .. n : w[i] = wire[i]
        BY <1>2, <1>4, <1>5, <3>2, <4>1
      <4>3. ASSUME NEW i \in 1 .. n + 1 PROVE w[i] # End(xline)
        <5>1. CASE i = n + 1
          BY <4>2, <5>1, <2>3
        <5>2. CASE i \in 1 .. n
          BY <2>2, <4>1, <4>2, <5>2
        <5> QED BY <4>1, <5>1, <5>2
      <4> QED BY <4>1, <4>2, <4>3
    <3> QED BY <1>5, <3>1, <3>2
  <2> QED BY <1>1, <2>1, <2>2, <2>4 DEF EchoPhase, LastEnd
<1>9. ASSUME xpc' = "prompt", echoed', ~Repeated' PROVE PromptPhase'
  <2>1. PromptPhase
    BY <1>1, <1>3, <1>9 DEF OwnInv
  <2> QED BY <2>1, PromptSends
<1> QED BY <1>7, <1>8, <1>9 DEF OwnInv

(* The connection is lost: what is on its way is gone.                      *)
LEMMA UnplugOwn == TypeInv /\ OwnInv /\ Unplug => OwnInv'
<1> SUFFICES ASSUME TypeInv, OwnInv, Unplug PROVE OwnInv'
  OBVIOUS
<1>1. /\ wire' = <<>> /\ tin' = <<>>
      /\ UNCHANGED <<tout, collected, xpc, xline, echoed, sent>>
  BY DEF Unplug, exchangeVars
<1>2. /\ tout \in Seq(Tokens) /\ wire \in Seq(Tokens) /\ collected \in Seq(Tokens)
  BY DEF TypeInv, WireInv, ExchangeInv
<1>3. Known(tin', SentLines') /\ Known(wire', SentLines') /\ Known(tout', {})
  BY <1>1 DEF OwnInv, Known
<1>4. xpc' = "echo" => EchoPhase(xline)'
  BY <1>1 DEF EchoPhase, LastEnd
<1>5. ASSUME xpc' = "prompt", echoed', ~Repeated' PROVE PromptPhase'
  <2>1. PromptPhase
    BY <1>1, <1>5 DEF OwnInv, Repeated
  <2>2. Late(<<>>, Len(tout)) /\ Len(<<>>) = 0
    BY DEF Late
  <2>3. CASE tout = <<>> /\ collected = <<>>
    BY <1>1, <2>2, <2>3 DEF PromptPhase, Late
  <2>4. CASE /\ Late(collected, Len(wire) + Len(tout)) /\ Late(wire, Len(tout)) /\ Late(tout, 0)
    <3>1. PICK m \in Nat, n \in Nat : m = Len(wire) /\ n = Len(tout)
      BY <1>2
    <3>2. m + n \in Nat /\ 0 + n \in Nat /\ 0 + n <= m + n
      BY <3>1
    <3>3. Late(collected, 0 + n)
      BY <1>2, <2>4, <3>1, <3>2, LateSooner
    <3> QED BY <1>1, <2>2, <2>4, <3>1, <3>3 DEF PromptPhase
  <2> QED BY <2>1, <2>3, <2>4 DEF PromptPhase
<1> QED BY <1>3, <1>4, <1>5 DEF OwnInv

LEMMA QuietOwn ==
  OwnInv /\ (Reconnect \/ Readline \/ Walk \/ TakeLevel \/ TakeProgress \/ UNCHANGED vars) => OwnInv'
BY OwnFrame DEF Reconnect, Readline, Walk, TakeLevel, TakeProgress, vars, exchangeVars, targetVars

(* A chunk is taken between requests.                                       *)
LEMMA ChunkOwn ==
  ASSUME TypeInv, OwnInv, NEW n \in 1 .. Len(wire), NEW data, Chunk(data, n)
  PROVE  Known(wire', SentLines)
<1>1. wire \in Seq(Tokens) /\ n \in 0 .. Len(wire)
  BY DEF TypeInv, WireInv
<1>2. Known(SubSeq(wire, n + 1, Len(wire)), SentLines)
  BY <1>1, KnownRest DEF OwnInv
<1> QED BY <1>2 DEF Chunk

LEMMA PassOwn == TypeInv /\ OwnInv /\ (PassOn \/ Starts) => OwnInv'
<1> SUFFICES ASSUME TypeInv, OwnInv, PassOn \/ Starts PROVE OwnInv'
  OBVIOUS
<1>1. xpc = "select" /\ UNCHANGED <<tin, tout, xpc, xline, echoed, sent>>
  BY DEF PassOn, Starts, exchangeVars, targetVars, TypeInv, MainInv
<1>2. SentLines' = SentLines
  BY <1>1 DEF SentLines
<1>3. wire' = wire \/ \E n \in 1 .. Len(wire) : \E data : Chunk(data, n)
  BY DEF PassOn, Starts, TimeOut
<1>4. Known(wire', SentLines)
  BY <1>3, ChunkOwn DEF OwnInv
<1> QED BY <1>1, <1>2, <1>4 DEF OwnInv

(* A line is sent for the first time: no end of it is on its way.           *)
LEMMA SentMore ==
  ASSUME sent \in Seq(Names), NEW line \in Names, sent' = Append(sent, line)
  PROVE  /\ SentLines \subseteq SentLines' /\ line \in SentLines'
         /\ ~Repeated' => line \notin SentLines
<1>1. PICK m : m = Len(sent) /\ m \in Nat
  OBVIOUS
<1>2. /\ Len(sent') = m + 1 /\ sent'[m + 1] = line /\ \A i \in 1 .. m : sent'[i] = sent[i]
  BY <1>1
<1>3. \A i \in 1 .. m : i \in 1 .. m + 1
  BY <1>1
<1>4. m + 1 \in 1 .. m + 1 /\ (m + 1) - 1 = m
  BY <1>1
<1>5. SentLines \subseteq SentLines' /\ line \in SentLines'
  BY <1>1, <1>2, <1>3, <1>4 DEF SentLines
<1>6. ASSUME line \in SentLines PROVE Repeated'
  <2>1. PICK i \in 1 .. m : sent[i] = line
    BY <1>1, <1>6 DEF SentLines
  <2>2. i \in 1 .. Len(sent') - 1 /\ sent'[i] = sent'[Len(sent')]
    BY <1>2, <1>4, <2>1
  <2> QED BY <2>2 DEF Repeated
<1> QED BY <1>5, <1>6

LEMMA NoEnds ==
  ASSUME NEW s \in Seq(Tokens), NEW lines, Known(s, lines), NEW line, line \notin lines
  PROVE  \A i \in 1 .. Len(s) : s[i] # End(line)
BY TokenKinds DEF Known

LEMMA LastEndJoin ==
  ASSUME NEW s \in Seq(Tokens), NEW t \in Seq(Tokens), NEW line,
         \A i \in 1 .. Len(s) : s[i] # End(line), LastEnd(t, line)
  PROVE  LastEnd(s \o t, line)
<1>1. PICK m, n, st : m = Len(s) /\ n = Len(t) /\ st = s \o t /\ m \in Nat /\ n \in Nat
  <2>1. Len(s) \in Nat /\ Len(t) \in Nat
    OBVIOUS
  <2> QED BY <2>1, Zenon
<1>2. /\ Len(st) = m + n
      /\ \A i \in 1 .. m : st[i] = s[i]
      /\ \A i \in 1 .. n : st[m + i] = t[i]
  BY <1>1, ConcatAt
<1>3. ASSUME NEW i \in 1 .. m + n, st[i] = End(line) PROVE i = m + n
  <2>1. i \notin 1 .. m
    BY <1>1, <1>2, <1>3
  <2>2. PICK j \in 1 .. n : i = m + j
    <3>1. i - m \in 1 .. n /\ i = m + (i - m)
      BY <1>1, <2>1
    <3> QED BY <3>1
  <2>3. j = n
    BY <1>1, <1>2, <1>3, <2>2 DEF LastEnd
  <2> QED BY <2>2, <2>3
<1>4. LastEnd(st, line)
  BY <1>2, <1>3 DEF LastEnd
<1> QED BY <1>1, <1>4

LEMMA TakesOwn == TypeInv /\ OwnInv /\ TakeLine => OwnInv'
<1> SUFFICES ASSUME TypeInv, OwnInv, TakeLine PROVE OwnInv'
  OBVIOUS
<1>1. /\ tin \in Seq(Tokens) /\ wire \in Seq(Tokens) /\ sent \in Seq(Names) /\ WireInv
  BY DEF TypeInv, WireInv, ExchangeInv
<1>2. xline' \in Names
  <2>1. todo \in Seq(Work) /\ todo # <<>> /\ Head(todo).kind = "text"
    BY DEF TakeLine, TypeInv, MainInv
  <2>2. Head(todo) \in Work
    BY <2>1
  <2>3. Head(todo).line \in STRING
    BY <2>1, <2>2, WorkKinds
  <2> QED BY <2>3 DEF TakeLine, Names
<1>3. PICK line \in Names : line = xline'
  BY <1>2
<1>4. /\ sent' = Append(sent, line) /\ UNCHANGED <<wire, tout>> /\ ~echoed'
      /\ IF line # "" THEN xpc' = "echo" /\ serialSend(Echo(line))
         ELSE xpc' = "prompt" /\ serialSend(<<CR>>)
  BY <1>3 DEF TakeLine
<1>5. /\ SentLines \subseteq SentLines' /\ line \in SentLines'
      /\ ~Repeated' => line \notin SentLines
  BY <1>1, <1>4, SentMore
<1>6. Known(tin, SentLines) /\ Known(wire, SentLines) /\ Known(tout, {})
  BY DEF OwnInv
<1>7. Known(tin, SentLines') /\ Known(wire, SentLines')
  BY <1>1, <1>5, <1>6, KnownMore
<1>8. Known(Echo(line), SentLines') /\ Known(<<CR>>, SentLines')
  BY <1>5, KnownEcho
<1>9. /\ Echo(line) \in Seq(Tokens) /\ <<CR>> \in Seq(Tokens) /\ <<CR>> # <<>>
      /\ line # "" => Echo(line) # <<>>
  <2>1. Echo(line) \in Seq(Tokens)
    BY EchoType
  <2>2. ASSUME line # "" PROVE Echo(line) # <<>>
    <3>1. Len(Echo(line)) = 2
      BY <2>2, EchoType
    <3> QED BY <3>1
  <2> QED BY <2>1, <2>2, CRType
<1>10. Known(tin', SentLines')
  BY <1>1, <1>4, <1>7, <1>8, <1>9, KnownSend
<1>11. ASSUME xpc' = "echo", ~Repeated' PROVE EchoPhase(line)'
  <2>1. line # "" /\ serialSend(Echo(line)) /\ line \notin SentLines
    BY <1>4, <1>5, <1>11
  <2>2. /\ \A i \in 1 .. Len(tin) : tin[i] # End(line)
        /\ \A i \in 1 .. Len(wire) : wire[i] # End(line)
    BY <1>1, <1>6, <2>1, NoEnds
  <2>3. PICK e, b : /\ e = Echo(line) /\ b = <<End(line)>>
                    /\ e \in Seq(Tokens) /\ b \in Seq(Tokens)
                    /\ LastEnd(e, line) /\ LastEnd(b, line) /\ tin' \in {tin, tin \o b, tin \o e}
    <3>1. PICK e, b : e = Echo(line) /\ b = <<End(line)>>
      OBVIOUS
    <3>2. /\ e \in Seq(Tokens) /\ Len(e) = 2 /\ e[1] = Begin(line) /\ e[2] = End(line)
          /\ End(line) \in Tokens
      BY <2>1, <3>1, EchoType, TokenTypes
    <3>3. b \in Seq(Tokens) /\ Len(b) = 1
      BY <3>1, <3>2
    <3>4. LastEnd(e, line) /\ LastEnd(b, line)
      BY <3>2, <3>3, TokenKinds DEF LastEnd
    <3>5. Last(e) = End(line) /\ Append(tin, End(line)) = tin \o b
      BY <1>1, <3>1, <3>2 DEF Last
    <3>6. tin' \in {tin, Append(tin, Last(e)), tin \o e}
      BY <2>1, <3>1 DEF serialSend
    <3> QED BY <3>1, <3>2, <3>3, <3>4, <3>5, <3>6
  <2>4. LastEnd(tin', line)
    <3>1. LastEnd(tin, line) /\ LastEnd(tin \o b, line) /\ LastEnd(tin \o e, line)
      BY <1>1, <2>2, <2>3, LastEndJoin DEF LastEnd
    <3> QED BY <2>3, <3>1
  <2>5. LastEnd(wire', line) /\ ~\E i \in 1 .. Len(wire') : wire'[i] = End(line)
    BY <1>4, <2>2 DEF LastEnd
  <2> QED BY <2>4, <2>5 DEF EchoPhase
<1> QED BY <1>3, <1>4, <1>6, <1>7, <1>10, <1>11 DEF OwnInv

(* The end of the last line sent is read: nothing is left to read or come.  *)
LEMMA EndRead ==
  ASSUME TypeInv, EchoPhase(xline), NEW n \in 1 .. Len(wire), wire[n] = End(xline),
         wire' = SubSeq(wire, n + 1, Len(wire))
  PROVE  wire' = <<>> /\ tin = <<>> /\ tout = <<>>
<1>1. n = Len(wire) /\ tin = <<>> /\ tout = <<>>
  BY DEF EchoPhase, LastEnd
<1>2. wire \in Seq(Tokens) /\ Len(wire) \in 0 .. Len(wire)
  BY DEF TypeInv, WireInv
<1>3. wire' \in Seq(Tokens) /\ Len(wire') = Len(wire) - Len(wire)
  BY <1>1, <1>2, Cut
<1> QED BY <1>1, <1>2, <1>3

(* What ends with both halves of an echo ends with its end.                 *)
LEMMA EchoIsLast ==
  ASSUME TypeInv, xpc = "echo", NEW n \in 1 .. Len(wire), NEW data, Chunk(data, n),
         IsSuffix(Echo(xline), collected \o data)
  PROVE  wire[n] = End(xline)
<1>1. PICK all : all = collected \o data
  OBVIOUS
<1>2. data \in Seq(Tokens) /\ Len(data) = n /\ collected \in Seq(Tokens) /\ wire \in Seq(Tokens)
  BY ChunkTypes DEF TypeInv, ExchangeInv, WireInv
<1>3. /\ Echo(xline) \in Seq(Tokens) /\ Len(Echo(xline)) = 2 /\ Echo(xline)[2] = End(xline)
  BY EchoType DEF TypeInv, ExchangeInv
<1>4. all \in Seq(Tokens) /\ all[Len(all)] = End(xline)
  <2>1. all \in Seq(Tokens)
    BY <1>1, <1>2, Joins
  <2> QED BY <1>1, <1>3, <2>1, EndsInTwo
<1>5. Len(all) = Len(collected) + n /\ all[Len(collected) + n] = data[n]
  <2>1. /\ Len(all) = Len(collected) + Len(data)
        /\ \A i \in 1 .. Len(data) : all[Len(collected) + i] = data[i]
    BY <1>1, <1>2, ConcatAt
  <2>2. n \in 1 .. Len(data)
    BY <1>2
  <2> QED BY <1>2, <2>1, <2>2
<1>6. data[n] = wire[n]
  <2>1. n \in 0 .. Len(wire) /\ n \in 1 .. n
    BY <1>2
  <2> QED BY <1>2, <2>1, Cut DEF Chunk
<1> QED BY <1>4, <1>5, <1>6

LEMMA EchoOwn == TypeInv /\ OwnInv /\ ExpectEcho => OwnInv'
<1> SUFFICES ASSUME TypeInv, OwnInv, ExpectEcho PROVE OwnInv'
  OBVIOUS
<1>1. /\ tin \in Seq(Tokens) /\ wire \in Seq(Tokens) /\ WireInv /\ xpc = "echo" /\ ~echoed
      /\ xline \in Names /\ <<CR>> \in Seq(Tokens) /\ <<CR>> # <<>>
      /\ UNCHANGED <<sent, tout>>
  BY CRType DEF TypeInv, WireInv, ExchangeInv, ExpectEcho
<1>2. SentLines' = SentLines /\ (Repeated' <=> Repeated)
  BY <1>1 DEF SentLines, Repeated
<1>3. Known(<<CR>>, SentLines)
  BY TokenTypes, TokenKinds, OneToken, 0 \in Nat
<1>4. Known(tin, SentLines) /\ Known(wire, SentLines) /\ Known(tout, {})
  BY DEF OwnInv
<1>5. CASE NoEcho
  <2>1. Known(tin', SentLines)
    BY <1>1, <1>3, <1>4, <1>5, KnownSend DEF NoEcho
  <2>2. wire' = wire /\ xpc' = "prompt" /\ ~echoed'
    BY <1>1, <1>5 DEF NoEcho, TimeOut
  <2> QED BY <1>1, <1>2, <1>4, <2>1, <2>2 DEF OwnInv
<1>6. ASSUME NEW n \in 1 .. Len(wire), NEW data, Chunk(data, n), EchoSeen(data) PROVE OwnInv'
  <2>1. /\ IsSuffix(Echo(xline), collected \o data) /\ serialSend(<<CR>>)
        /\ xpc' = "prompt" /\ collected' = <<>>
    BY <1>6 DEF EchoSeen
  <2>2. Known(tin', SentLines)
    BY <1>1, <1>3, <1>4, <2>1, KnownSend
  <2>3. Known(wire', SentLines)
    BY <1>6, ChunkOwn
  <2>4. ASSUME ~Repeated PROVE PromptPhase'
    <3>1. EchoPhase(xline) /\ wire[n] = End(xline)
      BY <1>1, <1>6, <2>1, <2>4, EchoIsLast DEF OwnInv
    <3>2. wire' = <<>> /\ tin = <<>> /\ tout = <<>> /\ tout' = <<>>
      BY <1>1, <1>6, <3>1, EndRead DEF Chunk
    <3>3. ~Busy
      BY <3>2 DEF Busy
    <3>4. <<>> \o <<CR>> = <<CR>>
      BY <1>1, ConcatEmptySeq
    <3>5. tin' = <<CR>> \/ tin' = <<>>
      BY <2>1, <3>2, <3>3, <3>4 DEF serialSend
    <3>6. \A k \in Nat : Late(<<>>, k)
      BY DEF Late
    <3>7. Len(<<>>) + Len(<<>>) \in Nat /\ Len(<<>>) \in Nat
      OBVIOUS
    <3> QED BY <2>1, <3>2, <3>5, <3>6, <3>7 DEF PromptPhase
  <2> QED BY <1>1, <1>2, <1>4, <2>1, <2>2, <2>3, <2>4 DEF OwnInv
<1>7. ASSUME NEW n \in 1 .. Len(wire), NEW data, Chunk(data, n), EchoGoesOn(data) PROVE OwnInv'
  <2>1. UNCHANGED <<xline, echoed, xpc, tin>> /\ wire' = SubSeq(wire, n + 1, Len(wire))
    BY <1>7 DEF EchoGoesOn, Chunk
  <2>2. Known(wire', SentLines)
    BY <1>7, ChunkOwn
  <2>3. ASSUME ~Repeated PROVE EchoPhase(xline)'
    <3>1. EchoPhase(xline)
      BY <1>1, <2>3 DEF OwnInv
    <3>2. n \in 0 .. Len(wire)
      BY <1>1
    <3>3. /\ LastEnd(wire', xline)
          /\ (\E i \in 1 .. Len(wire') : wire'[i] = End(xline))
               => \E i \in 1 .. Len(wire) : wire[i] = End(xline)
      BY <1>1, <2>1, <3>1, <3>2, LastEndRest DEF EchoPhase
    <3>4. /\ xline' = xline /\ LastEnd(tin', xline)
          /\ (\E i \in 1 .. Len(wire') : wire'[i] = End(xline)) => tin' = <<>> /\ tout' = <<>>
      BY <1>1, <2>1, <3>1, <3>3 DEF EchoPhase
    <3> QED BY <3>3, <3>4 DEF EchoPhase
  <2> QED BY <1>1, <1>2, <1>4, <2>1, <2>2, <2>3 DEF OwnInv
<1> QED BY <1>5, <1>6, <1>7 DEF ExpectEcho

(* What is collected is what was read before, and the chunk.                *)
LEMMA LateRead ==
  ASSUME TypeInv, PromptPhase, NEW n \in 1 .. Len(wire), NEW data, Chunk(data, n), UNCHANGED tout
  PROVE  /\ tin = <<>> /\ collected \o data \in Seq(Tokens)
         /\ Late(collected \o data, Len(wire') + Len(tout))
         /\ Late(wire', Len(tout)) /\ Late(tout, 0)
<1>1. /\ collected \in Seq(Tokens) /\ data \in Seq(Tokens) /\ wire' \in Seq(Tokens)
      /\ wire = data \o wire' /\ tout \in Seq(Tokens) /\ wire \in Seq(Tokens)
  BY ChunkTypes DEF TypeInv, ExchangeInv, WireInv
<1>2. wire # <<>>
  BY <1>1
<1>3. PICK d, w, t : /\ d = Len(data) /\ w = Len(wire') /\ t = Len(tout)
                     /\ d \in Nat /\ w \in Nat /\ t \in Nat
  <2>1. Len(data) \in Nat /\ Len(wire') \in Nat /\ Len(tout) \in Nat
    BY <1>1
  <2> QED BY <2>1, Zenon
<1>4. Len(wire) = d + w
  BY <1>1, <1>3, ConcatAt
<1>5. /\ tin = <<>> /\ Late(collected, (d + w) + t) /\ Late(wire, t) /\ Late(tout, 0)
  BY <1>2, <1>3, <1>4 DEF PromptPhase
<1>6. Late(data, w + t) /\ Late(wire', t)
  BY <1>1, <1>3, <1>5, LateJoin
<1>7. (d + w) + t = d + (w + t) /\ w + t \in Nat
  BY <1>3
<1>8. Late(collected \o data, w + t)
  BY <1>1, <1>3, <1>5, <1>6, <1>7, LateJoin
<1> QED BY <1>1, <1>3, <1>5, <1>6, <1>8, Joins

LEMMA PromptGoes ==
  ASSUME TypeInv, PromptPhase, NEW n \in 1 .. Len(wire), NEW data, Chunk(data, n),
         PromptGoesOn(data), UNCHANGED <<tin, tout>>
  PROVE  PromptPhase' /\ tin = <<>>
<1>1. PICK all : all = collected \o data
  OBVIOUS
<1>2. collected' = SubSeq(all, Flushed(all) + 1, Len(all))
  BY <1>1 DEF PromptGoesOn
<1>3. /\ tin = <<>> /\ all \in Seq(Tokens)
      /\ Late(all, Len(wire') + Len(tout)) /\ Late(wire', Len(tout)) /\ Late(tout, 0)
  BY <1>1, LateRead
<1>4. Len(wire') + Len(tout) \in Nat
  <2>1. wire' \in Seq(Tokens) /\ tout \in Seq(Tokens)
    BY ChunkTypes DEF TypeInv, WireInv
  <2> QED BY <2>1
<1>5. Late(collected', Len(wire') + Len(tout))
  BY <1>2, <1>3, <1>4, FlushedType, LateRest
<1> QED BY <1>3, <1>5 DEF PromptPhase

(* A prompt that is seen is the end of what the target has to say.          *)
LEMMA PromptLast ==
  ASSUME TypeInv, PromptPhase, NEW n \in 1 .. Len(wire), NEW data, Chunk(data, n),
         PromptSeen(data), UNCHANGED tout
  PROVE  tin = <<>> /\ tout = <<>> /\ wire' = <<>>
<1>1. PICK all : all = collected \o data
  OBVIOUS
<1>2. PICK w, t : w = Len(wire') /\ t = Len(tout) /\ w \in Nat /\ t \in Nat
  <2>1. wire' \in Seq(Tokens) /\ tout \in Seq(Tokens)
    BY ChunkTypes DEF TypeInv, WireInv
  <2>2. Len(wire') \in Nat /\ Len(tout) \in Nat
    BY <2>1
  <2> QED BY <2>2, Zenon
<1>3. tin = <<>> /\ all \in Seq(Tokens) /\ Late(all, w + t)
  BY <1>1, <1>2, LateRead
<1>4. Len(all) >= 2 /\ all[Len(all) - 1] = Ok
  BY <1>1, <1>3, PromptType, EndsInTwo DEF PromptSeen
<1>5. w = 0 /\ t = 0
  <2>1. PICK a : a = Len(all) /\ a \in Nat
    BY <1>3
  <2>2. a - 1 \in 1 .. a /\ a - (a - 1) = 1
    BY <1>4, <2>1
  <2>3. 1 + (w + t) <= 1
    BY <1>3, <1>4, <2>1, <2>2 DEF Late
  <2> QED BY <1>2, <2>3
<1>6. wire' \in Seq(Tokens) /\ tout \in Seq(Tokens)
  BY ChunkTypes DEF TypeInv, WireInv
<1>7. \A s \in Seq(Tokens) : Len(s) = 0 => s = <<>>
  OBVIOUS
<1>8. Len(wire') = 0 /\ Len(tout) = 0
  BY <1>2, <1>5
<1> QED BY <1>3, <1>6, <1>7, <1>8

LEMMA PromptOwn == TypeInv /\ OwnInv /\ ExpectPrompt => OwnInv'
<1> SUFFICES ASSUME TypeInv, OwnInv, ExpectPrompt PROVE OwnInv'
  OBVIOUS
<1>1. /\ xpc = "prompt" /\ UNCHANGED <<echoed, sent, tin, tout>>
  BY DEF ExpectPrompt, targetVars
<1>2. SentLines' = SentLines /\ (Repeated' <=> Repeated)
  BY <1>1 DEF SentLines, Repeated
<1>3. Known(tin, SentLines) /\ Known(wire, SentLines) /\ Known(tout, {})
  BY DEF OwnInv
<1>4. ASSUME Known(wire', SentLines), xpc' = "select" PROVE OwnInv'
  BY <1>1, <1>2, <1>3, <1>4 DEF OwnInv
<1>5. CASE TimeOut /\ NoPrompt(<<>>)
  BY <1>3, <1>4, <1>5 DEF TimeOut, NoPrompt, Processed
<1>6. ASSUME NEW n \in 1 .. Len(wire), NEW data, Chunk(data, n),
             PromptSeen(data) \/ NoPrompt(data)
      PROVE  OwnInv'
  BY <1>4, <1>6, ChunkOwn DEF PromptSeen, NoPrompt, Processed
<1>7. ASSUME NEW n \in 1 .. Len(wire), NEW data, Chunk(data, n), PromptGoesOn(data) PROVE OwnInv'
  <2>1. Known(wire', SentLines)
    BY <1>7, ChunkOwn
  <2>2. xpc' = xpc
    BY <1>7 DEF PromptGoesOn
  <2>3. ASSUME echoed, ~Repeated PROVE PromptPhase'
    <3>1. PromptPhase
      BY <1>1, <2>3 DEF OwnInv
    <3> QED BY <1>1, <1>7, <3>1, PromptGoes
  <2> QED BY <1>1, <1>2, <1>3, <2>1, <2>2, <2>3 DEF OwnInv
<1> QED BY <1>5, <1>6, <1>7 DEF ExpectPrompt

LEMMA NextOwn == TypeInv /\ OwnInv /\ [Next]_vars => OwnInv'
BY ReadsOwn, SendsOwn, UnplugOwn, QuietOwn, PassOwn, TakesOwn, EchoOwn, PromptOwn
   DEF Next, Target, Exchange

LEMMA OwnStep ==
  ASSUME TypeInv, OwnInv, [Next]_vars, progress = <<>>, progress' = <<TRUE>>, echoed, ~Repeated
  PROVE  ~Busy /\ wire' = <<>>
<1>1. <<TRUE>> # <<>> /\ <<TRUE>> # <<FALSE>> /\ Append(<<>>, FALSE) = <<FALSE>>
  OBVIOUS
<1>2. progress' # progress
  BY <1>1
<1>3. ~TakeProgress
  BY DEF TakeProgress
<1>4. ExpectPrompt
  BY <1>2, <1>3 DEF Next, Target, TargetReads, TargetSends, Unplug, Reconnect, Exchange, PassOn,
     TakeLine, TakeLevel, ExpectEcho, Starts, Readline, Walk, vars
<1>5. ~(TimeOut /\ NoPrompt(<<>>))
  BY <1>1 DEF NoPrompt, Processed
<1>6. PICK n, data :
         n \in 1 .. Len(wire) /\ Chunk(data, n) /\ (PromptSeen(data) \/ PromptGoesOn(data) \/ (immediate /\ NoPrompt(data)))
  BY <1>4, <1>5 DEF ExpectPrompt
<1>7. PromptSeen(data)
  BY <1>1, <1>2, <1>6 DEF NoPrompt, Processed, PromptGoesOn
<1>8. PromptPhase /\ UNCHANGED tout
  BY <1>4 DEF OwnInv, ExpectPrompt, targetVars
<1> QED BY <1>6, <1>7, <1>8, PromptLast DEF Busy

(* OwnPrompt holds however late, short of bytes or lost the connection and  *)
(* the target were before: a prompt that serialExchange takes after it has  *)
(* recognised the echo of a line sent for the first time is that line's,    *)
(* and nothing of the target's is left for the next one.                    *)
THEOREM PromptsAreOwn == Spec => OwnPrompt
<1>1. Init => TypeInv /\ OwnInv
  <2>1. ASSUME Init PROVE OwnInv
    <3>1. tin = <<>> /\ wire = <<>> /\ xpc = "select" /\ tout = <<Said("boot")>>
      BY <2>1, Zenon DEF Init
    <3>2. Said("boot") \in Tokens
      BY TokenTypes DEF Names
    <3>3. Known(tout, {})
      BY <3>1, <3>2, TokenKinds, OneToken, 0 \in Nat
    <3>4. Known(tin, SentLines) /\ Known(wire, SentLines)
      BY <3>1 DEF Known
    <3> QED BY <3>1, <3>3, <3>4 DEF OwnInv
  <2> QED BY <2>1, InitTypes
<1>2. TypeInv /\ OwnInv /\ [Next]_vars => TypeInv' /\ OwnInv'
  BY NextTypes, NextOwn
<1>3. TypeInv /\ OwnInv /\ [Next]_vars =>
         [progress = <<>> /\ progress' = <<TRUE>> /\ echoed /\ ~Repeated
          => ~Busy /\ wire' = <<>>]_vars
  BY OwnStep
<1> QED BY <1>1, <1>2, <1>3, PTL DEF Spec, OwnPrompt

-----------------------------------------------------------------------------
(* ExecutedInOrder.  What is still to be sent, of the main goroutine's work *)
(* and of what has not been typed yet.                                      *)

(* No file includes itself: what a file amounts to is what its lines and    *)
(* those of the files in it amount to.                                      *)
Expandable ==
  \A f \in DOMAIN Files :
    Expansion[f] \in Seq(STRING) /\ Expansion[f] = AllLines(Files[f], Expansion)

FileLines == [f \in Names |-> IF f \in DOMAIN Files THEN Expansion[f] ELSE <<>>]
ItemLines == [item \in Work |-> Lines(item, Expansion)]
Ahead(items) == Flat(ItemLines, items)
Left == Ahead(todo) \o Ahead(typed)

LEMMA SeqMore ==
  ASSUME NEW D, NEW E, D \subseteq E, NEW s \in Seq(D)
  PROVE  s \in Seq(E)
<1>1. s \in [1 .. Len(s) -> D] /\ Len(s) \in Nat
  OBVIOUS
<1>2. s \in [1 .. Len(s) -> E]
  BY <1>1
<1> QED BY <1>1, <1>2

LEMMA FileLinesType ==
  ASSUME Expandable
  PROVE  /\ FileLines \in [Names -> Seq(Names)]
         /\ \A f \in DOMAIN Files : f \in Names /\ FileLines[f] = Expansion[f]
         /\ FileLines[""] = <<>>
<1>1. STRING \subseteq Names /\ "" \in Names
  BY DEF Names
<1>2. \A f \in DOMAIN Files : f \in Names /\ f # ""
  BY <1>1, ConsoleAssumption
<1>3. <<>> \in Seq(Names)
  OBVIOUS
<1>4. ASSUME NEW f \in DOMAIN Files PROVE Expansion[f] \in Seq(Names)
  <2>1. Expansion[f] \in Seq(STRING)
    BY DEF Expandable
  <2> QED BY <1>1, <2>1, SeqMore
<1>5. \A f \in Names : (IF f \in DOMAIN Files THEN Expansion[f] ELSE <<>>) \in Seq(Names)
  BY <1>3, <1>4
<1> QED BY <1>1, <1>2, <1>5, Zenon DEF FileLines

LEMMA ItemLinesType ==
  ASSUME Expandable
  PROVE  /\ ItemLines \in [Work -> Seq(Names)]
         /\ \A item \in Work :
              /\ item.kind = "text" => ItemLines[item] = <<item.line>>
              /\ item.kind = "include" => ItemLines[item] = Flat(FileLines, item.files)
              /\ item.kind \notin {"text", "include"} => ItemLines[item] = <<>>
<1>1. ASSUME NEW item \in Work
      PROVE  /\ Lines(item, Expansion) \in Seq(Names)
             /\ item.kind = "text" => Lines(item, Expansion) = <<item.line>>
             /\ item.kind = "include" => Lines(item, Expansion) = Flat(FileLines, item.files)
             /\ item.kind \notin {"text", "include"} => Lines(item, Expansion) = <<>>
  <2>1. CASE item.kind = "text"
    <3>1. Lines(item, Expansion) = <<item.line>>
      BY <2>1 DEF Lines
    <3>2. item.line \in Names
      BY <2>1, WorkKinds DEF Names
    <3>3. <<item.line>> \in Seq(Names)
      BY <3>2
    <3> QED BY <2>1, <3>1, <3>3
  <2>2. CASE item.kind = "include"
    <3>1. PICK files : files = item.files /\ files \in Seq(Names)
      <4>1. STRING \subseteq Names /\ item.files \in Seq(STRING)
        BY <2>2, WorkKinds DEF Names
      <4> QED BY <4>1, SeqMore
    <3>2. \A j \in DOMAIN files :
             (IF files[j] \in DOMAIN Files THEN Expansion[files[j]] ELSE <<>>) = FileLines[files[j]]
      <4>1. \A j \in DOMAIN files : files[j] \in Names
        BY <3>1
      <4> QED BY <4>1 DEF FileLines
    <3>3. Lines(item, Expansion) =
            FlattenSeq([j \in DOMAIN files |->
               IF files[j] \in DOMAIN Files THEN Expansion[files[j]] ELSE <<>>])
      BY <2>2, <3>1 DEF Lines
    <3>4. [j \in DOMAIN files |-> IF files[j] \in DOMAIN Files THEN Expansion[files[j]] ELSE <<>>]
             = Mapped(FileLines, files)
      BY <3>2, Zenon DEF Mapped
    <3>5. Lines(item, Expansion) = Flat(FileLines, files)
      BY <3>3, <3>4, Zenon DEF Flat
    <3>6. Flattened(FileLines, Names, Names)
      BY FileLinesType, FlatFacts
    <3> QED BY <2>2, <3>1, <3>5, <3>6 DEF Flattened
  <2>3. CASE item.kind \notin {"text", "include"}
    <3>1. Lines(item, Expansion) = <<>>
      BY <2>3 DEF Lines
    <3>2. <<>> \in Seq(Names)
      OBVIOUS
    <3> QED BY <2>3, <3>1, <3>2
  <2> QED BY <2>1, <2>2, <2>3
<1> QED BY <1>1, Zenon DEF ItemLines

AheadJoin == \A s, t \in Seq(Work) : Ahead(s \o t) = Ahead(s) \o Ahead(t)

LEMMA AheadFacts ==
  ASSUME Expandable
  PROVE  /\ Ahead(<<>>) = <<>>
         /\ \A s \in Seq(Work) : Ahead(s) \in Seq(Names)
         /\ \A item \in Work : Ahead(<<item>>) = ItemLines[item]
         /\ AheadJoin
<1>1. Flattened(ItemLines, Work, Names)
  BY ItemLinesType, FlatFacts
<1> QED BY <1>1, Zenon DEF Flattened, Ahead, AheadJoin

LEMMA AheadHead ==
  ASSUME Expandable, NEW s \in Seq(Work), s # <<>>
  PROVE  Ahead(s) = ItemLines[Head(s)] \o Ahead(Tail(s))
<1>1. /\ <<Head(s)>> \in Seq(Work) /\ Tail(s) \in Seq(Work) /\ s = <<Head(s)>> \o Tail(s)
  BY HeadTail
<1>2. Head(s) \in Work
  OBVIOUS
<1>3. Ahead(<<Head(s)>> \o Tail(s)) = Ahead(<<Head(s)>>) \o Ahead(Tail(s))
  BY <1>1, AheadFacts, Zenon DEF AheadJoin
<1>4. Ahead(<<Head(s)>>) = ItemLines[Head(s)]
  BY <1>2, AheadFacts, Zenon
<1> QED BY <1>1, <1>3, <1>4, Zenon

(* What is read of a file is what it amounts to.                            *)
LEMMA AllAhead ==
  ASSUME NEW items \in Seq(Item)
  PROVE  items \in Seq(Work) /\ AllLines(items, Expansion) = Ahead(items)
<1>1. items \in Seq(Work)
  BY DEF Work
<1>2. \A i \in DOMAIN items : items[i] \in Work
  BY <1>1
<1>3. \A i \in DOMAIN items : Lines(items[i], Expansion) = ItemLines[items[i]]
  BY <1>2 DEF ItemLines
<1>4. [i \in DOMAIN items |-> Lines(items[i], Expansion)] = Mapped(ItemLines, items)
  BY <1>3, Zenon DEF Mapped
<1> QED BY <1>1, <1>4, Zenon DEF AllLines, Ahead, Flat

LEMMA FileAhead ==
  ASSUME Expandable, NEW f \in Names
  PROVE  Ahead(doInclude(f)) = FileLines[f]
<1>1. CASE f = ""
  BY <1>1, FileLinesType, AheadFacts, Zenon DEF doInclude
<1>2. CASE f # ""
  <2>1. PICK c : c = Content(f)
    OBVIOUS
  <2>2. c \in Seq(Item) /\ c \in Seq(Work)
    BY <2>1, ContentType, AllAhead
  <2>3. Ahead(c) = FileLines[f]
    <3>1. CASE f \in DOMAIN Files
      <4>1. c = Files[f] /\ AllLines(Files[f], Expansion) = Expansion[f]
        BY <2>1, <3>1 DEF Content, Expandable
      <4>2. Ahead(c) = Expansion[f]
        BY <2>2, <4>1, AllAhead, Zenon
      <4> QED BY <3>1, <4>2, FileLinesType
    <3>2. CASE f \notin DOMAIN Files
      <4>1. c = <<>> /\ FileLines[f] = <<>>
        BY <2>1, <3>2 DEF Content, FileLines
      <4> QED BY <4>1, AheadFacts
    <3> QED BY <3>1, <3>2
  <2>4. PICK a, b : a = <<Level(1)>> /\ b = <<Level(-1)>>
    OBVIOUS
  <2>5. a \in Seq(Work) /\ b \in Seq(Work) /\ Ahead(a) = <<>> /\ Ahead(b) = <<>>
    <3>1. Level(1) \in Work /\ Level(-1) \in Work
      BY DEF Work
    <3>2. Level(1).kind \notin {"text", "include"} /\ Level(-1).kind \notin {"text", "include"}
      BY DEF Level
    <3>3. ItemLines[Level(1)] = <<>> /\ ItemLines[Level(-1)] = <<>>
      BY <3>1, <3>2, ItemLinesType
    <3>4. <<Level(1)>> \in Seq(Work) /\ <<Level(-1)>> \in Seq(Work)
      BY <3>1
    <3> QED BY <2>4, <3>1, <3>3, <3>4, AheadFacts, Zenon
  <2>6. a \o c \in Seq(Work) /\ Ahead(a \o c) = Ahead(a) \o Ahead(c)
    BY <2>2, <2>5, AheadFacts, Joins DEF AheadJoin
  <2>7. Ahead((a \o c) \o b) = Ahead(a \o c) \o Ahead(b)
    BY <2>5, <2>6, AheadFacts DEF AheadJoin
  <2>8. FileLines[f] \in Seq(Names)
    BY FileLinesType
  <2>9. Ahead((a \o c) \o b) = FileLines[f]
    BY <2>3, <2>5, <2>6, <2>7, <2>8, ConcatEmptySeq
  <2>10. doInclude(f) = (a \o c) \o b
    BY <1>2, <2>1, <2>4 DEF doInclude
  <2> QED BY <2>9, <2>10
<1> QED BY <1>1, <1>2

LEMMA IncludeAhead ==
  ASSUME Expandable, NEW files \in Seq(STRING), files # <<>>
  PROVE  /\ doInclude(Head(files)) \o <<Include(Tail(files))>> \in Seq(Work)
         /\ Ahead(doInclude(Head(files)) \o <<Include(Tail(files))>>) = Flat(FileLines, files)
<1>1. PICK f, r, i : f = Head(files) /\ r = Tail(files) /\ i = Include(r)
  OBVIOUS
<1>2. /\ f \in STRING /\ <<f>> \in Seq(STRING) /\ r \in Seq(STRING) /\ files = <<f>> \o r
  BY <1>1, HeadTail
<1>3. i \in Work /\ i.kind = "include" /\ i.files = r
  BY <1>1, <1>2 DEF Work, Item, Include
<1>0. STRING \subseteq Names /\ f \in Names /\ r \in Seq(Names) /\ <<f>> \in Seq(Names)
  <2>1. STRING \subseteq Names
    BY DEF Names
  <2>2. f \in Names
    BY <1>2, <2>1
  <2> QED BY <1>2, <2>1, <2>2, SeqMore
<1>4. <<i>> \in Seq(Work) /\ Ahead(<<i>>) = Flat(FileLines, r)
  <2>1. ItemLines[i] = Flat(FileLines, r)
    BY <1>3, ItemLinesType
  <2>2. <<i>> \in Seq(Work)
    BY <1>3
  <2> QED BY <1>3, <2>1, <2>2, AheadFacts
<1>5. doInclude(f) \in Seq(Work) /\ Ahead(doInclude(f)) = FileLines[f]
  BY <1>0, ContentType, FileAhead
<1>6. doInclude(f) \o <<i>> \in Seq(Work) /\ Ahead(doInclude(f) \o <<i>>) = FileLines[f] \o Flat(FileLines, r)
  <2>1. Ahead(doInclude(f) \o <<i>>) = Ahead(doInclude(f)) \o Ahead(<<i>>)
    BY <1>4, <1>5, AheadFacts DEF AheadJoin
  <2> QED BY <1>4, <1>5, <2>1, Joins
<1>7. Flat(FileLines, <<f>> \o r) = FileLines[f] \o Flat(FileLines, r)
  <2>1. Flattened(FileLines, Names, Names)
    BY FileLinesType, FlatFacts
  <2>2. /\ Flat(FileLines, <<f>> \o r) = Flat(FileLines, <<f>>) \o Flat(FileLines, r)
        /\ Flat(FileLines, <<f>>) = FileLines[f]
    BY <1>0, <2>1, Zenon DEF Flattened
  <2> QED BY <2>2, Zenon
<1> QED BY <1>1, <1>2, <1>6, <1>7

(* The main goroutine only takes lines off what is left by sending them.    *)
LEMMA LeftTypes ==
  ASSUME Expandable, TypeInv
  PROVE  Ahead(todo) \in Seq(Names) /\ Ahead(typed) \in Seq(Names) /\ Left \in Seq(Names)
<1>1. todo \in Seq(Work) /\ typed \in Seq(Item)
  BY DEF TypeInv, MainInv
<1>2. typed \in Seq(Work)
  BY <1>1, AllAhead
<1>3. Ahead(todo) \in Seq(Names) /\ Ahead(typed) \in Seq(Names)
  BY <1>1, <1>2, AheadFacts
<1> QED BY <1>3, Joins DEF Left

LEMMA WalkLeft ==
  ASSUME Expandable, TypeInv, Walk
  PROVE  Left' = Left
<1>1. /\ todo \in Seq(Work) /\ todo # <<>> /\ UNCHANGED typed
  BY DEF Walk, TypeInv, MainInv
<1>2. /\ Head(todo) \in Work /\ Tail(todo) \in Seq(Work)
      /\ Ahead(todo) = ItemLines[Head(todo)] \o Ahead(Tail(todo))
      /\ Ahead(Tail(todo)) \in Seq(Names)
  <2>1. Head(todo) \in Work /\ Tail(todo) \in Seq(Work)
    BY <1>1
  <2> QED BY <1>1, <2>1, AheadHead, AheadFacts
<1>3. CASE Head(todo).kind = "blank"
  <2>1. todo' = Tail(todo)
    BY <1>3 DEF Walk
  <2>2. ItemLines[Head(todo)] = <<>>
    BY <1>2, <1>3, ItemLinesType
  <2>3. Ahead(todo) = Ahead(Tail(todo))
    BY <1>2, <2>2, ConcatEmptySeq
  <2> QED BY <1>1, <2>1, <2>3 DEF Left
<1>4. CASE Head(todo).kind = "include"
  <2>1. PICK files : files = Head(todo).files /\ files \in Seq(STRING)
    BY <1>2, <1>4, WorkKinds
  <2>2. todo' = IF files = <<>> THEN Tail(todo)
                ELSE doInclude(Head(files)) \o <<Include(Tail(files))>> \o Tail(todo)
    BY <1>4, <2>1 DEF Walk
  <2>3. ItemLines[Head(todo)] = Flat(FileLines, files)
    BY <1>2, <1>4, <2>1, ItemLinesType
  <2>4. CASE files = <<>>
    <3>1. Flat(FileLines, <<>>) = <<>>
      BY FileLinesType, FlatFacts DEF Flattened
    <3>2. Ahead(todo) = Ahead(Tail(todo))
      BY <1>2, <2>3, <2>4, <3>1, ConcatEmptySeq
    <3> QED BY <1>1, <2>2, <2>4, <3>2 DEF Left
  <2>5. CASE files # <<>>
    <3>1. PICK new : new = doInclude(Head(files)) \o <<Include(Tail(files))>>
      OBVIOUS
    <3>2. new \in Seq(Work) /\ Ahead(new) = Flat(FileLines, files)
      BY <2>1, <2>5, <3>1, IncludeAhead
    <3>3. todo' = new \o Tail(todo)
      BY <2>2, <2>5, <3>1
    <3>4. Ahead(new \o Tail(todo)) = Ahead(new) \o Ahead(Tail(todo))
      BY <1>2, <3>2, AheadFacts, Zenon DEF AheadJoin
    <3>5. Ahead(todo') = Ahead(todo)
      BY <1>2, <2>3, <3>2, <3>3, <3>4
    <3> QED BY <1>1, <3>5 DEF Left
  <2> QED BY <2>4, <2>5
<1> QED BY <1>3, <1>4 DEF Walk

LEMMA LevelLeft ==
  ASSUME Expandable, TypeInv, TakeLevel
  PROVE  Left' = Left
<1>1. /\ todo \in Seq(Work) /\ todo # <<>> /\ Head(todo).kind = "level" /\ todo' = Tail(todo)
      /\ UNCHANGED typed
  BY DEF TakeLevel, TypeInv, MainInv
<1>2. Head(todo) \in Work /\ Tail(todo) \in Seq(Work)
  BY <1>1
<1>3. Ahead(Tail(todo)) \in Seq(Names) /\ Ahead(todo) = ItemLines[Head(todo)] \o Ahead(Tail(todo))
  BY <1>1, <1>2, AheadHead, AheadFacts
<1>4. ItemLines[Head(todo)] = <<>>
  BY <1>1, <1>2, ItemLinesType
<1>5. Ahead(todo) = Ahead(Tail(todo))
  BY <1>3, <1>4, ConcatEmptySeq
<1> QED BY <1>1, <1>5 DEF Left

LEMMA ReadLeft ==
  ASSUME Expandable, TypeInv, Readline
  PROVE  Left' = Left
<1>1. /\ typed \in Seq(Item) /\ typed # <<>> /\ todo = <<>> /\ todo' = <<Head(typed)>>
      /\ typed' = Tail(typed)
  BY DEF Readline, TypeInv, MainInv
<1>2. typed \in Seq(Work)
  BY <1>1, AllAhead
<1>3. /\ Head(typed) \in Work /\ Tail(typed) \in Seq(Work)
      /\ Ahead(<<Head(typed)>>) = ItemLines[Head(typed)]
      /\ Ahead(typed) = ItemLines[Head(typed)] \o Ahead(Tail(typed))
  <2>1. Head(typed) \in Work /\ Tail(typed) \in Seq(Work)
    BY <1>1, <1>2
  <2> QED BY <1>1, <1>2, <2>1, AheadHead, AheadFacts, Zenon
<1>4. Left' = Ahead(typed)
  BY <1>1, <1>3, Zenon DEF Left
<1>5. Left = Ahead(typed)
  BY <1>1, LeftTypes, AheadFacts, ConcatEmptySeq DEF Left
<1> QED BY <1>4, <1>5

LEMMA LineLeft ==
  ASSUME Expandable, TypeInv, TypeInv', TakeLine
  PROVE  /\ Left = <<xline'>> \o Left' /\ Left' \in Seq(Names) /\ xline' \in Names
<1>1. /\ todo \in Seq(Work) /\ todo # <<>> /\ Head(todo).kind = "text" /\ todo' = Tail(todo)
      /\ xline' = Head(todo).line /\ UNCHANGED typed /\ xline' \in Names
  BY DEF TakeLine, TypeInv, MainInv, ExchangeInv
<1>2. Head(todo) \in Work /\ Tail(todo) \in Seq(Work)
  BY <1>1
<1>3. Ahead(Tail(todo)) \in Seq(Names) /\ Ahead(todo) = ItemLines[Head(todo)] \o Ahead(Tail(todo))
  BY <1>1, <1>2, AheadHead, AheadFacts
<1>4. ItemLines[Head(todo)] = <<xline'>>
  BY <1>1, <1>2, ItemLinesType
<1>5. PICK a, t, l : a = Ahead(Tail(todo)) /\ t = Ahead(typed) /\ l = <<xline'>>
  OBVIOUS
<1>6. a \in Seq(Names) /\ t \in Seq(Names) /\ l \in Seq(Names)
  BY <1>1, <1>3, <1>5, LeftTypes
<1>7. Left' = a \o t /\ Left = (l \o a) \o t
  BY <1>1, <1>3, <1>4, <1>5, Zenon DEF Left
<1>8. (l \o a) \o t = l \o (a \o t) /\ a \o t \in Seq(Names)
  BY <1>6, ConcatAssociative, Joins
<1> QED BY <1>1, <1>5, <1>7, <1>8

-----------------------------------------------------------------------------
(* How deep in files the main goroutine is, and will be at each item of its *)
(* work: a line is immediate only if nothing is left to do after it.        *)

Deeper(item) == IF item.kind = "level" THEN item.n ELSE 0

LevelsTo(s, n, from, to, lev) ==
  /\ lev \in [1 .. n + 1 -> Nat] /\ lev[1] = from /\ lev[n + 1] = to
  /\ \A i \in 1 .. n : lev[i + 1] = lev[i] + Deeper(s[i]) /\ (s[i].kind = "text" => lev[i] >= 1)
Levels(s, from, to, lev) == LevelsTo(s, Len(s), from, to, lev)
Path(s, from, to) == \E lev : Levels(s, from, to, lev)

NestInv ==
  /\ depth \in Nat
  /\ \/ \E to : Path(todo, depth, to)
     \/ Len(todo) = 1 /\ Head(todo).kind = "text"

LEMMA DeeperType == \A item \in Work : Deeper(item) \in Int
BY WorkKinds DEF Deeper

LEMMA PathNone ==
  ASSUME NEW a \in Nat
  PROVE  Path(<<>>, a, a)
<1> DEFINE lev == [i \in 1 .. 1 |-> a]
<1>1. Levels(<<>>, a, a, lev)
  BY DEF Levels, LevelsTo
<1> QED BY <1>1 DEF Path

LEMMA PathFlat ==
  ASSUME NEW s \in Seq(Item), NEW a \in Nat, a >= 1
  PROVE  Path(s, a, a)
<1> DEFINE lev == [i \in 1 .. Len(s) + 1 |-> a]
<1>1. \A i \in 1 .. Len(s) : Deeper(s[i]) = 0
  <2>1. \A item \in Item : item.kind # "level"
    BY DEF Item, Blank
  <2> QED BY <2>1 DEF Deeper
<1>2. Len(s) \in Nat
  OBVIOUS
<1>3. Levels(s, a, a, lev)
  BY <1>1, <1>2 DEF Levels, LevelsTo
<1> QED BY <1>3 DEF Path

LEMMA PathOne ==
  ASSUME NEW item \in Work, NEW a \in Nat, a + Deeper(item) \in Nat,
         item.kind = "text" => a >= 1
  PROVE  Path(<<item>>, a, a + Deeper(item))
<1> DEFINE lev == [i \in 1 .. 2 |-> IF i = 1 THEN a ELSE a + Deeper(item)]
<1>1. PICK s : s = <<item>>
  OBVIOUS
<1>2. Len(s) = 1 /\ s[1] = item
  BY <1>1
<1>3. /\ lev \in [1 .. 2 -> Nat] /\ lev[1] = a /\ lev[2] = a + Deeper(item)
  OBVIOUS
<1> HIDE DEF lev
<1>4. Levels(s, a, a + Deeper(item), lev)
  BY <1>2, <1>3 DEF Levels, LevelsTo
<1> QED BY <1>1, <1>4 DEF Path

LEMMA PathJoin ==
  ASSUME NEW s \in Seq(Work), NEW t \in Seq(Work), NEW a, NEW b, NEW c,
         Path(s, a, b), Path(t, b, c)
  PROVE  Path(s \o t, a, c)
<1>1. PICK m, n, st : m = Len(s) /\ n = Len(t) /\ st = s \o t /\ m \in Nat /\ n \in Nat
  <2>1. Len(s) \in Nat /\ Len(t) \in Nat
    OBVIOUS
  <2> QED BY <2>1, Zenon
<1>2. /\ Len(st) = m + n
      /\ \A i \in 1 .. m : st[i] = s[i]
      /\ \A i \in 1 .. n : st[m + i] = t[i]
  BY <1>1, ConcatAt
<1>3. PICK l, k : Levels(s, a, b, l) /\ Levels(t, b, c, k)
  BY DEF Path
<1>4. /\ l \in [1 .. m + 1 -> Nat] /\ l[1] = a /\ l[m + 1] = b
      /\ \A i \in 1 .. m : l[i + 1] = l[i] + Deeper(s[i]) /\ (s[i].kind = "text" => l[i] >= 1)
      /\ k \in [1 .. n + 1 -> Nat] /\ k[1] = b /\ k[n + 1] = c
      /\ \A i \in 1 .. n : k[i + 1] = k[i] + Deeper(t[i]) /\ (t[i].kind = "text" => k[i] >= 1)
  <2>1. LevelsTo(s, m, a, b, l) /\ LevelsTo(t, n, b, c, k)
    BY <1>1, <1>3, Zenon DEF Levels
  <2> QED BY <2>1, Zenon DEF LevelsTo
<1> DEFINE lev == [i \in 1 .. (m + n) + 1 |-> IF i <= m THEN l[i] ELSE k[i - m]]
<1>5. /\ \A i \in 1 .. m + 1 : lev[i] = l[i]
      /\ \A i \in 1 .. n + 1 : lev[m + i] = k[i]
  <2>1. ASSUME NEW i \in 1 .. m + 1 PROVE lev[i] = l[i]
    <3>1. CASE i <= m
      BY <1>1, <3>1
    <3>2. CASE i = m + 1
      <4>1. i \in 1 .. (m + n) + 1 /\ ~(i <= m) /\ i - m = 1
        BY <1>1, <3>2
      <4> QED BY <1>4, <3>2, <4>1
    <3> QED BY <1>1, <3>1, <3>2
  <2>2. ASSUME NEW i \in 1 .. n + 1 PROVE lev[m + i] = k[i]
    <3>1. m + i \in 1 .. (m + n) + 1 /\ ~(m + i <= m) /\ (m + i) - m = i
      BY <1>1
    <3> QED BY <3>1
  <2> QED BY <2>1, <2>2
<1>6. lev \in [1 .. (m + n) + 1 -> Nat]
  <2>1. ASSUME NEW i \in 1 .. (m + n) + 1 PROVE lev[i] \in Nat
    <3>1. CASE i <= m
      <4>1. i \in 1 .. m + 1
        BY <1>1, <3>1
      <4> QED BY <1>4, <1>5, <4>1
    <3>2. CASE ~(i <= m)
      <4>1. i - m \in 1 .. n + 1
        BY <1>1, <3>2
      <4> QED BY <1>4, <3>2, <4>1
    <3> QED BY <3>1, <3>2
  <2> QED BY <2>1
<1> HIDE DEF lev
<1>7. ASSUME NEW i \in 1 .. m + n
      PROVE  lev[i + 1] = lev[i] + Deeper(st[i]) /\ (st[i].kind = "text" => lev[i] >= 1)
  <2>1. CASE i \in 1 .. m
    <3>1. i \in 1 .. m + 1 /\ i + 1 \in 1 .. m + 1
      BY <1>1, <2>1
    <3> QED BY <1>2, <1>4, <1>5, <2>1, <3>1
  <2>2. CASE i \notin 1 .. m
    <3>1. PICK j \in 1 .. n : i = m + j /\ i + 1 = m + (j + 1) /\ j + 1 \in 1 .. n + 1 /\ j \in 1 .. n + 1
      <4>1. i - m \in 1 .. n /\ i = m + (i - m) /\ i + 1 = m + ((i - m) + 1)
            /\ (i - m) + 1 \in 1 .. n + 1 /\ i - m \in 1 .. n + 1
        BY <1>1, <2>2
      <4> QED BY <4>1
    <3> QED BY <1>2, <1>4, <1>5, <3>1
  <2> QED BY <2>1, <2>2
<1>8. lev[1] = a /\ lev[(m + n) + 1] = c
  <2>1. 1 \in 1 .. m + 1 /\ n + 1 \in 1 .. n + 1 /\ m + (n + 1) = (m + n) + 1
    BY <1>1
  <2> QED BY <1>4, <1>5, <2>1
<1>9. Levels(st, a, c, lev)
  BY <1>2, <1>6, <1>7, <1>8 DEF Levels, LevelsTo
<1> QED BY <1>1, <1>9 DEF Path

LEMMA PathTail ==
  ASSUME NEW s \in Seq(Work), s # <<>>, NEW a, NEW c, Path(s, a, c)
  PROVE  /\ a \in Nat /\ a + Deeper(Head(s)) \in Nat
         /\ Path(Tail(s), a + Deeper(Head(s)), c)
         /\ Head(s).kind = "text" => a >= 1
<1>1. PICK h, r, m : h = Head(s) /\ r = Tail(s) /\ m = Len(s) /\ m \in Nat
  <2>1. Len(s) \in Nat
    OBVIOUS
  <2> QED BY <2>1, Zenon
<1>2. /\ h \in Work /\ m >= 1 /\ r \in Seq(Work) /\ Len(r) = m - 1 /\ h = s[1]
      /\ \A i \in 1 .. m - 1 : r[i] = s[i + 1]
  BY <1>1, TailAt
<1>3. PICK l : Levels(s, a, c, l)
  BY DEF Path
<1>4. /\ l \in [1 .. m + 1 -> Nat] /\ l[1] = a /\ l[m + 1] = c
      /\ \A i \in 1 .. m : l[i + 1] = l[i] + Deeper(s[i]) /\ (s[i].kind = "text" => l[i] >= 1)
  <2>1. LevelsTo(s, m, a, c, l)
    BY <1>1, <1>3, Zenon DEF Levels
  <2> QED BY <2>1, Zenon DEF LevelsTo
<1>5. 1 \in 1 .. m + 1 /\ 2 \in 1 .. m + 1 /\ 1 \in 1 .. m /\ 1 + 1 = 2 /\ (m - 1) + 1 = m
  BY <1>1, <1>2
<1>6. a \in Nat /\ l[2] \in Nat /\ l[2] = a + Deeper(h) /\ (h.kind = "text" => a >= 1)
  BY <1>2, <1>4, <1>5
<1> DEFINE lev == [i \in 1 .. m |-> l[i + 1]]
<1>7. /\ lev \in [1 .. m -> Nat] /\ lev[1] = l[2] /\ lev[m] = c
      /\ \A i \in 1 .. m : lev[i] = l[i + 1]
  <2>1. \A i \in 1 .. m : i + 1 \in 1 .. m + 1
    BY <1>1
  <2>2. m \in 1 .. m
    BY <1>1, <1>2
  <2> QED BY <1>4, <1>5, <2>1, <2>2
<1> HIDE DEF lev
<1>8. ASSUME NEW i \in 1 .. m - 1
      PROVE  lev[i + 1] = lev[i] + Deeper(r[i]) /\ (r[i].kind = "text" => lev[i] >= 1)
  <2>1. i + 1 \in 1 .. m /\ i \in 1 .. m /\ r[i] = s[i + 1]
    BY <1>1, <1>2
  <2> QED BY <1>4, <1>7, <2>1
<1>9. Levels(r, l[2], c, lev)
  BY <1>2, <1>5, <1>7, <1>8 DEF Levels, LevelsTo
<1> QED BY <1>1, <1>6, <1>9 DEF Path

LEMMA NestRest ==
  ASSUME TypeInv, NestInv, todo # <<>>, NEW to, Path(todo, depth, to),
         todo' = Tail(todo), depth' = depth + Deeper(Head(todo))
  PROVE  NestInv'
<1>1. todo \in Seq(Work)
  BY DEF TypeInv, MainInv
<1>2. depth' \in Nat /\ Path(todo', depth', to)
  BY <1>1, PathTail
<1> QED BY <1>2 DEF NestInv

LEMMA WalkNest == TypeInv /\ NestInv /\ Walk => NestInv'
<1> SUFFICES ASSUME TypeInv, NestInv, Walk PROVE NestInv'
  OBVIOUS
<1>1. /\ todo \in Seq(Work) /\ todo # <<>> /\ depth' = depth /\ depth \in Nat
      /\ Head(todo) \in Work /\ Tail(todo) \in Seq(Work)
      /\ Head(todo).kind \in {"include", "blank"}
  <2>1. todo \in Seq(Work) /\ todo # <<>>
    BY DEF Walk, TypeInv, MainInv
  <2> QED BY <2>1 DEF Walk, NestInv, exchangeVars
<1>2. Deeper(Head(todo)) = 0 /\ depth + Deeper(Head(todo)) = depth
  BY <1>1 DEF Deeper
<1>3. PICK to : Path(todo, depth, to)
  BY <1>1 DEF NestInv
<1>4. CASE todo' = Tail(todo)
  BY <1>1, <1>2, <1>3, <1>4, NestRest
<1>5. CASE todo' # Tail(todo)
  <2>1. PICK files : files = Head(todo).files /\ files # <<>> /\ Head(todo).kind = "include"
                     /\ todo' = doInclude(Head(files)) \o <<Include(Tail(files))>> \o Tail(todo)
    BY <1>1, <1>5 DEF Walk
  <2>2. files \in Seq(STRING)
    BY <1>1, <2>1, WorkKinds
  <2>3. PICK f, i, a, b, c, r : f = Head(files) /\ i = Include(Tail(files)) /\ a = <<Level(1)>>
                          /\ b = <<Level(-1)>> /\ c = Content(f) /\ r = <<i>>
    OBVIOUS
  <2>4. i \in Work /\ Deeper(i) = 0 /\ i.kind = "include"
    <3>1. PICK t : t = Tail(files)
      OBVIOUS
    <3>2. t \in Seq(STRING) /\ i = Include(t)
      <4>1. t \in Seq(STRING)
        BY <2>1, <2>2, <3>1, HeadTail
      <4> QED BY <2>3, <3>1, <4>1
    <3>3. i \in Work /\ i.kind = "include"
      BY <3>2 DEF Work, Item, Include
    <3> QED BY <3>3 DEF Deeper
  <2>5. r \in Seq(Work) /\ Path(r, depth, depth)
    <3>1. depth + Deeper(i) = depth
      BY <1>1, <2>4
    <3>2. Path(<<i>>, depth, depth + Deeper(i))
      BY <1>1, <2>4, <3>1, PathOne
    <3> QED BY <2>3, <2>4, <3>1, <3>2
  <2>6. Path(Tail(todo), depth, to)
    <3>1. Path(Tail(todo), depth + Deeper(Head(todo)), to)
      BY <1>1, <1>3, PathTail
    <3> QED BY <1>2, <3>1, Zenon
  <2>7. doInclude(f) \in Seq(Work) /\ Path(doInclude(f), depth, depth)
    <3>1. CASE f = ""
      <4>1. doInclude(f) = <<>>
        BY <3>1, Zenon DEF doInclude
      <4>2. <<>> \in Seq(Work)
        OBVIOUS
      <4> QED BY <1>1, <4>1, <4>2, PathNone
    <3>2. CASE f # ""
      <4>1. doInclude(f) = (a \o c) \o b /\ doInclude(f) \in Seq(Work)
        BY <2>3, <3>2, ContentType DEF doInclude
      <4>2. /\ Level(1) \in Work /\ Level(-1) \in Work /\ Deeper(Level(1)) = 1 /\ Deeper(Level(-1)) = -1
            /\ Level(1).kind # "text" /\ Level(-1).kind # "text"
        BY DEF Work, Deeper, Level
      <4>3. PICK e \in Nat : e = depth + 1 /\ e >= 1 /\ e + -1 = depth
        BY <1>1
      <4>4. a \in Seq(Work) /\ Path(a, depth, e)
        <5>1. Path(<<Level(1)>>, depth, depth + Deeper(Level(1)))
          BY <1>1, <4>2, PathOne
        <5> QED BY <2>3, <4>2, <4>3, <5>1
      <4>5. b \in Seq(Work) /\ Path(b, e, depth)
        <5>1. Path(<<Level(-1)>>, e, e + Deeper(Level(-1)))
          BY <1>1, <4>2, <4>3, PathOne
        <5> QED BY <2>3, <4>2, <4>3, <5>1
      <4>6. c \in Seq(Work) /\ Path(c, e, e)
        <5>1. c \in Seq(Item)
          BY <2>3, ContentType
        <5> QED BY <4>3, <5>1, PathFlat, AllAhead
      <4>7. a \o c \in Seq(Work) /\ Path(a \o c, depth, e)
        BY <4>4, <4>6, PathJoin, Joins
      <4> QED BY <4>1, <4>5, <4>7, PathJoin
    <3> QED BY <3>1, <3>2
  <2>8. doInclude(f) \o r \in Seq(Work) /\ Path(doInclude(f) \o r, depth, depth)
    BY <2>5, <2>7, PathJoin, Joins
  <2>9. Path((doInclude(f) \o r) \o Tail(todo), depth, to)
    BY <1>1, <2>6, <2>8, PathJoin
  <2>10. todo' = (doInclude(f) \o r) \o Tail(todo)
    BY <2>1, <2>3
  <2> QED BY <1>1, <2>9, <2>10 DEF NestInv
<1> QED BY <1>4, <1>5

LEMMA TakeLevelNest == TypeInv /\ NestInv /\ TakeLevel => NestInv'
<1> SUFFICES ASSUME TypeInv, NestInv, TakeLevel PROVE NestInv'
  OBVIOUS
<1>1. /\ todo # <<>> /\ Head(todo).kind = "level" /\ todo' = Tail(todo)
      /\ depth' = depth + Deeper(Head(todo))
  BY DEF TakeLevel, Deeper
<1>2. PICK to : Path(todo, depth, to)
  BY <1>1 DEF NestInv
<1> QED BY <1>1, <1>2, NestRest

(* A line that is not of a file is the last thing to do.                    *)
LEMMA TakeLineNest ==
  ASSUME TypeInv, NestInv, TakeLine
  PROVE  NestInv' /\ (immediate' => todo' = <<>>)
<1>1. /\ todo \in Seq(Work) /\ todo # <<>> /\ Head(todo).kind = "text" /\ todo' = Tail(todo)
      /\ depth' = depth /\ immediate' = (depth = 0) /\ depth \in Nat
  <2>1. todo \in Seq(Work) /\ todo # <<>>
    BY DEF TakeLine, TypeInv, MainInv
  <2> QED BY <2>1 DEF TakeLine, NestInv
<1>2. CASE Len(todo) = 1
  <2>1. todo' = <<>>
    <3>1. Tail(todo) \in Seq(Work) /\ Len(Tail(todo)) = 0
      BY <1>1, <1>2
    <3> QED BY <1>1, <3>1
  <2> QED BY <1>1, <2>1, PathNone DEF NestInv
<1>3. CASE Len(todo) # 1
  <2>1. PICK to : Path(todo, depth, to)
    BY <1>3 DEF NestInv
  <2>2. Deeper(Head(todo)) = 0 /\ depth + Deeper(Head(todo)) = depth
    BY <1>1 DEF Deeper
  <2>3. depth >= 1
    BY <1>1, <2>1, PathTail
  <2>4. NestInv'
    BY <1>1, <2>1, <2>2, NestRest
  <2>5. depth # 0
    BY <1>1, <2>3
  <2> QED BY <1>1, <2>4, <2>5
<1> QED BY <1>2, <1>3

LEMMA ReadNest == TypeInv /\ NestInv /\ Readline => NestInv'
<1> SUFFICES ASSUME TypeInv, NestInv, Readline PROVE NestInv'
  OBVIOUS
<1>1. PICK item : item = Head(typed)
  OBVIOUS
<1>2. typed \in Seq(Item) /\ typed # <<>> /\ todo' = <<item>> /\ depth' = depth /\ depth \in Nat
  BY <1>1 DEF Readline, TypeInv, MainInv, NestInv, exchangeVars
<1>3. item \in Item /\ item \in Work /\ item.kind # "level"
  <2>1. item \in Item
    BY <1>1, <1>2
  <2> QED BY <2>1 DEF Work, Item, Blank
<1>4. CASE item.kind = "text"
  <2>1. Len(todo') = 1 /\ Head(todo') = item
    BY <1>2
  <2> QED BY <1>2, <1>4, <2>1 DEF NestInv
<1>5. CASE item.kind # "text"
  <2>1. Deeper(item) = 0 /\ depth + Deeper(item) = depth
    BY <1>2, <1>3 DEF Deeper
  <2>2. Path(<<item>>, depth, depth + Deeper(item))
    BY <1>2, <1>3, <1>5, <2>1, PathOne
  <2>3. Path(todo', depth', depth)
    BY <1>2, <2>1, <2>2
  <2> QED BY <1>2, <2>3 DEF NestInv
<1> QED BY <1>4, <1>5

LEMMA NestStep == TypeInv /\ NestInv /\ [Next]_vars => NestInv'
<1> SUFFICES ASSUME TypeInv, NestInv, [Next]_vars PROVE NestInv'
  OBVIOUS
<1>1. CASE UNCHANGED <<todo, depth>>
  BY <1>1 DEF NestInv
<1>2. CASE Walk \/ TakeLevel \/ TakeLine \/ Readline
  BY <1>2, WalkNest, TakeLevelNest, TakeLineNest, ReadNest
<1>3. ASSUME ~(Walk \/ TakeLevel \/ TakeLine \/ Readline) PROVE UNCHANGED <<todo, depth>>
  <2>1. CASE UNCHANGED vars
    BY <2>1 DEF vars, mainVars, exchangeVars
  <2>2. CASE Target \/ Unplug \/ Reconnect
    BY <2>2 DEF Target, TargetReads, TargetSends, Unplug, Reconnect, mainVars, exchangeVars
  <2>3. CASE PassOn \/ ExpectEcho \/ ExpectPrompt
    BY <2>3 DEF PassOn, ExpectEcho, ExpectPrompt, mainVars, exchangeVars
  <2>4. CASE Starts \/ TakeProgress
    BY <2>4 DEF Starts, TakeProgress, exchangeVars
  <2> QED BY <1>3, <2>1, <2>2, <2>3, <2>4 DEF Next, Exchange
<1> QED BY <1>1, <1>2, <1>3

-----------------------------------------------------------------------------
(* While the target is never silent for too long and the user waits, each   *)
(* line is sent when the target is done with the line before.               *)

Made(s, kinds) == \A i \in 1 .. Len(s) : s[i][1] \in kinds

LEMMA MadeParts ==
  ASSUME NEW s \in Seq(Tokens), NEW t \in Seq(Tokens), NEW kinds, Made(s \o t, kinds)
  PROVE  Made(s, kinds) /\ Made(t, kinds)
<1>1. PICK m, n, st : m = Len(s) /\ n = Len(t) /\ st = s \o t /\ m \in Nat /\ n \in Nat
  <2>1. Len(s) \in Nat /\ Len(t) \in Nat
    OBVIOUS
  <2> QED BY <2>1, Zenon
<1>2. /\ Len(st) = m + n
      /\ \A i \in 1 .. m : st[i] = s[i]
      /\ \A i \in 1 .. n : st[m + i] = t[i]
  BY <1>1, ConcatAt
<1>3. \A i \in 1 .. m + n : st[i][1] \in kinds
  BY <1>1, <1>2 DEF Made
<1>4. ASSUME NEW i \in 1 .. m PROVE s[i][1] \in kinds
  <2>1. i \in 1 .. m + n
    BY <1>1
  <2> QED BY <1>2, <1>3, <2>1
<1>5. ASSUME NEW i \in 1 .. n PROVE t[i][1] \in kinds
  <2>1. m + i \in 1 .. m + n
    BY <1>1
  <2> QED BY <1>2, <1>3, <2>1
<1> QED BY <1>1, <1>4, <1>5 DEF Made

Halves == {"begin", "end"}

LEMMA EchoMade ==
  ASSUME NEW line \in Names
  PROVE  Made(Echo(line), Halves)
<1>1. CASE line = ""
  <2>1. Echo(line) = <<>> /\ Len(<<>>) = 0
    BY <1>1, EchoType
  <2> QED BY <2>1 DEF Made
<1>2. CASE line # ""
  <2>1. PICK e : e = Echo(line) /\ Len(e) = 2 /\ e[1] = Begin(line) /\ e[2] = End(line)
    BY <1>2, EchoType
  <2>2. Begin(line)[1] \in Halves /\ End(line)[1] \in Halves
    BY DEF Begin, End, Halves
  <2>3. \A i \in 1 .. 2 : i = 1 \/ i = 2
    OBVIOUS
  <2> QED BY <2>1, <2>2, <2>3 DEF Made
<1> QED BY <1>1, <1>2

LEMMA NoFlush ==
  ASSUME NEW all \in Seq(Tokens), Made(all, Halves)
  PROVE  Flushed(all) = 0
<1>1. NL[1] \notin Halves
  BY DEF NL, Halves
<1>2. {i \in 1 .. Len(all) : all[i] = NL} = {}
  BY <1>1 DEF Made
<1> QED BY <1>2, Zenon DEF Flushed

LEMMA SuffixItself ==
  ASSUME NEW s \in Seq(Tokens)
  PROVE  IsSuffix(s, s)
<1>1. Len(Reverse(s)) \in Nat
  <2>1. Reverse(s) \in Seq(Tokens)
    BY ReverseFacts
  <2> QED BY <2>1
<1>2. Len(Reverse(s)) <= Len(Reverse(s))
  BY <1>1
<1> QED BY <1>2, Zenon DEF IsSuffix, IsPrefix

LEMMA Lengths ==
  ASSUME NEW D
  PROVE  \A s \in Seq(D) : Len(s) \in Nat /\ (Len(s) = 0 => s = <<>>)
OBVIOUS

LEMMA NoneLeft == \A l, m, n \in Nat : l >= 2 /\ 2 = (l + m) + n => m = 0 /\ n = 0
OBVIOUS

(* Read, still to be read and still to come of an echo.                     *)
LEMMA EchoWhole ==
  ASSUME NEW line \in Names, line # "", NEW a \in Seq(Tokens), NEW b \in Seq(Tokens),
         NEW c \in Seq(Tokens), (a \o b) \o c = Echo(line), IsSuffix(Echo(line), a)
  PROVE  a = Echo(line) /\ a \o b = Echo(line) /\ b = <<>> /\ c = <<>>
<1>1. Echo(line) \in Seq(Tokens) /\ Len(Echo(line)) = 2
  BY EchoType
<1>2. Len(a) >= 2
  BY <1>1, EndsInTwo
<1>3. PICK ab, abc : ab = a \o b /\ abc = ab \o c
  OBVIOUS
<1>4. ab \in Seq(Tokens) /\ Len(ab) = Len(a) + Len(b) /\ Len(abc) = Len(ab) + Len(c)
  <2>1. ab \in Seq(Tokens) /\ Len(ab) = Len(a) + Len(b)
    BY <1>3, ConcatAt
  <2> QED BY <1>3, <2>1, ConcatAt
<1>5. PICK l, m, n : /\ l = Len(a) /\ m = Len(b) /\ n = Len(c)
                     /\ l \in Nat /\ m \in Nat /\ n \in Nat
  <2>1. Len(a) \in Nat /\ Len(b) \in Nat /\ Len(c) \in Nat
    BY Lengths, Zenon
  <2> QED BY <2>1, Zenon
<1>6. abc = Echo(line) /\ Len(abc) = 2
  BY <1>1, <1>3
<1>7. m = 0 /\ n = 0
  <2>1. l >= 2
    BY <1>2, <1>5, Zenon
  <2>2. Len(ab) = l + m
    BY <1>4, <1>5, Zenon
  <2>3. 2 = (l + m) + n
    BY <1>4, <1>5, <1>6, <2>2, Zenon
  <2> QED BY <1>5, <2>1, <2>3, NoneLeft, Zenon
<1>8. b = <<>> /\ c = <<>>
  BY <1>5, <1>7, Lengths, Zenon
<1>9. a \o b = a /\ ab \o c = ab
  BY <1>4, <1>8, ConcatEmptySeq
<1> QED BY <1>3, <1>6, <1>8, <1>9, Zenon

LEMMA EchoPart ==
  ASSUME NEW line \in Names, NEW s \in Seq(Tokens), NEW t \in Seq(Tokens),
         s \o t = Echo(line), t # <<>>
  PROVE  Head(t) # CR
<1>1. Made(t, Halves)
  BY EchoMade, MadeParts
<1>2. Head(t) = t[1] /\ 1 \in 1 .. Len(t)
  <2>1. Head(t) = t[1] /\ Len(t) >= 1 /\ Len(t) \in Nat
    BY TailAt
  <2> QED BY <2>1
<1>3. CR[1] \notin Halves
  BY DEF CR, Halves
<1> QED BY <1>1, <1>2, <1>3 DEF Made

Current == sent[Len(sent)]
AtRest  == tin = <<>> /\ tout = <<>> /\ wire = <<>>

SelectCalm == tin = <<>> /\ tline = <<>> /\ (todo # <<>> => tout = <<>> /\ wire = <<>>)
EchoCalm ==
  /\ tout = <<>> /\ tline \o tin = Echo(xline)
  /\ collected \o wire = tline /\ collected # Echo(xline)
PromptCalm == PromptPhase /\ tline = IF tin = <<CR>> THEN Echo(Current) ELSE <<>>

Calm ==
  /\ link = "up"
  /\ main = "starting" => todo = <<>>
  /\ xpc = "select" => SelectCalm
  /\ xpc = "echo" => EchoCalm
  /\ xpc = "prompt" => PromptCalm
  /\ xpc # "select" /\ immediate => todo = <<>>

(* The step before was in step too, and nothing was typed too early.        *)
LEMMA InStepBack ==
  ASSUME TypeInv, [Next]_vars, InStep'
  PROVE  InStep /\ faults' = faults /\ ~Unplug /\ (Readline => AtRest)
<1>1. faults \in Nat /\ faults' = 0 /\ ~hasty'
  BY DEF TypeInv, WireInv, InStep
<1>2. CASE UNCHANGED vars
  <2>1. faults' = faults /\ hasty' = hasty
    BY <1>2, Zenon DEF vars
  <2>2. InStep
    BY <1>1, <2>1, Zenon DEF InStep
  <2>3. ~Unplug
    BY <1>1, <2>1 DEF Unplug
  <2>4. Readline => AtRest
    <3>1. ASSUME Readline PROVE ~Busy /\ wire = <<>>
      BY <1>1, <3>1, Zenon DEF Readline
    <3> QED BY <3>1 DEF Busy, AtRest
  <2> QED BY <2>1, <2>2, <2>3, <2>4
<1>3. CASE Next
  <2>1. ~Unplug
    BY <1>1 DEF Unplug
  <2>2. Readline => AtRest /\ ~hasty
    <3>1. ASSUME Readline PROVE ~Busy /\ wire = <<>> /\ ~hasty
      BY <1>1, <3>1, Zenon DEF Readline
    <3> QED BY <3>1 DEF Busy, AtRest
  <2>3. faults' = faults \/ faults' = faults + 1
    <3>1. CASE Target \/ Unplug \/ Reconnect \/ PassOn
      BY <3>1 DEF Target, TargetReads, TargetSends, Unplug, Reconnect, PassOn, Chunk
    <3>2. CASE TakeLine \/ TakeLevel \/ Readline \/ Walk \/ TakeProgress
      BY <3>2 DEF TakeLine, TakeLevel, Readline, Walk, TakeProgress
    <3>3. CASE Starts \/ ExpectEcho \/ ExpectPrompt
      BY <3>3 DEF Starts, ExpectEcho, ExpectPrompt, NoEcho, TimeOut, Chunk
    <3> QED BY <1>3, <3>1, <3>2, <3>3 DEF Next, Exchange
  <2>4. faults' = faults /\ faults = 0
    BY <1>1, <2>3
  <2>5. Readline \/ UNCHANGED hasty
    <3>1. CASE Target \/ Unplug \/ Reconnect \/ PassOn
      BY <3>1, Zenon DEF Target, TargetReads, TargetSends, Unplug, Reconnect, PassOn
    <3>2. CASE TakeLine \/ TakeLevel \/ Walk \/ TakeProgress
      BY <3>2, Zenon DEF TakeLine, TakeLevel, Walk, TakeProgress
    <3>3. CASE Starts \/ ExpectEcho \/ ExpectPrompt
      BY <3>3, Zenon DEF Starts, ExpectEcho, ExpectPrompt
    <3> QED BY <1>3, <3>1, <3>2, <3>3, Zenon DEF Next, Exchange
  <2>6. ~hasty
    BY <1>1, <2>2, <2>5, Zenon
  <2> QED BY <2>1, <2>2, <2>4, <2>6, Zenon DEF InStep
<1> QED BY <1>2, <1>3

LEMMA ReadsCalm == TypeInv /\ Calm /\ TargetReads => Calm'
<1> SUFFICES ASSUME TypeInv, Calm, TargetReads PROVE Calm'
  OBVIOUS
<1>1. /\ tout = <<>> /\ tin # <<>> /\ tin' = Tail(tin)
      /\ UNCHANGED <<link, main, todo, xpc, xline, collected, sent, immediate>>
      /\ tin \in Seq(Tokens) /\ tline \in Seq(Tokens) /\ wire \in Seq(Tokens)
      /\ collected \in Seq(Tokens) /\ xline \in Names
  BY DEF TargetReads, mainVars, exchangeVars, TypeInv, WireInv, ExchangeInv
<1>2. /\ link' = "up" /\ (main' = "starting" => todo' = <<>>)
      /\ xpc' # "select" /\ (immediate' => todo' = <<>>)
  <2>1. xpc # "select"
    BY <1>1 DEF Calm, SelectCalm
  <2> QED BY <1>1, <2>1, Zenon DEF Calm
<1>3. CASE xpc = "echo"
  <2>1. /\ tline \o tin = Echo(xline) /\ collected \o wire = tline /\ collected # Echo(xline)
    BY <1>3 DEF Calm, EchoCalm
  <2>2. Head(tin) # CR
    BY <1>1, <2>1, EchoPart
  <2>3. PICK h : h = <<Head(tin)>> /\ h \in Seq(Tokens) /\ tin = h \o tin' /\ tin' \in Seq(Tokens)
    BY <1>1, HeadTail
  <2>4. tline' = tline \o h /\ wire' = wire \o h /\ UNCHANGED tout
    <3>1. tline' = Append(tline, Head(tin)) /\ Emit(<<Head(tin)>>) /\ UNCHANGED tout
      BY <2>2 DEF TargetReads
    <3>2. Head(tin) \in Tokens
      BY <1>1
    <3>3. tline' = tline \o h
      BY <1>1, <2>3, <3>1, <3>2, AppendIsConcat
    <3> QED BY <2>3, <3>1, <3>3 DEF Emit, Calm
  <2>5. tline' \o tin' = Echo(xline)
    <3>1. (tline \o h) \o tin' = tline \o (h \o tin')
      BY <1>1, <2>3, Regroup, Zenon DEF Grouped
    <3> QED BY <2>1, <2>3, <2>4, <3>1, Zenon
  <2>6. collected \o wire' = tline'
    <3>1. (collected \o wire) \o h = collected \o (wire \o h)
      BY <1>1, <2>3, Regroup, Zenon DEF Grouped
    <3> QED BY <2>1, <2>4, <3>1, Zenon
  <2>7. EchoCalm'
    BY <1>1, <2>1, <2>4, <2>5, <2>6 DEF EchoCalm
  <2> QED BY <1>1, <1>2, <1>3, <2>7 DEF Calm
<1>4. CASE xpc = "prompt"
  <2>1. PromptPhase
    BY <1>4 DEF Calm, PromptCalm
  <2>2. PromptPhase' /\ tin' = <<>> /\ tline' = <<>>
    BY <2>1, PromptReads
  <2>3. tin' # <<CR>>
    BY <2>2, CRType
  <2>4. PromptCalm'
    BY <2>2, <2>3 DEF PromptCalm
  <2> QED BY <1>1, <1>2, <1>4, <2>4 DEF Calm
<1> QED BY <1>1, <1>2, <1>3, <1>4 DEF TypeInv, ExchangeInv

LEMMA SendsCalm == TypeInv /\ Calm /\ TargetSends => Calm'
<1> SUFFICES ASSUME TypeInv, Calm, TargetSends PROVE Calm'
  OBVIOUS
<1>1. /\ tout # <<>>
      /\ UNCHANGED <<link, main, todo, xpc, xline, collected, sent, immediate, tin, tline>>
  BY DEF TargetSends, mainVars, exchangeVars
<1>2. /\ link' = "up" /\ (main' = "starting" => todo' = <<>>)
      /\ (xpc' # "select" /\ immediate' => todo' = <<>>)
  BY <1>1, Zenon DEF Calm
<1>3. CASE xpc = "select"
  <2>1. SelectCalm'
    BY <1>1, <1>3 DEF Calm, SelectCalm
  <2> QED BY <1>1, <1>2, <1>3, <2>1 DEF Calm
<1>4. xpc # "echo"
  BY <1>1 DEF Calm, EchoCalm
<1>5. CASE xpc = "prompt"
  <2>1. PromptPhase /\ tline = IF tin = <<CR>> THEN Echo(Current) ELSE <<>>
    BY <1>5 DEF Calm, PromptCalm
  <2>2. PromptPhase' /\ Current' = Current
    BY <1>1, <2>1, PromptSends DEF Current
  <2>3. PromptCalm'
    BY <1>1, <2>1, <2>2 DEF PromptCalm
  <2> QED BY <1>1, <1>2, <1>5, <2>3 DEF Calm
<1> QED BY <1>3, <1>4, <1>5 DEF TypeInv, ExchangeInv

(* The main goroutine has something to do only when the target is at rest.  *)
LEMMA MainCalm ==
  ASSUME TypeInv, Calm, Readline => AtRest,
         PassOn \/ Starts \/ Readline \/ Walk \/ TakeLevel \/ TakeProgress
  PROVE  Calm'
<1>1. UNCHANGED <<link, xpc, xline, immediate, collected, sent, tin, tline, tout>>
  BY DEF PassOn, Starts, Readline, Walk, TakeLevel, TakeProgress, exchangeVars, targetVars
<1>2. CASE TakeProgress
  <2>1. main' = "running" /\ UNCHANGED <<todo, wire>>
    BY <1>2 DEF TakeProgress
  <2>2. PromptPhase' = PromptPhase /\ Current' = Current
    BY <1>1, <2>1 DEF PromptPhase, Current
  <2>3. PromptCalm' = PromptCalm /\ EchoCalm' = EchoCalm /\ SelectCalm' = SelectCalm
    BY <1>1, <2>1, <2>2, Zenon DEF PromptCalm, EchoCalm, SelectCalm
  <2> QED BY <1>1, <2>1, <2>3, Zenon DEF Calm
<1>3. CASE ~TakeProgress
  <2>1. xpc = "select" /\ xpc' = "select"
    <3>1. CASE PassOn \/ TakeLevel
      BY <1>1, <3>1 DEF PassOn, TakeLevel
    <3>2. CASE Starts \/ Readline \/ Walk
      <4>1. main # "progress"
        BY <3>2 DEF Starts, Readline, Walk
      <4> QED BY <1>1, <4>1 DEF TypeInv, MainInv, ExchangeInv
    <3> QED BY <1>3, <3>1, <3>2
  <2>2. tin = <<>> /\ tline = <<>> /\ (todo # <<>> => tout = <<>> /\ wire = <<>>) /\ link = "up"
    BY <2>1 DEF Calm, SelectCalm
  <2>3. SUFFICES /\ main' = "starting" => todo' = <<>>
                 /\ todo' # <<>> => tout = <<>> /\ wire' = <<>>
    BY <1>1, <2>1, <2>2 DEF Calm, SelectCalm
  <2>4. CASE PassOn
    <3>1. PICK n : n \in 1 .. Len(wire)
      BY <2>4 DEF PassOn
    <3>2. wire # <<>>
      BY <3>1
    <3>3. UNCHANGED <<todo, main>>
      BY <2>4 DEF PassOn, mainVars
    <3> QED BY <2>2, <3>2, <3>3 DEF Calm
  <2>5. CASE Starts
    <3>1. main = "starting" /\ UNCHANGED todo
      BY <2>5 DEF Starts
    <3> QED BY <3>1 DEF Calm
  <2>6. CASE Readline
    BY <2>6 DEF Readline, AtRest
  <2>7. CASE Walk
    BY <2>2, <2>7 DEF Walk
  <2>8. CASE TakeLevel
    BY <2>2, <2>8 DEF TakeLevel
  <2> QED BY <1>3, <2>4, <2>5, <2>6, <2>7, <2>8
<1> QED BY <1>2, <1>3

LEMMA LastSent ==
  ASSUME TypeInv, NEW line \in Names, sent' = Append(sent, line)
  PROVE  Current' = line
<1>1. PICK s, n : s = sent /\ n = Len(s) /\ s \in Seq(Names) /\ n \in Nat
  <2>1. sent \in Seq(Names)
    BY DEF TypeInv, ExchangeInv
  <2> QED BY <2>1, Lengths, Zenon
<1>2. Len(Append(s, line)) = n + 1 /\ Append(s, line)[n + 1] = line
  BY <1>1, AppendProperties
<1> QED BY <1>1, <1>2 DEF Current

LEMMA TwoIsSome == Len(<<>>) # 2
OBVIOUS

LEMMA EchoSome ==
  ASSUME NEW line \in Names, line # ""
  PROVE  Echo(line) # <<>>
<1>1. Len(Echo(line)) = 2
  BY EchoType
<1> QED BY <1>1, TwoIsSome, Zenon

LEMMA TakesCalm ==
  ASSUME TypeInv, TypeInv', NestInv, Calm, TakeLine
  PROVE  Calm'
<1>1. /\ todo # <<>> /\ xpc = "select" /\ main' = "progress" /\ UNCHANGED <<tline, tout, wire>>
      /\ collected' = <<>> /\ sent' = Append(sent, xline') /\ xline' \in Names
      /\ IF xline' # "" THEN xpc' = "echo" /\ serialSend(Echo(xline'))
         ELSE xpc' = "prompt" /\ serialSend(<<CR>>)
  BY DEF TakeLine, TypeInv, ExchangeInv
<1>2. /\ AtRest /\ tline = <<>> /\ link = "up" /\ ~Busy
  BY <1>1 DEF Calm, SelectCalm, AtRest, Busy
<1>3. ASSUME NEW tokens \in Seq(Tokens), serialSend(tokens)
      PROVE  tin' = tokens /\ link' = "up"
  <2>1. tin' = tin \o tokens /\ link' = link
    BY <1>2, <1>3 DEF serialSend
  <2>2. <<>> \o tokens = tokens
    BY ConcatEmptySeq
  <2> QED BY <1>2, <2>1, <2>2 DEF AtRest
<1>4. Echo(xline') \in Seq(Tokens) /\ <<CR>> \in Seq(Tokens)
  BY <1>1, EchoType, CRType
<1>5. link' = "up" /\ main' # "starting" /\ xpc' # "select" /\ (immediate' => todo' = <<>>)
  BY <1>1, <1>3, <1>4, TakeLineNest
<1>6. CASE xline' # ""
  <2>1. xpc' = "echo" /\ tin' = Echo(xline')
    BY <1>1, <1>3, <1>4, <1>6
  <2>2. /\ tline' = <<>> /\ wire' = <<>> /\ tout' = <<>> /\ collected' = <<>>
    BY <1>1, <1>2 DEF AtRest
  <2>3. Echo(xline') # <<>>
    BY <1>1, <1>6, EchoSome
  <2>4. <<>> \o Echo(xline') = Echo(xline') /\ <<>> \o <<>> = <<>>
    <3>1. <<>> \in Seq(Tokens)
      OBVIOUS
    <3> QED BY <1>4, <3>1, ConcatEmptySeq
  <2>5. EchoCalm'
    BY <2>1, <2>2, <2>3, <2>4, Zenon DEF EchoCalm
  <2> QED BY <1>5, <2>1, <2>5 DEF Calm
<1>7. CASE xline' = ""
  <2>1. xpc' = "prompt" /\ tin' = <<CR>>
    BY <1>1, <1>3, <1>4, <1>7
  <2>2. PromptPhase'
    BY <1>1, <1>2, <2>1 DEF PromptPhase, AtRest
  <2>3. Current' = xline'
    BY <1>1, LastSent
  <2>4. Echo(xline') = <<>>
    BY <1>1, <1>7, EchoType
  <2>5. PromptCalm'
    BY <1>1, <1>2, <2>1, <2>2, <2>3, <2>4 DEF PromptCalm
  <2> QED BY <1>5, <2>1, <2>5 DEF Calm
<1> QED BY <1>6, <1>7

(* What serialExchange has read of the echo.                                *)
LEMMA EchoCalmRead ==
  ASSUME TypeInv, Calm, xpc = "echo", NEW n \in 1 .. Len(wire), NEW data, Chunk(data, n)
  PROVE  /\ collected \o data \in Seq(Tokens) /\ wire' \in Seq(Tokens)
         /\ (collected \o data) \o wire' = tline
         /\ ((collected \o data) \o wire') \o tin = Echo(xline)
         /\ tin \in Seq(Tokens) /\ xline \in Names /\ xline # "" /\ tline \in Seq(Tokens)
         /\ tout = <<>> /\ link = "up" /\ UNCHANGED faults
<1>1. /\ data \in Seq(Tokens) /\ wire' \in Seq(Tokens) /\ wire = data \o wire'
      /\ collected \in Seq(Tokens) /\ tin \in Seq(Tokens) /\ xline \in Names /\ xline # ""
      /\ UNCHANGED faults /\ tline \in Seq(Tokens)
  BY ChunkTypes DEF TypeInv, ExchangeInv, WireInv
<1>2. tline \o tin = Echo(xline) /\ collected \o wire = tline /\ tout = <<>> /\ link = "up"
  BY DEF Calm, EchoCalm
<1>3. collected \o data \in Seq(Tokens)
  BY <1>1, Joins
<1>4. (collected \o data) \o wire' = collected \o (data \o wire')
  BY <1>1, Regroup, Zenon DEF Grouped
<1>5. (collected \o data) \o wire' = tline
  BY <1>1, <1>2, <1>4, Zenon
<1> QED BY <1>1, <1>2, <1>3, <1>5, Zenon

LEMMA EchoSeenCalm ==
  ASSUME TypeInv, Calm, xpc = "echo", NEW n \in 1 .. Len(wire), NEW data, Chunk(data, n),
         EchoSeen(data), UNCHANGED <<tline, tout>>
  PROVE  /\ tin' = <<CR>> /\ tout' = <<>> /\ wire' = <<>> /\ collected' = <<>>
         /\ tline' = Echo(xline) /\ xpc' = "prompt" /\ link' = "up" /\ tin = <<>>
<1>1. PICK all : all = collected \o data
  OBVIOUS
<1>2. /\ all \in Seq(Tokens) /\ wire' \in Seq(Tokens) /\ all \o wire' = tline
      /\ (all \o wire') \o tin = Echo(xline)
      /\ tin \in Seq(Tokens) /\ xline \in Names /\ xline # ""
      /\ tout = <<>> /\ link = "up"
  BY <1>1, EchoCalmRead, Zenon
<1>3. IsSuffix(Echo(xline), all)
  BY <1>1 DEF EchoSeen
<1>4. tline = Echo(xline) /\ wire' = <<>> /\ tin = <<>>
  BY <1>2, <1>3, EchoWhole, Zenon
<1>5. tin' = tin \o <<CR>> /\ link' = "up"
  BY <1>2, <1>4 DEF EchoSeen, serialSend, Busy
<1>6. <<>> \o <<CR>> = <<CR>>
  BY CRType, ConcatEmptySeq
<1> QED BY <1>2, <1>4, <1>5, <1>6 DEF EchoSeen

LEMMA EchoGoesCalm ==
  ASSUME TypeInv, Calm, xpc = "echo", NEW n \in 1 .. Len(wire), NEW data, Chunk(data, n),
         EchoGoesOn(data), UNCHANGED <<tline, tout>>
  PROVE  EchoCalm'
<1>1. PICK all : all = collected \o data
  OBVIOUS
<1>2. /\ all \in Seq(Tokens) /\ wire' \in Seq(Tokens) /\ all \o wire' = tline
      /\ (all \o wire') \o tin = Echo(xline)
      /\ tin \in Seq(Tokens) /\ xline \in Names /\ xline # "" /\ tline \in Seq(Tokens)
      /\ tout = <<>>
  BY <1>1, EchoCalmRead, Zenon
<1>3. ~IsSuffix(Echo(xline), all) /\ UNCHANGED <<xline, tin>>
      /\ collected' = SubSeq(all, Flushed(all) + 1, Len(all))
  BY <1>1 DEF EchoGoesOn
<1>4. all # Echo(xline)
  BY <1>2, <1>3, SuffixItself, Zenon
<1>5. Flushed(all) = 0
  <2>1. tline \o tin = Echo(xline)
    BY <1>2, Zenon
  <2>2. Made(tline \o tin, Halves)
    BY <1>2, <2>1, EchoMade, Zenon
  <2>3. Made(tline, Halves)
    BY <1>2, <2>2, MadeParts
  <2>4. Made(all \o wire', Halves)
    BY <1>2, <2>3, Zenon
  <2>5. Made(all, Halves)
    BY <1>2, <2>4, MadeParts
  <2> QED BY <1>2, <2>5, NoFlush
<1>6. collected' = all
  <2>1. 0 \in 0 .. Len(all)
    <3>1. Len(all) \in Nat
      BY <1>2, Lengths, Zenon
    <3> QED BY <3>1
  <2>2. PICK a, b : a = SubSeq(all, 1, 0) /\ b = SubSeq(all, 0 + 1, Len(all))
    OBVIOUS
  <2>3. a \in Seq(Tokens) /\ b \in Seq(Tokens) /\ Len(a) = 0 /\ a \o b = all
    BY <1>2, <2>1, <2>2, Cut
  <2>4. a = <<>>
    BY <2>3, Lengths, Zenon
  <2>5. <<>> \o b = b
    BY <2>3, ConcatEmptySeq
  <2> QED BY <1>3, <1>5, <2>2, <2>3, <2>4, <2>5, Zenon
<1>7. tline' \o tin' = Echo(xline') /\ collected' \o wire' = tline' /\ collected' # Echo(xline')
  BY <1>2, <1>3, <1>4, <1>6, Zenon
<1> QED BY <1>2, <1>7 DEF EchoCalm

LEMMA NoTimeOut ==
  ASSUME TypeInv, TimeOut, UNCHANGED faults
  PROVE  AtRest /\ UNCHANGED wire
<1>1. faults \in Nat /\ faults' # faults + 1
  BY DEF TypeInv, WireInv
<1>2. wire = <<>> /\ ~Busy /\ UNCHANGED wire
  BY <1>1 DEF TimeOut
<1> QED BY <1>2 DEF Busy, AtRest

(* Its echo comes before the target is silent.                              *)
LEMMA EchoComes ==
  ASSUME TypeInv, Calm, ExpectEcho, UNCHANGED faults
  PROVE  \E n \in 1 .. Len(wire) : \E data \in {SubSeq(wire, 1, n)} :
             Chunk(data, n) /\ (EchoSeen(data) \/ EchoGoesOn(data))
<1>1. xpc = "echo" /\ tline \in Seq(Tokens) /\ collected \in Seq(Tokens)
  BY DEF ExpectEcho, TypeInv, ExchangeInv, WireInv
<1>2. tline \o tin = Echo(xline) /\ collected \o wire = tline /\ collected # Echo(xline)
  BY <1>1 DEF Calm, EchoCalm
<1>3. ASSUME NoEcho PROVE FALSE
  <2>1. AtRest
    BY <1>3, NoTimeOut DEF NoEcho
  <2>2. tin = <<>> /\ wire = <<>>
    BY <2>1 DEF AtRest
  <2>3. tline \o <<>> = tline /\ collected \o <<>> = collected
    BY <1>1, ConcatEmptySeq
  <2> QED BY <1>2, <2>2, <2>3, Zenon
<1> QED BY <1>3 DEF ExpectEcho

LEMMA EchoCalms ==
  ASSUME TypeInv, Calm, ExpectEcho, UNCHANGED faults
  PROVE  Calm'
<1>1. /\ xpc = "echo" /\ UNCHANGED <<main, todo, immediate, sent, tline, tout>>
      /\ xline \in Names /\ xline # "" /\ xline = Current
      /\ tin \in Seq(Tokens) /\ wire \in Seq(Tokens) /\ tline \in Seq(Tokens)
      /\ collected \in Seq(Tokens) /\ faults \in Nat
  BY DEF ExpectEcho, mainVars, TypeInv, ExchangeInv, WireInv, Current
<1>2. /\ link = "up" /\ (main = "starting" => todo = <<>>) /\ (immediate => todo = <<>>)
      /\ tout = <<>> /\ tline \o tin = Echo(xline)
      /\ collected \o wire = tline /\ collected # Echo(xline)
  BY <1>1 DEF Calm, EchoCalm
<1>3. PICK n \in 1 .. Len(wire) : \E data \in {SubSeq(wire, 1, n)} :
             Chunk(data, n) /\ (EchoSeen(data) \/ EchoGoesOn(data))
  BY EchoComes
<1>5. PICK data : Chunk(data, n) /\ (EchoSeen(data) \/ EchoGoesOn(data))
  BY <1>3
<1>6. CASE EchoSeen(data)
  <2>1. /\ tin' = <<CR>> /\ tout' = <<>> /\ wire' = <<>> /\ collected' = <<>>
        /\ tline' = Echo(xline) /\ xpc' = "prompt" /\ link' = "up"
    BY <1>1, <1>5, <1>6, EchoSeenCalm
  <2>2. Current' = xline
    BY <1>1 DEF Current
  <2>3. PromptCalm'
    BY <2>1, <2>2 DEF PromptCalm, PromptPhase
  <2> QED BY <1>1, <1>2, <2>1, <2>3 DEF Calm
<1>7. CASE EchoGoesOn(data)
  <2>1. EchoCalm'
    BY <1>1, <1>5, <1>7, EchoGoesCalm
  <2>2. xpc' = "echo" /\ link' = "up"
    BY <1>1, <1>2, <1>7 DEF EchoGoesOn
  <2> QED BY <1>1, <1>2, <2>1, <2>2 DEF Calm
<1> QED BY <1>5, <1>6, <1>7

(* Until the prompt, or what counts as one, the line stays executed.        *)
LEMMA PromptKept ==
  ASSUME TypeInv, Calm, ExpectPrompt, UNCHANGED faults
  PROVE  /\ tin = <<>> /\ tline = <<>>
         /\ \/ xpc' = "select" /\ (todo # <<>> => tout = <<>> /\ wire' = <<>>)
            \/ xpc' = "prompt" /\ PromptPhase'
<1>1. /\ xpc = "prompt" /\ UNCHANGED <<tin, tline, tout>> /\ tin \in Seq(Tokens)
  BY DEF ExpectPrompt, targetVars, TypeInv, WireInv
<1>2. /\ PromptPhase /\ tline = IF tin = <<CR>> THEN Echo(Current) ELSE <<>>
      /\ (immediate => todo = <<>>)
  BY <1>1 DEF Calm, PromptCalm
<1>3. tin = <<>> => tline = <<>>
  BY <1>2, CRType
<1>4. CASE TimeOut /\ NoPrompt(<<>>)
  <2>1. AtRest /\ UNCHANGED wire /\ xpc' = "select"
    BY <1>4, NoTimeOut DEF NoPrompt, Processed
  <2> QED BY <1>3, <2>1 DEF AtRest
<1>5. ASSUME NEW n \in 1 .. Len(wire), NEW data, Chunk(data, n), PromptSeen(data)
      PROVE  /\ tin = <<>> /\ xpc' = "select" /\ tout = <<>> /\ wire' = <<>>
  <2>1. tin = <<>> /\ tout = <<>> /\ wire' = <<>>
    BY <1>1, <1>2, <1>5, PromptLast
  <2> QED BY <1>5, <2>1 DEF PromptSeen, Processed
<1>6. ASSUME NEW n \in 1 .. Len(wire), NEW data, Chunk(data, n), PromptGoesOn(data)
      PROVE  tin = <<>> /\ xpc' = "prompt" /\ PromptPhase'
  <2>1. PromptPhase' /\ tin = <<>>
    BY <1>1, <1>2, <1>6, PromptGoes
  <2> QED BY <1>1, <1>6, <2>1 DEF PromptGoesOn
<1>7. ASSUME NEW n \in 1 .. Len(wire), NEW data, Chunk(data, n), immediate, NoPrompt(data)
      PROVE  tin = <<>> /\ xpc' = "select" /\ todo = <<>>
  <2>1. wire # <<>>
    BY <1>7
  <2>2. tin = <<>>
    BY <1>2, <2>1 DEF PromptPhase
  <2> QED BY <1>2, <1>7, <2>2 DEF NoPrompt, Processed
<1>8. CASE ~(TimeOut /\ NoPrompt(<<>>))
  <2>1. PICK n \in 1 .. Len(wire) : \E data \in {SubSeq(wire, 1, n)} :
             /\ Chunk(data, n)
             /\ PromptSeen(data) \/ PromptGoesOn(data) \/ (immediate /\ NoPrompt(data))
    BY <1>8 DEF ExpectPrompt
  <2>2. PICK data : /\ Chunk(data, n)
                    /\ PromptSeen(data) \/ PromptGoesOn(data) \/ (immediate /\ NoPrompt(data))
    BY <2>1
  <2> QED BY <1>3, <1>5, <1>6, <1>7, <2>2
<1> QED BY <1>4, <1>8

LEMMA PromptCalms ==
  ASSUME TypeInv, Calm, ExpectPrompt, UNCHANGED faults
  PROVE  Calm'
<1>1. xpc = "prompt" /\ UNCHANGED <<link, main, todo, immediate, sent, tin, tline, tout>>
  BY DEF ExpectPrompt, mainVars, targetVars
<1>2. /\ link = "up" /\ (main = "starting" => todo = <<>>) /\ (immediate => todo = <<>>)
  BY <1>1 DEF Calm
<1>3. /\ tin = <<>> /\ tline = <<>>
      /\ \/ xpc' = "select" /\ (todo # <<>> => tout = <<>> /\ wire' = <<>>)
         \/ xpc' = "prompt" /\ PromptPhase'
  BY PromptKept
<1>4. CASE xpc' = "select" /\ (todo # <<>> => tout = <<>> /\ wire' = <<>>)
  <2>1. SelectCalm'
    BY <1>1, <1>3, <1>4 DEF SelectCalm
  <2> QED BY <1>1, <1>2, <1>4, <2>1 DEF Calm
<1>5. CASE xpc' = "prompt" /\ PromptPhase'
  <2>1. tin' # <<CR>>
    BY <1>1, <1>3, CRType
  <2>2. PromptCalm'
    BY <1>1, <1>3, <1>5, <2>1 DEF PromptCalm
  <2> QED BY <1>1, <1>2, <1>5, <2>2 DEF Calm
<1> QED BY <1>3, <1>4, <1>5

LEMMA CalmSame ==
  ASSUME Calm, UNCHANGED vars
  PROVE  Calm'
<1>1. UNCHANGED <<link, main, todo, xpc, xline, immediate, collected, sent, tin, tline, tout, wire>>
  BY DEF vars, mainVars, exchangeVars, targetVars
<1>2. PromptPhase' = PromptPhase /\ Current' = Current
  BY <1>1 DEF PromptPhase, Current
<1>3. PromptCalm' = PromptCalm /\ EchoCalm' = EchoCalm /\ SelectCalm' = SelectCalm
  BY <1>1, <1>2, Zenon DEF PromptCalm, EchoCalm, SelectCalm
<1> QED BY <1>1, <1>3, Zenon DEF Calm

LEMMA NextCalm ==
  ASSUME TypeInv, TypeInv', NestInv, Calm, [Next]_vars, InStep'
  PROVE  Calm'
<1>1. UNCHANGED faults /\ ~Unplug /\ (Readline => AtRest)
  BY InStepBack
<1>2. ~Reconnect
  BY DEF Calm, Reconnect
<1>3. CASE TargetReads \/ TargetSends
  BY <1>3, ReadsCalm, SendsCalm
<1>4. CASE PassOn \/ Starts \/ Readline \/ Walk \/ TakeLevel \/ TakeProgress
  BY <1>1, <1>4, MainCalm
<1>5. CASE TakeLine
  BY <1>5, TakesCalm
<1>6. CASE ExpectEcho
  BY <1>1, <1>6, EchoCalms
<1>7. CASE ExpectPrompt
  BY <1>1, <1>7, PromptCalms
<1> QED BY <1>1, <1>2, <1>3, <1>4, <1>5, <1>6, <1>7, CalmSame DEF Next, Target, Exchange

-----------------------------------------------------------------------------
(* Executed, being sent, and left to send are what was typed.               *)

Now == IF xpc = "echo" \/ (xpc = "prompt" /\ tin = <<CR>>) THEN <<Current>> ELSE <<>>

Order(done) ==
  /\ done \in Seq(Names) /\ Len(executed) = Len(done)
  /\ \A i \in 1 .. Len(done) : executed[i] = Echo(done[i])
  /\ TypedLines = done \o (Now \o Left)
Ordered == \E done : Order(done)

LEMMA OrderFrame ==
  ASSUME Ordered, UNCHANGED executed, Now' \o Left' = Now \o Left
  PROVE  Ordered'
<1>1. PICK done : Order(done)
  BY DEF Ordered
<1>2. /\ done \in Seq(Names) /\ Len(executed') = Len(done)
      /\ \A i \in 1 .. Len(done) : executed'[i] = Echo(done[i])
  BY <1>1, Zenon DEF Order
<1>3. TypedLines = done \o (Now' \o Left')
  BY <1>1, Zenon DEF Order
<1>4. Order(done)'
  BY <1>2, <1>3, Zenon DEF Order
<1> QED BY <1>4 DEF Ordered

LEMMA OrderReads ==
  ASSUME Expandable, TypeInv, Calm, Ordered, TargetReads
  PROVE  Ordered'
<1>1. /\ tin # <<>> /\ UNCHANGED <<xpc, sent, todo, typed>> /\ xpc \in {"select", "echo", "prompt"}
  BY DEF TargetReads, mainVars, exchangeVars, TypeInv, ExchangeInv
<1>2. xpc # "select"
  BY <1>1 DEF Calm, SelectCalm
<1>3. Left' = Left /\ Current' = Current
  BY <1>1, Zenon DEF Left, Current
<1>4. CASE xpc = "echo"
  <2>1. tline \o tin = Echo(xline)
    BY <1>4 DEF Calm, EchoCalm
  <2>2. tline \in Seq(Tokens) /\ tin \in Seq(Tokens) /\ xline \in Names
    BY DEF TypeInv, WireInv, ExchangeInv
  <2>3. Head(tin) # CR
    BY <1>1, <2>1, <2>2, EchoPart
  <2>4. UNCHANGED executed
    BY <2>3 DEF TargetReads
  <2>5. Now' = <<Current>> /\ Now = <<Current>>
    BY <1>1, <1>3, <1>4, Zenon DEF Now
  <2> QED BY <1>3, <2>4, <2>5, OrderFrame, Zenon
<1>5. CASE xpc = "prompt"
  <2>1. PromptPhase /\ tline = IF tin = <<CR>> THEN Echo(Current) ELSE <<>>
    BY <1>5 DEF Calm, PromptCalm
  <2>2. tin = <<CR>> /\ tin' = <<>> /\ executed' = Append(executed, tline)
    BY <2>1, PromptReads
  <2>3. tline = Echo(Current) /\ Now = <<Current>> /\ Now' = <<>>
    <3>1. tin' # <<CR>> /\ xpc' # "echo"
      BY <1>1, <1>5, <2>2, CRType
    <3> QED BY <1>5, <2>1, <2>2, <3>1, Zenon DEF Now
  <2>4. PICK done : Order(done)
    BY DEF Ordered
  <2>5. PICK c, l, e, n : /\ c = Current /\ l = Left /\ e = executed /\ n = Len(done)
    OBVIOUS
  <2>6. /\ done \in Seq(Names) /\ Len(e) = n /\ n \in Nat
        /\ \A i \in 1 .. n : e[i] = Echo(done[i])
        /\ TypedLines = done \o (<<c>> \o l)
    <3>1. done \in Seq(Names) /\ n \in Nat
      BY <2>4, <2>5, Lengths, Zenon DEF Order
    <3> QED BY <2>3, <2>4, <2>5, <3>1, Zenon DEF Order
  <2>7. e \in Seq(Seq(Tokens)) /\ tline \in Seq(Tokens) /\ l \in Seq(Names) /\ c \in Names
    <3>1. sent \in Seq(Names) /\ sent # <<>>
      BY <1>5 DEF TypeInv, ExchangeInv
    <3>2. sent[Len(sent)] \in Names
      BY <3>1
    <3> QED BY <2>5, <3>2, LeftTypes DEF Current, TypeInv, WireInv
  <2>8. PICK more : more = Append(done, c)
    OBVIOUS
  <2>9. /\ more \in Seq(Names) /\ Len(more) = n + 1 /\ more[n + 1] = c
        /\ \A i \in 1 .. n : more[i] = done[i]
    BY <2>5, <2>6, <2>7, <2>8, AppendProperties
  <2>10. /\ Len(executed') = n + 1 /\ executed'[n + 1] = tline
         /\ \A i \in 1 .. n : executed'[i] = e[i]
    BY <2>2, <2>5, <2>6, <2>7, AppendProperties
  <2>11. ASSUME NEW i \in 1 .. n + 1 PROVE executed'[i] = Echo(more[i])
    <3>1. CASE i \in 1 .. n
      BY <2>6, <2>9, <2>10, <3>1
    <3>2. CASE i = n + 1
      BY <2>3, <2>5, <2>9, <2>10, <3>2
    <3> QED BY <2>6, <3>1, <3>2
  <2>12. TypedLines = more \o (Now' \o Left')
    <3>1. <<c>> \in Seq(Names) /\ more = done \o <<c>>
      BY <2>6, <2>7, <2>8, AppendIsConcat
    <3>2. (done \o <<c>>) \o l = done \o (<<c>> \o l) /\ <<>> \o l = l
      BY <2>6, <2>7, <3>1, ConcatAssociative, ConcatEmptySeq
    <3> QED BY <1>3, <2>3, <2>5, <2>6, <3>1, <3>2, Zenon
  <2>13. Order(more)'
    BY <2>9, <2>10, <2>11, <2>12 DEF Order
  <2> QED BY <2>13 DEF Ordered
<1> QED BY <1>1, <1>2, <1>4, <1>5

LEMMA OrderSends ==
  ASSUME TypeInv, Calm, Ordered, TargetSends
  PROVE  Ordered'
<1>1. UNCHANGED <<executed, xpc, sent, tin, todo, typed>>
  BY DEF TargetSends, mainVars, exchangeVars
<1>2. Now' = Now /\ Left' = Left
  BY <1>1, Zenon DEF Now, Current, Left
<1> QED BY <1>1, <1>2, OrderFrame, Zenon

LEMMA OrderMain ==
  ASSUME Expandable, TypeInv, Ordered,
         PassOn \/ Starts \/ Readline \/ Walk \/ TakeLevel \/ TakeProgress
  PROVE  Ordered'
<1>1. UNCHANGED <<executed, xpc, sent, tin>>
  BY DEF PassOn, Starts, Readline, Walk, TakeLevel, TakeProgress, exchangeVars, targetVars
<1>2. Now' = Now
  BY <1>1, Zenon DEF Now, Current
<1>3. Left' = Left
  <2>1. CASE PassOn \/ Starts \/ TakeProgress
    <3>1. UNCHANGED <<todo, typed>>
      BY <2>1 DEF PassOn, Starts, TakeProgress, mainVars
    <3> QED BY <3>1, Zenon DEF Left
  <2>2. CASE Readline \/ Walk \/ TakeLevel
    BY <2>2, ReadLeft, WalkLeft, LevelLeft
  <2> QED BY <2>1, <2>2
<1> QED BY <1>1, <1>2, <1>3, OrderFrame, Zenon

LEMMA OrderTakes ==
  ASSUME Expandable, TypeInv, TypeInv', NestInv, Calm, Calm', Ordered, TakeLine
  PROVE  Ordered'
<1>1. /\ xpc = "select" /\ xpc' \in {"echo", "prompt"} /\ UNCHANGED executed
      /\ sent' = Append(sent, xline') /\ xline' \in Names
  BY DEF TakeLine, TypeInv, ExchangeInv
<1>2. Current' = xline'
  BY <1>1, LastSent
<1>3. Left = <<xline'>> \o Left' /\ Left' \in Seq(Names)
  BY LineLeft
<1>4. Now = <<>>
  BY <1>1 DEF Now
<1>5. xpc' = "prompt" => tin' = <<CR>>
  <2> SUFFICES ASSUME xpc' = "prompt" PROVE tin' = <<CR>>
    OBVIOUS
  <2>1. serialSend(<<CR>>)
    BY DEF TakeLine
  <2>2. todo # <<>>
    BY DEF TakeLine
  <2>3. tin = <<>> /\ link = "up" /\ ~Busy
    BY <1>1, <2>2 DEF Calm, SelectCalm, Busy
  <2>4. tin' = tin \o <<CR>> /\ <<>> \o <<CR>> = <<CR>>
    BY <2>1, <2>3, CRType, ConcatEmptySeq DEF serialSend
  <2> QED BY <2>3, <2>4
<1>6. Now' = <<xline'>>
  BY <1>1, <1>2, <1>5, Zenon DEF Now
<1>7. Left \in Seq(Names)
  BY LeftTypes
<1>8. <<>> \o Left = Left
  BY <1>7, ConcatEmptySeq
<1> QED BY <1>1, <1>3, <1>4, <1>6, <1>8, OrderFrame, Zenon

LEMMA OrderEcho ==
  ASSUME TypeInv, Calm, Ordered, ExpectEcho, UNCHANGED faults
  PROVE  Ordered'
<1>1. xpc = "echo" /\ UNCHANGED <<executed, todo, typed, sent, tline, tout>>
  BY DEF ExpectEcho, mainVars
<1>2. PICK n \in 1 .. Len(wire) : \E data \in {SubSeq(wire, 1, n)} :
             Chunk(data, n) /\ (EchoSeen(data) \/ EchoGoesOn(data))
  BY EchoComes
<1>3. PICK data : Chunk(data, n) /\ (EchoSeen(data) \/ EchoGoesOn(data))
  BY <1>2
<1>4. xpc' = "echo" \/ (xpc' = "prompt" /\ tin' = <<CR>>)
  <2>1. CASE EchoSeen(data)
    BY <1>1, <1>3, <2>1, EchoSeenCalm
  <2>2. CASE EchoGoesOn(data)
    BY <1>1, <2>2 DEF EchoGoesOn
  <2> QED BY <1>3, <2>1, <2>2
<1>5. Now' = Now /\ Left' = Left
  BY <1>1, <1>4, Zenon DEF Now, Current, Left
<1> QED BY <1>1, <1>5, OrderFrame, Zenon

LEMMA OrderPrompt ==
  ASSUME TypeInv, Calm, Ordered, ExpectPrompt, UNCHANGED faults
  PROVE  Ordered'
<1>1. xpc = "prompt" /\ UNCHANGED <<executed, todo, typed, sent, tin>>
  BY DEF ExpectPrompt, mainVars, targetVars
<1>2. tin = <<>> /\ xpc' \in {"select", "prompt"}
  BY PromptKept
<1>3. tin # <<CR>> /\ tin' # <<CR>> /\ xpc # "echo" /\ xpc' # "echo"
  BY <1>1, <1>2, CRType
<1>4. Now' = <<>> /\ Now = <<>> /\ Left' = Left
  BY <1>1, <1>3, Zenon DEF Now, Left
<1> QED BY <1>1, <1>4, OrderFrame, Zenon

LEMMA NextOrder ==
  ASSUME Expandable, TypeInv, TypeInv', NestInv, Calm, Calm', Ordered, [Next]_vars, InStep'
  PROVE  Ordered'
<1>1. UNCHANGED faults /\ ~Unplug
  BY InStepBack
<1>2. ~Reconnect
  BY DEF Calm, Reconnect
<1>3. CASE TargetReads \/ TargetSends
  BY <1>3, OrderReads, OrderSends
<1>4. CASE PassOn \/ Starts \/ Readline \/ Walk \/ TakeLevel \/ TakeProgress
  BY <1>4, OrderMain
<1>5. CASE TakeLine
  BY <1>5, OrderTakes
<1>6. CASE ExpectEcho \/ ExpectPrompt
  BY <1>1, <1>6, OrderEcho, OrderPrompt
<1>7. CASE UNCHANGED vars
  <2>1. UNCHANGED <<executed, xpc, sent, tin, todo, typed>>
    BY <1>7 DEF vars, mainVars, exchangeVars, targetVars
  <2>2. Now' = Now /\ Left' = Left
    BY <2>1, Zenon DEF Now, Current, Left
  <2> QED BY <2>1, <2>2, OrderFrame, Zenon
<1> QED BY <1>1, <1>2, <1>3, <1>4, <1>5, <1>6, <1>7 DEF Next, Target, Exchange

OrderInv == TypeInv /\ NestInv /\ (InStep => Calm /\ Ordered)

LEMMA InitOrder ==
  ASSUME Expandable, Init
  PROVE  OrderInv
<1>1. TypeInv
  BY InitTypes
<1>2. /\ typed = Typed /\ todo = <<>> /\ main = "starting" /\ xpc = "select" /\ depth = 0
      /\ link = "up" /\ tin = <<>> /\ tline = <<>> /\ executed = <<>>
  BY Zenon DEF Init
<1>3. NestInv
  <2>1. Path(<<>>, 0, 0)
    BY PathNone, 0 \in Nat
  <2> QED BY <1>2, <2>1 DEF NestInv
<1>4. Calm
  BY <1>2 DEF Calm, SelectCalm
<1>5. Order(<<>>)
  <2>1. Typed \in Seq(Item)
    BY ConsoleAssumption
  <2>2. TypedLines = Ahead(Typed)
    BY <2>1, AllAhead DEF TypedLines
  <2>3. Left = <<>> \o Ahead(Typed) /\ Now = <<>> /\ Ahead(Typed) \in Seq(Names)
    <3>1. Typed \in Seq(Work)
      BY <2>1, AllAhead
    <3>2. Now = <<>>
      BY <1>2 DEF Now
    <3> QED BY <1>2, <3>1, <3>2, AheadFacts, Zenon DEF Left
  <2>4. \A s \in Seq(Names) : <<>> \o s = s
    BY ConcatEmptySeq
  <2>5. TypedLines = <<>> \o (Now \o Left)
    BY <2>2, <2>3, <2>4, Zenon
  <2>6. <<>> \in Seq(Names) /\ Len(executed) = Len(<<>>) /\ \A i \in 1 .. Len(<<>>) : FALSE
    BY <1>2
  <2> QED BY <2>5, <2>6, Zenon DEF Order
<1> QED BY <1>1, <1>3, <1>4, <1>5 DEF OrderInv, Ordered

LEMMA StepOrder ==
  ASSUME Expandable, OrderInv, [Next]_vars
  PROVE  OrderInv'
<1>1. TypeInv' /\ NestInv'
  BY NextTypes, NestStep DEF OrderInv
<1>2. ASSUME InStep' PROVE Calm' /\ Ordered'
  <2>1. TypeInv /\ NestInv /\ Calm /\ Ordered
    BY <1>2, InStepBack DEF OrderInv
  <2>2. Calm'
    BY <1>1, <1>2, <2>1, NextCalm
  <2> QED BY <1>1, <1>2, <2>1, <2>2, NextOrder
<1> QED BY <1>1, <1>2 DEF OrderInv

LEMMA InOrder ==
  ASSUME Expandable, OrderInv
  PROVE  ExecutedInOrder
<1> SUFFICES ASSUME InStep
             PROVE  /\ Len(executed) <= Len(TypedLines)
                    /\ \A i \in DOMAIN executed : executed[i] = Echo(TypedLines[i])
                    /\ typed = <<>> /\ todo = <<>> /\ main = "running" =>
                           Len(executed) = Len(TypedLines)
  BY DEF ExecutedInOrder
<1>1. TypeInv /\ Calm /\ Ordered
  BY DEF OrderInv
<1>2. PICK done : Order(done)
  BY <1>1 DEF Ordered
<1>3. PICK rest : rest = Now \o Left
  OBVIOUS
<1>4. rest \in Seq(Names)
  <2>1. Left \in Seq(Names)
    BY <1>1, LeftTypes
  <2>2. Now \in Seq(Names)
    <3>1. CASE xpc = "select"
      <4>1. Now = <<>>
        BY <3>1 DEF Now
      <4> QED BY <4>1
    <3>2. CASE xpc # "select"
      <4>1. sent \in Seq(Names) /\ sent # <<>>
        BY <1>1, <3>2 DEF TypeInv, ExchangeInv
      <4>2. sent[Len(sent)] \in Names
        BY <4>1
      <4>3. <<Current>> \in Seq(Names) /\ <<>> \in Seq(Names)
        BY <4>2 DEF Current
      <4> QED BY <4>3, Zenon DEF Now
    <3> QED BY <3>1, <3>2
  <2> QED BY <1>3, <2>1, <2>2, Joins
<1>5. /\ done \in Seq(Names) /\ Len(executed) = Len(done)
      /\ \A i \in 1 .. Len(done) : executed[i] = Echo(done[i])
      /\ TypedLines = done \o rest
  BY <1>2, <1>3, Zenon DEF Order
<1>6. /\ Len(TypedLines) = Len(done) + Len(rest)
      /\ \A i \in 1 .. Len(done) : TypedLines[i] = done[i]
      /\ Len(done) \in Nat /\ Len(rest) \in Nat
  BY <1>4, <1>5, ConcatAt, Lengths
<1>7. DOMAIN executed = 1 .. Len(done)
  <2>1. executed \in Seq(Seq(Tokens))
    BY <1>1 DEF TypeInv, WireInv
  <2>2. DOMAIN executed = 1 .. Len(executed)
    BY <2>1
  <2> QED BY <1>5, <2>2
<1>8. ASSUME typed = <<>>, todo = <<>>, main = "running" PROVE Len(executed) = Len(TypedLines)
  <2>1. xpc = "select"
    BY <1>1, <1>8 DEF TypeInv, MainInv, ExchangeInv
  <2>2. Now = <<>>
    BY <2>1 DEF Now
  <2>3. Left = <<>> \o <<>>
    BY <1>8, AheadFacts, Zenon DEF Left
  <2>4. <<>> \o <<>> = <<>> /\ Len(<<>>) = 0
    OBVIOUS
  <2>5. Len(rest) = 0
    BY <1>3, <2>2, <2>3, <2>4, Zenon
  <2> QED BY <1>5, <1>6, <2>5
<1>9. Len(executed) <= Len(TypedLines)
  <2>1. \A l, m \in Nat : l <= l + m
    OBVIOUS
  <2> QED BY <1>5, <1>6, <2>1, Zenon
<1>10. \A i \in DOMAIN executed : executed[i] = Echo(TypedLines[i])
  BY <1>5, <1>6, <1>7, Zenon
<1> QED BY <1>8, <1>9, <1>10, Zenon

(* As long as the target is never silent for too long while it is busy, and *)
(* nothing is typed ahead, the target executes the lines that were typed    *)
(* and those of the files that they include, each once, whole and in order. *)
(* The files are assumed not to include themselves: what they amount to is  *)
(* what the lines of each amount to.                                        *)
THEOREM ExecutesInOrder == Expandable => (Spec => []ExecutedInOrder)
<1> SUFFICES ASSUME Expandable PROVE Spec => []ExecutedInOrder
  OBVIOUS
<1>1. Init => OrderInv
  BY InitOrder
<1>2. OrderInv /\ [Next]_vars => OrderInv'
  BY StepOrder
<1>3. OrderInv => ExecutedInOrder
  BY InOrder
<1> QED BY <1>1, <1>2, <1>3, PTL DEF Spec

-----------------------------------------------------------------------------
(* InputShown.  What is said of a line is under it: the line was shown      *)
(* before, and none since.                                                  *)

IsLine(t) == t[1] = "line"
Speaks(t) == IsSaid(t) /\ t # Said("boot")

(* The last line in s is this one.                                          *)
Under(s, line) ==
  \E j \in 1 .. Len(s) : s[j] = Input(line) /\ \A k \in j + 1 .. Len(s) : ~IsLine(s[k])

Owned(s) ==
  \A i \in 1 .. Len(s) : Speaks(s[i]) =>
    \E j \in 1 .. i - 1 : s[j] = Input(s[i][2]) /\ \A k \in j + 1 .. i - 1 : ~IsLine(s[k])

(* No lines, and nothing said but of some lines.                            *)
Only(s, lines) == \A i \in 1 .. Len(s) : ~IsLine(s[i]) /\ (Speaks(s[i]) => s[i][2] \in lines)

AllUnder(s, lines) == \A line \in lines : Under(s, line)

LEMMA OnlyJoin ==
  ASSUME NEW s \in Seq(Tokens), NEW t \in Seq(Tokens), NEW lines
  PROVE  Only(s \o t, lines) <=> Only(s, lines) /\ Only(t, lines)
<1>1. PICK m, n, st : m = Len(s) /\ n = Len(t) /\ st = s \o t /\ m \in Nat /\ n \in Nat
  BY Lengths, Zenon
<1>2. /\ Len(st) = m + n
      /\ \A i \in 1 .. m : st[i] = s[i]
      /\ \A i \in 1 .. n : st[m + i] = t[i]
  BY <1>1, ConcatAt
<1>3. ASSUME Only(s, lines), Only(t, lines) PROVE Only(st, lines)
  <2> SUFFICES ASSUME NEW i \in 1 .. m + n
               PROVE  ~IsLine(st[i]) /\ (Speaks(st[i]) => st[i][2] \in lines)
    BY <1>2 DEF Only
  <2>1. CASE i \in 1 .. m
    BY <1>1, <1>2, <1>3, <2>1 DEF Only
  <2>2. CASE i \notin 1 .. m
    <3>1. PICK j \in 1 .. n : i = m + j
      <4>1. i - m \in 1 .. n /\ i = m + (i - m)
        BY <1>1, <2>2
      <4> QED BY <4>1
    <3> QED BY <1>1, <1>2, <1>3, <3>1 DEF Only
  <2> QED BY <2>1, <2>2
<1>4. ASSUME Only(st, lines) PROVE Only(s, lines) /\ Only(t, lines)
  <2>1. \A i \in 1 .. m + n : ~IsLine(st[i]) /\ (Speaks(st[i]) => st[i][2] \in lines)
    BY <1>2, <1>4 DEF Only
  <2>2. ASSUME NEW i \in 1 .. m PROVE ~IsLine(s[i]) /\ (Speaks(s[i]) => s[i][2] \in lines)
    <3>1. i \in 1 .. m + n
      BY <1>1
    <3> QED BY <1>2, <2>1, <3>1
  <2>3. ASSUME NEW i \in 1 .. n PROVE ~IsLine(t[i]) /\ (Speaks(t[i]) => t[i][2] \in lines)
    <3>1. m + i \in 1 .. m + n
      BY <1>1
    <3> QED BY <1>2, <2>1, <3>1
  <2> QED BY <1>1, <2>2, <2>3 DEF Only
<1> QED BY <1>1, <1>3, <1>4

LEMMA OnlyCut ==
  ASSUME NEW s \in Seq(Tokens), NEW n \in 0 .. Len(s), NEW lines, Only(s, lines)
  PROVE  Only(SubSeq(s, 1, n), lines) /\ Only(SubSeq(s, n + 1, Len(s)), lines)
<1>1. PICK a, b : a = SubSeq(s, 1, n) /\ b = SubSeq(s, n + 1, Len(s))
  OBVIOUS
<1>2. a \in Seq(Tokens) /\ b \in Seq(Tokens) /\ a \o b = s
  BY <1>1, Cut
<1>3. Only(a \o b, lines)
  BY <1>2, Zenon
<1>4. Only(a, lines) /\ Only(b, lines)
  BY <1>2, <1>3, OnlyJoin
<1> QED BY <1>1, <1>4, Zenon

(* What stands under a line still does after more that is no line.          *)
LEMMA UnderMore ==
  ASSUME NEW s \in Seq(Tokens), NEW t \in Seq(Tokens), NEW lines, Only(t, lines),
         NEW line, Under(s, line)
  PROVE  Under(s \o t, line)
<1>1. PICK m, n, st : m = Len(s) /\ n = Len(t) /\ st = s \o t /\ m \in Nat /\ n \in Nat
  BY Lengths, Zenon
<1>2. /\ Len(st) = m + n
      /\ \A i \in 1 .. m : st[i] = s[i]
      /\ \A i \in 1 .. n : st[m + i] = t[i]
  BY <1>1, ConcatAt
<1>3. PICK j \in 1 .. m : s[j] = Input(line) /\ \A k \in j + 1 .. m : ~IsLine(s[k])
  BY <1>1 DEF Under
<1>4. j \in 1 .. m + n /\ st[j] = Input(line)
  BY <1>1, <1>2, <1>3
<1>5. ASSUME NEW k \in j + 1 .. m + n PROVE ~IsLine(st[k])
  <2>1. CASE k \in 1 .. m
    <3>1. k \in j + 1 .. m
      BY <1>1, <2>1
    <3> QED BY <1>2, <1>3, <2>1, <3>1
  <2>2. CASE k \notin 1 .. m
    <3>1. PICK i \in 1 .. n : k = m + i
      <4>1. k - m \in 1 .. n /\ k = m + (k - m)
        BY <1>1, <2>2
      <4> QED BY <4>1
    <3> QED BY <1>1, <1>2, <3>1 DEF Only
  <2> QED BY <2>1, <2>2
<1>6. Under(st, line)
  BY <1>2, <1>4, <1>5 DEF Under
<1> QED BY <1>1, <1>6

LEMMA OwnedMore ==
  ASSUME NEW s \in Seq(Tokens), NEW t \in Seq(Tokens), NEW lines, Owned(s),
         Only(t, lines), AllUnder(s, lines)
  PROVE  Owned(s \o t)
<1>1. PICK m, n, st : m = Len(s) /\ n = Len(t) /\ st = s \o t /\ m \in Nat /\ n \in Nat
  BY Lengths, Zenon
<1>2. /\ Len(st) = m + n
      /\ \A i \in 1 .. m : st[i] = s[i]
      /\ \A i \in 1 .. n : st[m + i] = t[i]
  BY <1>1, ConcatAt
<1>3. ASSUME NEW i \in 1 .. m + n, Speaks(st[i])
      PROVE  \E j \in 1 .. i - 1 : /\ st[j] = Input(st[i][2])
                                   /\ \A k \in j + 1 .. i - 1 : ~IsLine(st[k])
  <2>1. CASE i \in 1 .. m
    <3>1. st[i] = s[i]
      BY <1>2, <2>1
    <3>2. PICK j \in 1 .. i - 1 : s[j] = Input(s[i][2]) /\ \A k \in j + 1 .. i - 1 : ~IsLine(s[k])
      BY <1>1, <1>3, <2>1, <3>1 DEF Owned
    <3>3. st[j] = s[j] /\ \A k \in j + 1 .. i - 1 : st[k] = s[k]
      <4>1. j \in 1 .. m /\ \A k \in j + 1 .. i - 1 : k \in 1 .. m
        BY <1>1, <2>1
      <4> QED BY <1>2, <4>1
    <3> QED BY <3>1, <3>2, <3>3
  <2>2. CASE i \notin 1 .. m
    <3>1. PICK p \in 1 .. n : i = m + p
      <4>1. i - m \in 1 .. n /\ i = m + (i - m)
        BY <1>1, <2>2
      <4> QED BY <4>1
    <3>2. st[i] = t[p] /\ st[i][2] \in lines
      BY <1>1, <1>2, <1>3, <3>1 DEF Only
    <3>3. PICK line : line = st[i][2] /\ Under(s, line)
      BY <3>2 DEF AllUnder
    <3>4. PICK j \in 1 .. m : s[j] = Input(line) /\ \A k \in j + 1 .. m : ~IsLine(s[k])
      BY <1>1, <3>3 DEF Under
    <3>5. j \in 1 .. i - 1 /\ st[j] = Input(line)
      BY <1>1, <1>2, <3>1, <3>4
    <3>6. ASSUME NEW k \in j + 1 .. i - 1 PROVE ~IsLine(st[k])
      <4>1. CASE k \in 1 .. m
        <5>1. k \in j + 1 .. m
          BY <1>1, <4>1
        <5> QED BY <1>2, <3>4, <4>1, <5>1
      <4>2. CASE k \notin 1 .. m
        <5>1. PICK q \in 1 .. n : k = m + q
          <6>1. k - m \in 1 .. n /\ k = m + (k - m)
            BY <1>1, <3>1, <4>2
          <6> QED BY <6>1
        <5> QED BY <1>1, <1>2, <5>1 DEF Only
      <4> QED BY <4>1, <4>2
    <3> QED BY <3>3, <3>5, <3>6
  <2> QED BY <2>1, <2>2
<1>4. Owned(st)
  BY <1>2, <1>3 DEF Owned
<1> QED BY <1>1, <1>4

LEMMA OneInOne == 1 \in 1 .. 1
OBVIOUS

LEMMA OneMore ==
  ASSUME NEW s \in Seq(Tokens), NEW x \in Tokens, NEW m \in Nat, m = Len(s)
  PROVE  /\ s \o <<x>> \in Seq(Tokens) /\ Len(s \o <<x>>) = m + 1
         /\ \A i \in 1 .. m : (s \o <<x>>)[i] = s[i]
         /\ (s \o <<x>>)[m + 1] = x
<1>1. s \o <<x>> = Append(s, x)
  BY AppendIsConcat
<1>2. /\ Append(s, x) \in Seq(Tokens) /\ Len(Append(s, x)) = m + 1
      /\ \A i \in 1 .. m : Append(s, x)[i] = s[i]
      /\ Append(s, x)[m + 1] = x
  BY AppendProperties
<1> QED BY <1>1, <1>2, Zenon

(* A line that is shown now is the last one.                                *)
LEMMA LineShown ==
  ASSUME NEW s \in Seq(Tokens), Owned(s), NEW line \in Names
  PROVE  /\ Owned(s \o Line(line)) /\ s \o Line(line) \in Seq(Tokens)
         /\ line # "" => Under(s \o Line(line), line)
<1>1. CASE line = ""
  <2>1. s \o Line(line) = s
    BY <1>1, LineType, ConcatEmptySeq
  <2> QED BY <1>1, <2>1
<1>2. CASE line # ""
  <2>1. PICK t, x : x = Input(line) /\ t = <<x>> /\ t = Line(line)
    <3>1. Line(line) = <<Input(line)>>
      BY <1>2, LineType
    <3> QED BY <3>1, Zenon
  <2>3. PICK m, st : m = Len(s) /\ st = s \o t /\ m \in Nat
    BY Lengths, Zenon
  <2>4. /\ st \in Seq(Tokens) /\ Len(st) = m + 1
        /\ \A i \in 1 .. m : st[i] = s[i]
        /\ st[m + 1] = x
    <3>1. x \in Tokens
      BY <2>1, TokenTypes
    <3>2. /\ s \o <<x>> \in Seq(Tokens) /\ Len(s \o <<x>>) = m + 1
          /\ \A i \in 1 .. m : (s \o <<x>>)[i] = s[i]
          /\ (s \o <<x>>)[m + 1] = x
      BY <2>3, <3>1, OneMore
    <3> QED BY <2>1, <2>3, <3>2, Zenon
  <2>5. ~Speaks(x)
    BY <2>1 DEF Speaks, IsSaid, Input
  <2>6. ASSUME NEW i \in 1 .. m + 1, Speaks(st[i])
        PROVE  \E j \in 1 .. i - 1 : /\ st[j] = Input(st[i][2])
                                     /\ \A k \in j + 1 .. i - 1 : ~IsLine(st[k])
    <3>1. i \in 1 .. m
      BY <2>3, <2>4, <2>5, <2>6
    <3>2. st[i] = s[i]
      BY <2>4, <3>1
    <3>3. PICK j \in 1 .. i - 1 : s[j] = Input(s[i][2]) /\ \A k \in j + 1 .. i - 1 : ~IsLine(s[k])
      BY <2>3, <2>6, <3>1, <3>2 DEF Owned
    <3>4. st[j] = s[j] /\ \A k \in j + 1 .. i - 1 : st[k] = s[k]
      <4>1. j \in 1 .. m /\ \A k \in j + 1 .. i - 1 : k \in 1 .. m
        BY <2>3, <3>1
      <4> QED BY <2>4, <4>1
    <3> QED BY <3>2, <3>3, <3>4
  <2>7. Owned(st)
    BY <2>4, <2>6 DEF Owned
  <2>8. Under(st, line)
    <3>1. m + 1 \in 1 .. m + 1 /\ \A k \in (m + 1) + 1 .. m + 1 : FALSE
      BY <2>3
    <3> QED BY <2>1, <2>4, <3>1 DEF Under
  <2> QED BY <2>1, <2>3, <2>4, <2>7, <2>8
<1> QED BY <1>1, <1>2

(* The target understands all lines that are typed or included, and says    *)
(* nothing of an empty one.                                                 *)
Understood ==
  /\ \A i \in DOMAIN TypedLines : TypedLines[i] \in DOMAIN Output
  /\ "" \in DOMAIN Output => "" \notin Fails /\ \A i \in DOMAIN Output[""] : Output[""][i] = NL

Voices(line) == {line} \ {""}

LEMMA EchoInjective ==
  ASSUME NEW line \in Names, NEW other \in Names, Echo(line) = Echo(other)
  PROVE  line = other
<1>1. CASE line = ""
  <2>1. Echo(other) = <<>>
    BY <1>1, EchoType
  <2>2. other = ""
    BY <2>1, EchoSome
  <2> QED BY <1>1, <2>2
<1>2. CASE line # ""
  <2>1. Echo(other) # <<>>
    BY <1>2, EchoSome
  <2>2. other # ""
    BY <2>1, EchoType
  <2>3. Begin(line) = Begin(other)
    BY <1>2, <2>2, EchoType, Zenon
  <2> QED BY <2>3 DEF Begin
<1> QED BY <1>1, <1>2

LEMMA TokenVoices ==
  /\ \A lines : /\ Only(<<Space>>, lines) /\ Only(<<>>, lines)
  /\ \A t \in {CR, Space, Ok, NL} : ~IsLine(t) /\ ~Speaks(t)
  /\ \A line : ~IsLine(Said(line)) /\ Said(line)[2] = line
<1>1. /\ \A t \in {CR, Space, Ok, NL} : ~IsLine(t) /\ ~Speaks(t)
      /\ \A line : ~IsLine(Said(line)) /\ Said(line)[2] = line
  BY DEF CR, Space, Ok, NL, Said, IsLine, Speaks, IsSaid
<1>2. PICK s : s = <<Space>> /\ Len(s) = 1 /\ s[1] = Space
  <2>1. Len(<<Space>>) = 1 /\ <<Space>>[1] = Space
    OBVIOUS
  <2> QED BY <2>1, Zenon
<1>3. \A lines : Only(s, lines)
  BY <1>1, <1>2 DEF Only
<1>4. \A lines : Only(<<>>, lines)
  BY DEF Only
<1> QED BY <1>1, <1>2, <1>3, <1>4, Zenon

LEMMA AnswerVoices ==
  ASSUME Understood, NEW line \in DOMAIN Output
  PROVE  Only(Answer(Echo(line)), Voices(line))
<1>1. PICK l : l = CHOOSE other \in DOMAIN Output : Echo(line) = Echo(other)
  OBVIOUS
<1>2. l \in DOMAIN Output /\ Echo(line) = Echo(l)
  BY <1>1
<1>3. l = line /\ line \in Names
  BY <1>2, OutputType, EchoInjective
<1>4. Answer(Echo(line)) =
        Output[line] \o IF line \in Fails THEN <<Said(line), NL>> ELSE <<Ok, NL>>
  BY <1>1, <1>2, <1>3 DEF Answer
<1>5. PICK o, e : /\ o = Output[line]
                  /\ e = IF line \in Fails THEN <<Said(line), NL>> ELSE <<Ok, NL>>
  OBVIOUS
<1>6. o \in Seq(Tokens) /\ \A i \in 1 .. Len(o) : o[i] \in {Said(line), NL}
  BY <1>5, OutputType
<1>7. /\ e \in Seq(Tokens) /\ Len(e) = 2 /\ e[1] \in {Said(line), Ok} /\ e[2] = NL
      /\ line \notin Fails => e[1] = Ok
  <2>1. Said(line) \in Tokens /\ Ok \in Tokens /\ NL \in Tokens
    BY <1>3, TokenTypes
  <2>2. CASE line \in Fails
    BY <1>5, <2>1, <2>2
  <2>3. CASE line \notin Fails
    BY <1>5, <2>1, <2>3
  <2> QED BY <2>2, <2>3
<1>8. CASE line # ""
  <2>1. line \in Voices(line)
    BY <1>8 DEF Voices
  <2>2. Only(o, Voices(line))
    BY <1>6, <2>1, TokenVoices DEF Only
  <2>3. Only(e, Voices(line))
    BY <1>7, <2>1, TokenVoices DEF Only
  <2>4. Only(o \o e, Voices(line))
    BY <1>6, <1>7, <2>2, <2>3, OnlyJoin
  <2> QED BY <1>4, <1>5, <2>4, Zenon
<1>9. CASE line = ""
  <2>1. line \notin Fails /\ \A i \in 1 .. Len(o) : o[i] = NL
    <3>1. DOMAIN o = 1 .. Len(o)
      BY <1>6
    <3> QED BY <1>5, <1>9, <3>1, Zenon DEF Understood
  <2>2. Only(o, Voices(line))
    BY <2>1, TokenVoices DEF Only
  <2>3. Only(e, Voices(line))
    BY <1>7, <2>1, TokenVoices DEF Only
  <2>4. Only(o \o e, Voices(line))
    BY <1>6, <1>7, <2>2, <2>3, OnlyJoin
  <2> QED BY <1>4, <1>5, <2>4, Zenon
<1> QED BY <1>8, <1>9

LEMMA MadeOnly ==
  ASSUME NEW s \in Seq(Tokens), Made(s, Halves)
  PROVE  Only(s, {})
BY DEF Made, Halves, Only, IsLine, Speaks, IsSaid

-----------------------------------------------------------------------------

SelectHeard ==
  \E lines : Only(wire, lines) /\ Only(tout, lines) /\ AllUnder(shown, lines)
PromptHeard ==
  /\ Only(collected, Voices(Current)) /\ Only(wire, Voices(Current))
  /\ Only(tout, Voices(Current))
  /\ xline # "" => xline = Current
  /\ xline = "" => AllUnder(shown, Voices(Current))
  /\ immediate => xline = ""

ShownInv ==
  /\ Owned(shown)
  /\ xpc = "select" => SelectHeard
  /\ xpc = "prompt" => PromptHeard

LEMMA CurrentKnown ==
  ASSUME Expandable, Understood, TypeInv, Ordered, Now = <<Current>>, Current \in Names
  PROVE  Current \in DOMAIN Output
<1>1. PICK done : Order(done)
  BY DEF Ordered
<1>2. PICK c, l, n : c = Current /\ l = Left /\ n = Len(done)
  OBVIOUS
<1>3. /\ done \in Seq(Names) /\ l \in Seq(Names) /\ c \in Names /\ n \in Nat
      /\ TypedLines = done \o (<<c>> \o l)
  BY <1>1, <1>2, LeftTypes, Lengths, Zenon DEF Order
<1>4. PICK r : r = <<c>> \o l
  OBVIOUS
<1>5. r \in Seq(Names) /\ Len(r) >= 1 /\ r[1] = c /\ Len(r) \in Nat
  <2>1. PICK s, m : s = <<c>> /\ m = Len(l) /\ m \in Nat
    BY <1>3, Lengths, Zenon
  <2>2. s \in Seq(Names) /\ Len(s) = 1 /\ s[1] = c
    BY <1>3, <2>1
  <2>3. /\ s \o l \in Seq(Names) /\ Len(s \o l) = 1 + m
        /\ \A i \in 1 .. 1 : (s \o l)[i] = s[i]
    BY <1>3, <2>1, <2>2, ConcatAt
  <2>4. r = s \o l
    BY <1>4, <2>1, Zenon
  <2>5. r \in Seq(Names) /\ Len(r) = 1 + m /\ r[1] = c
    BY <2>2, <2>3, <2>4, OneInOne, Zenon
  <2> QED BY <2>1, <2>5
<1>6. TypedLines \in Seq(Names) /\ Len(TypedLines) = n + Len(r) /\ TypedLines[n + 1] = c
  <2>1. /\ done \o r \in Seq(Names) /\ Len(done \o r) = n + Len(r)
        /\ \A i \in 1 .. Len(r) : (done \o r)[n + i] = r[i]
    BY <1>2, <1>3, <1>5, ConcatAt
  <2>2. 1 \in 1 .. Len(r)
    BY <1>5
  <2> QED BY <1>3, <1>4, <1>5, <2>1, <2>2, Zenon
<1>7. DOMAIN TypedLines = 1 .. Len(TypedLines)
  BY <1>6
<1>8. n + 1 \in DOMAIN TypedLines
  BY <1>3, <1>5, <1>6, <1>7
<1> QED BY <1>2, <1>6, <1>8, Zenon DEF Understood

LEMMA CurrentName ==
  ASSUME TypeInv, sent # <<>>
  PROVE  Current \in Names
<1>1. sent \in Seq(Names)
  BY DEF TypeInv, ExchangeInv
<1>2. sent[Len(sent)] \in Names
  BY <1>1
<1> QED BY <1>2 DEF Current

LEMMA ReadsShown ==
  ASSUME Expandable, Understood, TypeInv, Calm, Ordered, ShownInv, TargetReads
  PROVE  ShownInv'
<1>1. /\ tin # <<>> /\ UNCHANGED <<xpc, xline, immediate, sent, shown, collected>>
      /\ xpc \in {"select", "echo", "prompt"}
  BY DEF TargetReads, exchangeVars, TypeInv, ExchangeInv
<1>2. xpc # "select" /\ Owned(shown')
  BY <1>1, Zenon DEF Calm, SelectCalm, ShownInv
<1>3. CASE xpc = "echo"
  BY <1>1, <1>2, <1>3 DEF ShownInv
<1>4. CASE xpc = "prompt"
  <2>1. PromptPhase /\ tline = IF tin = <<CR>> THEN Echo(Current) ELSE <<>>
    BY <1>4 DEF Calm, PromptCalm
  <2>2. tin = <<CR>> /\ wire = <<>> /\ collected = <<>>
    BY <1>1, <2>1, PromptReads DEF PromptPhase
  <2>3. Now = <<Current>> /\ Current' = Current /\ tline = Echo(Current)
    BY <1>1, <1>4, <2>1, <2>2, Zenon DEF Now, Current
  <2>4. Current \in DOMAIN Output
    <3>1. Current \in Names
      BY <1>4, CurrentName DEF TypeInv, ExchangeInv
    <3> QED BY <2>3, <3>1, CurrentKnown
  <2>5. tout' = <<Space>> \o Answer(tline) /\ UNCHANGED wire
    <3>1. Head(tin) = CR
      BY <2>2
    <3> QED BY <3>1 DEF TargetReads
  <2>6. Only(tout', Voices(Current))
    <3>1. PICK a : a = Answer(tline)
      OBVIOUS
    <3>2. Only(a, Voices(Current)) /\ a \in Seq(Tokens)
      BY <2>3, <2>4, <3>1, AnswerVoices, AnswerFacts, Zenon
    <3>3. <<Space>> \in Seq(Tokens) /\ Only(<<Space>>, Voices(Current))
      BY TokenTypes, TokenVoices, OneToken, 0 \in Nat
    <3>4. Only(<<Space>> \o a, Voices(Current))
      BY <3>2, <3>3, OnlyJoin
    <3> QED BY <2>5, <3>1, <3>4, Zenon
  <2>7. PromptHeard
    BY <1>4 DEF ShownInv
  <2>8. PromptHeard'
    BY <1>1, <2>3, <2>5, <2>6, <2>7, Zenon DEF PromptHeard
  <2> QED BY <1>1, <1>2, <1>4, <2>8 DEF ShownInv
<1> QED BY <1>1, <1>2, <1>3, <1>4

LEMMA SendsShown ==
  ASSUME TypeInv, Calm, ShownInv, TargetSends
  PROVE  ShownInv'
<1>1. /\ tout # <<>> /\ tout' = Tail(tout) /\ Emit(<<Head(tout)>>)
      /\ UNCHANGED <<xpc, xline, immediate, sent, shown, collected>>
      /\ xpc \in {"select", "echo", "prompt"}
  BY DEF TargetSends, exchangeVars, TypeInv, ExchangeInv
<1>2. xpc # "echo" /\ Owned(shown') /\ Current' = Current
  BY <1>1 DEF Calm, EchoCalm, ShownInv, Current
<1>3. PICK h : h = <<Head(tout)>>
  OBVIOUS
<1>4. /\ wire \in Seq(Tokens) /\ tout \in Seq(Tokens) /\ WireInv /\ Head(tout) \in Tokens
      /\ h \in Seq(Tokens) /\ tout' \in Seq(Tokens) /\ tout = h \o tout'
  <2>1. wire \in Seq(Tokens) /\ tout \in Seq(Tokens) /\ WireInv
    BY DEF TypeInv, WireInv
  <2> QED BY <1>1, <1>3, <2>1, HeadTail
<1>5. ASSUME NEW lines, Only(wire, lines), Only(tout, lines)
      PROVE  Only(wire', lines) /\ Only(tout', lines)
  <2>1. Only(h \o tout', lines)
    BY <1>4, <1>5, Zenon
  <2>2. Only(h, lines) /\ Only(tout', lines)
    BY <1>4, <2>1, OnlyJoin
  <2>3. Only(wire \o h, lines)
    BY <1>4, <1>5, <2>2, OnlyJoin
  <2>4. wire' = wire \/ wire' = wire \o h
    BY <1>1, <1>3, <1>4, Emits
  <2> QED BY <1>5, <2>2, <2>3, <2>4
<1>6. CASE xpc = "select"
  <2>1. PICK lines : Only(wire, lines) /\ Only(tout, lines) /\ AllUnder(shown, lines)
    BY <1>6 DEF ShownInv, SelectHeard
  <2>2. Only(wire', lines) /\ Only(tout', lines) /\ AllUnder(shown', lines)
    BY <1>1, <1>5, <2>1, Zenon
  <2>3. SelectHeard'
    BY <2>2, Zenon DEF SelectHeard
  <2> QED BY <1>1, <1>2, <1>6, <2>3 DEF ShownInv
<1>7. CASE xpc = "prompt"
  <2>1. PromptHeard
    BY <1>7 DEF ShownInv
  <2>2. Only(wire', Voices(Current)) /\ Only(tout', Voices(Current))
    BY <1>5, <2>1 DEF PromptHeard
  <2>3. PromptHeard'
    BY <1>1, <1>2, <2>1, <2>2, Zenon DEF PromptHeard
  <2> QED BY <1>1, <1>2, <1>7, <2>3 DEF ShownInv
<1> QED BY <1>1, <1>2, <1>6, <1>7

(* Of a chunk, and of what is left, is said what was said of all.           *)
LEMMA ChunkOnly ==
  ASSUME TypeInv, NEW n \in 1 .. Len(wire), NEW data, Chunk(data, n), NEW lines,
         Only(wire, lines)
  PROVE  Only(data, lines) /\ Only(wire', lines) /\ data \in Seq(Tokens)
<1>1. data \in Seq(Tokens) /\ wire' \in Seq(Tokens) /\ wire = data \o wire'
  BY ChunkTypes DEF TypeInv
<1>2. Only(data \o wire', lines)
  BY <1>1, Zenon
<1> QED BY <1>1, <1>2, OnlyJoin

(* More of the same is shown.                                               *)
LEMMA ShowsMore ==
  ASSUME TypeInv, Owned(shown), NEW tokens \in Seq(Tokens), Show(tokens), NEW lines,
         Only(tokens, lines), AllUnder(shown, lines)
  PROVE  Owned(shown') /\ AllUnder(shown', lines) /\ shown' \in Seq(Tokens)
<1>1. shown \in Seq(Tokens) /\ shown' = shown \o tokens
  BY DEF TypeInv, WireInv, Show
<1>2. Owned(shown \o tokens) /\ shown \o tokens \in Seq(Tokens)
  BY <1>1, OwnedMore, Joins
<1>3. ASSUME NEW line \in lines PROVE Under(shown \o tokens, line)
  <2>1. Under(shown, line)
    BY DEF AllUnder
  <2> QED BY <1>1, <2>1, UnderMore
<1> QED BY <1>1, <1>2, <1>3, Zenon DEF AllUnder

LEMMA MainShown ==
  ASSUME TypeInv, Calm, ShownInv,
         PassOn \/ Starts \/ Readline \/ Walk \/ TakeLevel \/ TakeProgress
  PROVE  ShownInv'
<1>1. UNCHANGED <<xpc, xline, immediate, sent, collected, tout>>
  BY DEF PassOn, Starts, Readline, Walk, TakeLevel, TakeProgress, exchangeVars, targetVars
<1>2. Current' = Current
  BY <1>1 DEF Current
<1>3. CASE UNCHANGED <<wire, shown>>
  <2>1. PromptHeard' = PromptHeard /\ SelectHeard' = SelectHeard
    BY <1>1, <1>2, <1>3, Zenon DEF PromptHeard, SelectHeard
  <2> QED BY <1>1, <1>3, <2>1, Zenon DEF ShownInv
<1>4. CASE PassOn
  <2>1. xpc = "select"
    BY <1>4 DEF PassOn
  <2>2. PICK lines : Only(wire, lines) /\ Only(tout, lines) /\ AllUnder(shown, lines)
    BY <2>1 DEF ShownInv, SelectHeard
  <2>3. PICK n, data : n \in 1 .. Len(wire) /\ Chunk(data, n) /\ Show(data)
    BY <1>4 DEF PassOn
  <2>4. Only(data, lines) /\ Only(wire', lines) /\ data \in Seq(Tokens)
    BY <2>2, <2>3, ChunkOnly
  <2>5. Owned(shown') /\ AllUnder(shown', lines)
    BY <2>2, <2>3, <2>4, ShowsMore DEF ShownInv
  <2>6. SelectHeard'
    BY <1>1, <2>2, <2>4, <2>5, Zenon DEF SelectHeard
  <2> QED BY <1>1, <2>1, <2>5, <2>6 DEF ShownInv
<1>5. CASE Starts
  <2>1. xpc = "select" /\ UNCHANGED shown
    BY <1>5 DEF Starts, TypeInv, MainInv, ExchangeInv
  <2>2. PICK lines : Only(wire, lines) /\ Only(tout, lines) /\ AllUnder(shown, lines)
    BY <2>1 DEF ShownInv, SelectHeard
  <2>3. Only(wire', lines)
    <3>1. CASE UNCHANGED wire
      BY <2>2, <3>1, Zenon
    <3>2. CASE ~UNCHANGED wire
      <4>1. PICK n \in 1 .. Len(wire) : Chunk(SubSeq(wire, 1, n), n)
        BY <1>5, <3>2 DEF Starts, TimeOut
      <4> QED BY <2>2, <4>1, ChunkOnly
    <3> QED BY <3>1, <3>2
  <2>4. SelectHeard'
    BY <1>1, <2>1, <2>2, <2>3, Zenon DEF SelectHeard
  <2> QED BY <1>1, <2>1, <2>4, Zenon DEF ShownInv
<1>6. CASE Readline \/ Walk \/ TakeLevel \/ TakeProgress
  <2>1. UNCHANGED <<wire, shown>>
    BY <1>6 DEF Readline, Walk, TakeLevel, TakeProgress
  <2> QED BY <1>3, <2>1
<1> QED BY <1>4, <1>5, <1>6

LEMMA TakesShown ==
  ASSUME TypeInv, TypeInv', Calm, ShownInv, TakeLine
  PROVE  ShownInv'
<1>1. /\ xpc = "select" /\ todo # <<>> /\ UNCHANGED <<shown, wire, tout>> /\ collected' = <<>>
      /\ xline' \in Names /\ sent' = Append(sent, xline')
      /\ xpc' \in {"echo", "prompt"} /\ (xpc' = "prompt" => xline' = "")
  BY DEF TakeLine, TypeInv, ExchangeInv
<1>2. Owned(shown') /\ wire' = <<>> /\ tout' = <<>>
  BY <1>1 DEF ShownInv, Calm, SelectCalm
<1>3. CASE xpc' = "echo"
  BY <1>2, <1>3 DEF ShownInv
<1>4. CASE xpc' = "prompt"
  <2>1. xline' = "" /\ Current' = ""
    BY <1>1, <1>4, LastSent
  <2>2. Voices(Current') = {}
    BY <2>1 DEF Voices
  <2>3. AllUnder(shown', {})
    BY DEF AllUnder
  <2>4. Only(<<>>, {})
    BY TokenVoices
  <2>5. PromptHeard'
    BY <1>1, <1>2, <2>1, <2>2, <2>3, <2>4, Zenon DEF PromptHeard
  <2> QED BY <1>2, <1>4, <2>5 DEF ShownInv
<1> QED BY <1>1, <1>3, <1>4

LEMMA EchoReadMade ==
  ASSUME TypeInv, Calm, xpc = "echo", NEW n \in 1 .. Len(wire), NEW data, Chunk(data, n)
  PROVE  collected \o data \in Seq(Tokens) /\ Only(collected \o data, {})
<1>1. PICK all, w : all = collected \o data /\ w = wire'
  OBVIOUS
<1>2. /\ all \in Seq(Tokens) /\ w \in Seq(Tokens) /\ (all \o w) \o tin = Echo(xline)
      /\ tin \in Seq(Tokens) /\ xline \in Names
  BY <1>1, EchoCalmRead, Zenon
<1>3. Made((all \o w) \o tin, Halves) /\ all \o w \in Seq(Tokens)
  BY <1>2, EchoMade, Joins, Zenon
<1>4. Made(all \o w, Halves)
  BY <1>2, <1>3, MadeParts
<1>5. Made(all, Halves)
  BY <1>2, <1>4, MadeParts
<1> QED BY <1>1, <1>2, <1>5, MadeOnly, Zenon

LEMMA EchoShown ==
  ASSUME TypeInv, Calm, ShownInv, ExpectEcho, UNCHANGED faults
  PROVE  ShownInv'
<1>1. /\ xpc = "echo" /\ UNCHANGED <<immediate, sent, tline, tout>>
      /\ xline \in Names /\ xline # "" /\ xline = Current /\ Current' = Current
      /\ shown \in Seq(Tokens) /\ Owned(shown)
  BY DEF ExpectEcho, TypeInv, ExchangeInv, WireInv, Current, ShownInv
<1>2. PICK n \in 1 .. Len(wire) : \E data \in {SubSeq(wire, 1, n)} :
             Chunk(data, n) /\ (EchoSeen(data) \/ EchoGoesOn(data))
  BY EchoComes
<1>3. PICK data : Chunk(data, n) /\ (EchoSeen(data) \/ EchoGoesOn(data))
  BY <1>2
<1>4. PICK all : all = collected \o data
  OBVIOUS
<1>5. all \in Seq(Tokens) /\ Only(all, {})
  BY <1>1, <1>3, <1>4, EchoReadMade, Zenon
<1>6. AllUnder(shown, {})
  BY DEF AllUnder
<1>7. CASE EchoGoesOn(data)
  <2>1. PICK a : a = SubSeq(all, 1, Flushed(all))
    OBVIOUS
  <2>2. Show(a) /\ xpc' = "echo"
    BY <1>1, <1>4, <1>7, <2>1 DEF EchoGoesOn
  <2>3. Only(a, {}) /\ a \in Seq(Tokens)
    BY <1>5, <2>1, FlushedType, OnlyCut, Cut
  <2>4. Owned(shown')
    BY <1>1, <1>6, <2>2, <2>3, ShowsMore
  <2> QED BY <2>2, <2>4 DEF ShownInv
<1>8. CASE EchoSeen(data)
  <2>1. PICK a, x : /\ a = SubSeq(all, 1, Len(all) - 2)
                    /\ x = IF immediate THEN Line(xline) ELSE <<>>
    OBVIOUS
  <2>2. /\ shown' = shown \o (a \o x) /\ IsSuffix(Echo(xline), all)
        /\ xline' = IF immediate THEN "" ELSE xline
    BY <1>4, <1>8, <2>1, Zenon DEF EchoSeen, Show
  <2>3. a \in Seq(Tokens) /\ Only(a, {})
    <3>1. Echo(xline) \in Seq(Tokens) /\ Len(Echo(xline)) = 2
      BY <1>1, EchoType
    <3>2. Len(all) - 2 \in 0 .. Len(all)
      BY <1>5, <2>2, <3>1, EndsInTwo
    <3> QED BY <1>5, <2>1, <3>2, OnlyCut, Cut
  <2>4. PICK s : s = shown \o a
    OBVIOUS
  <2>5. s \in Seq(Tokens) /\ Owned(s)
    BY <1>1, <1>6, <2>3, <2>4, OwnedMore, Joins
  <2>6. x \in Seq(Tokens)
    <3>1. Line(xline) \in Seq(Tokens)
      BY <1>1, LineType, Zenon
    <3>2. <<>> \in Seq(Tokens)
      OBVIOUS
    <3> QED BY <2>1, <3>1, <3>2, Zenon
  <2>7. shown' = s \o x
    BY <1>1, <2>2, <2>3, <2>4, <2>6, Regroup, Zenon DEF Grouped
  <2>8. Owned(shown') /\ (immediate => Under(shown', xline))
    <3>1. CASE immediate
      BY <1>1, <2>1, <2>5, <2>7, <3>1, LineShown, Zenon
    <3>2. CASE ~immediate
      <4>1. shown' = s
        BY <2>1, <2>5, <2>7, <3>2, ConcatEmptySeq
      <4> QED BY <2>5, <3>2, <4>1, Zenon
    <3> QED BY <3>1, <3>2
  <2>9. /\ wire' = <<>> /\ tout' = <<>> /\ collected' = <<>> /\ xpc' = "prompt"
    BY <1>1, <1>3, <1>8, EchoSeenCalm
  <2>10. Only(<<>>, Voices(Current))
    BY TokenVoices
  <2>11. xline' = "" => immediate
    BY <1>1, <2>2
  <2>12. immediate => AllUnder(shown', Voices(Current))
    BY <1>1, <2>8 DEF AllUnder, Voices
  <2>13. (xline' # "" => xline' = Current) /\ (immediate => xline' = "")
    BY <1>1, <2>2
  <2>14. PromptHeard'
    BY <1>1, <2>9, <2>10, <2>11, <2>12, <2>13, Zenon DEF PromptHeard
  <2> QED BY <2>8, <2>9, <2>14 DEF ShownInv
<1> QED BY <1>3, <1>7, <1>8

(* What is said of the line comes after it, also when it is shown now.      *)
LEMMA PrefixShown ==
  ASSUME TypeInv, Owned(shown), PromptHeard, NEW tokens \in Seq(Tokens),
         Only(tokens, Voices(Current)), Show(Line(xline) \o tokens)
  PROVE  Owned(shown') /\ AllUnder(shown', Voices(Current))
<1>1. PICK l, s : l = Line(xline) /\ s = shown \o l
  OBVIOUS
<1>2. /\ xline \in Names /\ shown \in Seq(Tokens) /\ l \in Seq(Tokens)
  BY <1>1, LineType DEF TypeInv, WireInv, ExchangeInv
<1>3. s \in Seq(Tokens) /\ Owned(s) /\ (xline # "" => Under(s, xline))
  BY <1>1, <1>2, LineShown, Zenon
<1>4. AllUnder(s, Voices(Current))
  <2>1. CASE xline = ""
    <3>1. l = <<>>
      BY <1>1, <1>2, <2>1, LineType
    <3>2. s = shown
      BY <1>1, <1>2, <3>1, ConcatEmptySeq
    <3> QED BY <2>1, <3>2 DEF PromptHeard
  <2>2. CASE xline # ""
    <3>1. xline = Current /\ Under(s, xline)
      BY <1>3, <2>2 DEF PromptHeard
    <3> QED BY <3>1 DEF AllUnder, Voices
  <2> QED BY <2>1, <2>2
<1>5. shown' = s \o tokens
  <2>1. shown' = shown \o (l \o tokens)
    BY <1>1, Zenon DEF Show
  <2> QED BY <1>1, <1>2, <2>1, Regroup, Zenon DEF Grouped
<1>6. Owned(s \o tokens)
  BY <1>3, <1>4, OwnedMore
<1>7. ASSUME NEW line \in Voices(Current) PROVE Under(s \o tokens, line)
  <2>1. Under(s, line)
    BY <1>4 DEF AllUnder
  <2> QED BY <1>3, <2>1, UnderMore
<1> QED BY <1>5, <1>6, <1>7, Zenon DEF AllUnder

LEMMA ProcessedShown ==
  ASSUME TypeInv, Owned(shown), PromptHeard, NEW matched \in BOOLEAN,
         NEW prefix \in Seq(Tokens), Only(prefix, Voices(Current)), Processed(matched, prefix),
         Only(wire', Voices(Current)), Only(tout', Voices(Current)),
         matched => wire' = <<>> /\ tout' = <<>>
  PROVE  Owned(shown') /\ SelectHeard' /\ xpc' = "select"
<1>1. PICK end : end = IF matched THEN Prompt ELSE <<>>
  OBVIOUS
<1>2. end \in Seq(Tokens) /\ Only(end, Voices(Current))
  <2>1. /\ Prompt \in Seq(Tokens) /\ Len(Prompt) = 2 /\ Prompt[1] = Ok /\ Prompt[2] = NL
    BY PromptType
  <2>2. Only(Prompt, Voices(Current)) /\ Only(<<>>, Voices(Current))
    <3>1. \A i \in 1 .. 2 : i = 1 \/ i = 2
      OBVIOUS
    <3> QED BY <2>1, <3>1, TokenVoices DEF Only
  <2>3. <<>> \in Seq(Tokens)
    OBVIOUS
  <2> QED BY <1>1, <2>1, <2>2, <2>3, Zenon
<1>3. xpc' = "select"
  BY DEF Processed
<1>4. CASE immediate \/ prefix # <<Space>> \/ ~matched
  <2>1. PICK l : l = Line(xline) /\ l \in Seq(Tokens)
    <3>1. Line(xline) \in Seq(Tokens)
      BY LineType DEF TypeInv, ExchangeInv
    <3> QED BY <3>1, Zenon
  <2>2. Show((l \o prefix) \o end)
    BY <1>1, <1>4, <2>1, Zenon DEF Processed
  <2>3. (l \o prefix) \o end = l \o (prefix \o end)
    BY <1>2, <2>1, Regroup, Zenon DEF Grouped
  <2>4. Show(Line(xline) \o (prefix \o end))
    BY <2>1, <2>2, <2>3, Zenon
  <2>5. prefix \o end \in Seq(Tokens) /\ Only(prefix \o end, Voices(Current))
    BY <1>2, OnlyJoin, Joins
  <2>6. Owned(shown') /\ AllUnder(shown', Voices(Current))
    BY <2>4, <2>5, PrefixShown
  <2> QED BY <1>3, <2>6, Zenon DEF SelectHeard
<1>5. CASE ~(immediate \/ prefix # <<Space>> \/ ~matched)
  <2>1. UNCHANGED shown /\ wire' = <<>> /\ tout' = <<>>
    BY <1>5, Zenon DEF Processed
  <2>2. Only(<<>>, {}) /\ AllUnder(shown', {})
    BY TokenVoices DEF AllUnder
  <2>3. SelectHeard'
    BY <2>1, <2>2, Zenon DEF SelectHeard
  <2> QED BY <1>3, <2>1, <2>3, Zenon
<1> QED BY <1>4, <1>5

LEMMA PromptShown ==
  ASSUME TypeInv, Calm, ShownInv, ExpectPrompt, UNCHANGED faults
  PROVE  ShownInv'
<1>1. /\ xpc = "prompt" /\ UNCHANGED <<immediate, sent, tin, tout>> /\ Current' = Current
      /\ collected \in Seq(Tokens) /\ PromptHeard /\ Owned(shown) /\ PromptPhase
  BY DEF ExpectPrompt, TypeInv, ExchangeInv, Current, ShownInv, Calm, PromptCalm, targetVars
<1>2. PICK v : v = Voices(Current)
  OBVIOUS
<1>3. Only(collected, v) /\ Only(wire, v) /\ Only(tout', v) /\ Only(tout, v)
  BY <1>1, <1>2, Zenon DEF PromptHeard
<1>4. ASSUME Owned(shown') /\ SelectHeard' /\ xpc' = "select" PROVE ShownInv'
  BY <1>4 DEF ShownInv
<1>5. CASE TimeOut /\ NoPrompt(<<>>)
  <2>1. Processed(FALSE, collected)
    <3>1. collected \o <<>> = collected
      BY <1>1, ConcatEmptySeq
    <3> QED BY <1>5, <3>1, Zenon DEF NoPrompt
  <2>2. Only(wire', v)
    BY <1>3, <1>5, Zenon DEF TimeOut
  <2> QED BY <1>1, <1>2, <1>3, <1>4, <2>1, <2>2, ProcessedShown
<1>6. ASSUME NEW n \in 1 .. Len(wire), NEW data, Chunk(data, n),
             PromptSeen(data) \/ PromptGoesOn(data) \/ NoPrompt(data)
      PROVE  ShownInv'
  <2>1. Only(data, v) /\ Only(wire', v) /\ data \in Seq(Tokens)
    BY <1>3, <1>6, ChunkOnly
  <2>2. PICK all : all = collected \o data
    OBVIOUS
  <2>3. all \in Seq(Tokens) /\ Only(all, v)
    BY <1>1, <1>3, <2>1, <2>2, OnlyJoin, Joins
  <2>4. CASE NoPrompt(data)
    <3>1. Processed(FALSE, all)
      BY <2>2, <2>4 DEF NoPrompt
    <3> QED BY <1>1, <1>2, <1>3, <1>4, <2>1, <2>3, <3>1, ProcessedShown
  <2>5. CASE PromptSeen(data)
    <3>1. tout' = <<>> /\ wire' = <<>>
      BY <1>1, <1>6, <2>5, PromptLast
    <3>2. PICK a : a = SubSeq(all, 1, Len(all) - 2)
      OBVIOUS
    <3>3. Processed(TRUE, a) /\ IsSuffix(Prompt, all)
      BY <2>2, <2>5, <3>2 DEF PromptSeen
    <3>4. a \in Seq(Tokens) /\ Only(a, v)
      <4>1. Len(all) - 2 \in 0 .. Len(all)
        BY <2>3, <3>3, PromptType, EndsInTwo
      <4> QED BY <2>3, <3>2, <4>1, OnlyCut, Cut
    <3> QED BY <1>1, <1>2, <1>3, <1>4, <2>1, <3>1, <3>3, <3>4, ProcessedShown
  <2>6. CASE PromptGoesOn(data)
    <3>1. PICK f : f = Flushed(all) /\ f \in 0 .. Len(all)
      BY <2>3, FlushedType
    <3>2. PICK a, b : a = SubSeq(all, 1, f) /\ b = SubSeq(all, f + 1, Len(all))
      OBVIOUS
    <3>3. a \in Seq(Tokens) /\ b \in Seq(Tokens) /\ Only(a, v) /\ Only(b, v)
      BY <2>3, <3>1, <3>2, OnlyCut, Cut
    <3>4. /\ collected' = b /\ xpc' = xpc /\ ~immediate
          /\ IF f > 0 THEN Show(Line(xline) \o a) /\ xline' = "" ELSE UNCHANGED <<shown, xline>>
      BY <2>2, <2>6, <3>1, <3>2 DEF PromptGoesOn
    <3>5. /\ Owned(shown')
          /\ (xline' # "" => xline' = Current) /\ (xline' = "" => AllUnder(shown', v))
      <4>1. CASE f > 0
        BY <1>1, <1>2, <3>3, <3>4, <4>1, PrefixShown
      <4>2. CASE ~(f > 0)
        BY <1>1, <1>2, <3>4, <4>2, Zenon DEF PromptHeard
      <4> QED BY <4>1, <4>2
    <3>6. PromptHeard'
      BY <1>1, <1>2, <1>3, <2>1, <3>3, <3>4, <3>5, Zenon DEF PromptHeard
    <3> QED BY <1>1, <3>4, <3>5, <3>6 DEF ShownInv
  <2> QED BY <1>6, <2>4, <2>5, <2>6
<1>7. CASE ~(TimeOut /\ NoPrompt(<<>>))
  <2>1. PICK n \in 1 .. Len(wire) : \E data \in {SubSeq(wire, 1, n)} :
             /\ Chunk(data, n)
             /\ PromptSeen(data) \/ PromptGoesOn(data) \/ (immediate /\ NoPrompt(data))
    BY <1>7 DEF ExpectPrompt
  <2> QED BY <1>6, <2>1
<1> QED BY <1>5, <1>7

LEMMA NextShown ==
  ASSUME Expandable, Understood, TypeInv, TypeInv', Calm, Ordered, ShownInv, [Next]_vars,
         InStep'
  PROVE  ShownInv'
<1>1. UNCHANGED faults /\ ~Unplug
  BY InStepBack
<1>2. ~Reconnect
  BY DEF Calm, Reconnect
<1>3. CASE TargetReads \/ TargetSends
  BY <1>3, ReadsShown, SendsShown
<1>4. CASE PassOn \/ Starts \/ Readline \/ Walk \/ TakeLevel \/ TakeProgress
  BY <1>4, MainShown
<1>5. CASE TakeLine
  BY <1>5, TakesShown
<1>6. CASE ExpectEcho \/ ExpectPrompt
  BY <1>1, <1>6, EchoShown, PromptShown
<1>7. CASE UNCHANGED vars
  <2>1. UNCHANGED <<xpc, xline, immediate, sent, collected, tout, wire, shown>>
    BY <1>7 DEF vars, exchangeVars, targetVars
  <2>2. Current' = Current
    BY <2>1 DEF Current
  <2>3. PromptHeard' = PromptHeard /\ SelectHeard' = SelectHeard
    BY <2>1, <2>2, Zenon DEF PromptHeard, SelectHeard
  <2> QED BY <2>1, <2>3, Zenon DEF ShownInv
<1> QED BY <1>1, <1>2, <1>3, <1>4, <1>5, <1>6, <1>7 DEF Next, Target, Exchange

ShowInv == OrderInv /\ (InStep => ShownInv)

LEMMA InitShown ==
  ASSUME Expandable, Init
  PROVE  ShowInv
<1>1. OrderInv
  BY InitOrder
<1>2. xpc = "select" /\ shown = <<>> /\ wire = <<>> /\ tout = <<Said("boot")>>
  BY Zenon DEF Init
<1>3. Owned(shown) /\ Only(wire, {}) /\ AllUnder(shown, {})
  BY <1>2 DEF Owned, Only, AllUnder
<1>4. Only(tout, {})
  <2>1. ~IsLine(Said("boot")) /\ ~Speaks(Said("boot"))
    BY TokenVoices DEF Speaks
  <2>2. Len(tout) = 1 /\ tout[1] = Said("boot")
    BY <1>2
  <2> QED BY <2>1, <2>2 DEF Only
<1>5. SelectHeard
  BY <1>3, <1>4 DEF SelectHeard
<1>6. ShownInv
  BY <1>2, <1>3, <1>5 DEF ShownInv
<1> QED BY <1>1, <1>6 DEF ShowInv

LEMMA StepShown ==
  ASSUME Expandable, Understood, ShowInv, [Next]_vars
  PROVE  ShowInv'
<1>1. OrderInv /\ OrderInv'
  BY StepOrder DEF ShowInv
<1>2. ASSUME InStep' PROVE ShownInv'
  <2>1. TypeInv /\ TypeInv' /\ Calm /\ Ordered /\ ShownInv
    BY <1>1, <1>2, InStepBack DEF OrderInv, ShowInv
  <2> QED BY <1>2, <2>1, NextShown
<1> QED BY <1>1, <1>2 DEF ShowInv

LEMMA ShownWithInput ==
  ASSUME ShowInv
  PROVE  InputShown
<1> SUFFICES ASSUME InStep, NEW i \in DOMAIN shown, IsSaid(shown[i]), shown[i] # Said("boot")
             PROVE  \E j \in 1 .. i - 1 :
                      /\ shown[j] = Input(shown[i][2])
                      /\ \A k \in j + 1 .. i - 1 : shown[k][1] # "line"
  BY DEF InputShown
<1>1. Owned(shown) /\ shown \in Seq(Tokens)
  BY DEF ShowInv, OrderInv, TypeInv, WireInv, ShownInv
<1>2. i \in 1 .. Len(shown)
  BY <1>1
<1>3. Speaks(shown[i])
  BY DEF Speaks
<1> QED BY <1>1, <1>2, <1>3 DEF Owned, IsLine

(* What the target says of a line is shown after the line itself, and no    *)
(* other line is shown in between: of a line that was included and says     *)
(* more than " ok.", serialExchange prints the input before the output.     *)
(* Besides the hypothesis on files it is assumed that the target knows the  *)
(* lines: to others it answers with an error that names none.               *)
THEOREM ShowsInput == Expandable /\ Understood => (Spec => []InputShown)
<1> SUFFICES ASSUME Expandable, Understood PROVE Spec => []InputShown
  OBVIOUS
<1>1. Init => ShowInv
  BY InitShown
<1>2. ShowInv /\ [Next]_vars => ShowInv'
  BY StepShown
<1>3. ShowInv => InputShown
  BY ShownWithInput
<1> QED BY <1>1, <1>2, <1>3, PTL DEF Spec
=============================================================================
