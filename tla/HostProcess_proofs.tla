--------------------------- MODULE HostProcess_proofs ---------------------------
(***************************************************************************)
(* Theorems about HostProcess: whatever the words of a line and however    *)
(* many runs there are, the result file and the exit code agree and a      *)
(* result file is whole.                                                   *)
(***************************************************************************)
EXTENDS HostProcess, SequenceTheorems, WellFoundedInduction, TLAPS
-----------------------------------------------------------------------------
(* The command line.                                                       *)

\* A set of numbers that is not empty has a least one.
LEMMA LeastNumber ==
    ASSUME NEW T \in SUBSET Nat, T # {}
    PROVE  \E x \in T : \A y \in T : x <= y
<1> DEFINE R == {ss \in Nat \X Nat : ss[1] < ss[2]}
<1>1. IsWellFoundedOn(R, Nat)
  BY NatLessThanWellFounded DEF OpToRel
<1> HIDE DEF R
<1>2. PICK x \in T : \A y \in T : ~ (<<y, x>> \in R)
  BY <1>1, WFMin
<1>3. \A y \in T : ~ (y < x)
  BY <1>2 DEF R
<1> QED BY <1>2, <1>3

\* Induction, said of a set.
LEMMA NumbersUpTo ==
    ASSUME NEW n \in Nat, NEW T, 0 \in T, \A k \in 0..(n - 1) : k \in T => k + 1 \in T
    PROVE  0..n \subseteq T
<1> SUFFICES ASSUME ~ (0..n \subseteq T) PROVE FALSE
  OBVIOUS
<1> DEFINE Left == {k \in Nat : k <= n /\ k \notin T}
<1>1. Left \in SUBSET Nat /\ Left # {}
  OBVIOUS
<1>2. PICK x \in Left : \A y \in Left : x <= y
  BY <1>1, LeastNumber
<1>3. x # 0 /\ x - 1 \in 0..(n - 1) /\ (x - 1) + 1 = x
  BY <1>2
<1>4. x - 1 \in T
  BY <1>2, <1>3
<1> QED BY <1>2, <1>3, <1>4

\* The first element of a set of numbers that is not empty.
LEMMA MinIsLeast ==
    ASSUME NEW T \in SUBSET Nat, T # {}
    PROVE  Min(T) \in T /\ \A y \in T : Min(T) <= y
BY LeastNumber DEF Min

\* Every option either host knows.
Names == UNION {ToSet(CommonOptions) \cup ToSet(OwnOptions(host)) : host \in Hosts}

\* What a line is while it is read.
Reading == [consumed : SUBSET Nat, given : SUBSET (Names \X (Words \cup {TRUE})), ok : BOOLEAN]

\* The places of an option, the first of them, and what is consumed for it.
Places(args, option) == {i \in DOMAIN args : args[i] = option}

First(args, option) == Min(Places(args, option))

Fits(args, option) ==
    option \in Flags \/ /\ First(args, option) # Len(args)
                        /\ args[First(args, option) + 1] \notin Dashed
                        /\ Takes(option, args[First(args, option) + 1])

Eaten(args, option) ==
    IF Places(args, option) = {} THEN {}
    ELSE IF option \in Flags THEN {First(args, option)}
    ELSE {First(args, option), First(args, option) + 1}

\* What a line is once the options in O, and no other, have been looked for.
HasRead(args, O, read) ==
    /\ read.ok <=> \A o \in O : Places(args, o) # {} => Fits(args, o)
    /\ read.ok =>
          /\ read.consumed = UNION {Eaten(args, o) : o \in O}
          /\ \A entry \in read.given : entry[1] \in O /\ Places(args, entry[1]) # {}
          /\ \A o \in O : Places(args, o) # {} => \E entry \in read.given : entry[1] = o

LEMMA NamesAreNotPlain == \A o \in Names : o \notin Plain
BY OptionsAssumption DEF Names

LEMMA FirstIsPlace ==
    ASSUME NEW args \in Seq(Words), NEW o, Places(args, o) # {}
    PROVE  /\ First(args, o) \in 1..Len(args)
           /\ args[First(args, o)] = o
           /\ \A i \in Places(args, o) : First(args, o) <= i
<1>1. DOMAIN args = 1..Len(args) /\ Len(args) \in Nat
  OBVIOUS
<1>2. Places(args, o) \in SUBSET Nat
  BY <1>1 DEF Places
<1>3. First(args, o) \in Places(args, o) /\ \A i \in Places(args, o) : First(args, o) <= i
  BY <1>2, MinIsLeast DEF First
<1> QED BY <1>1, <1>3 DEF Places

\* What one option consumes is no place of another.
LEMMA EatenApart ==
    ASSUME NEW args \in Seq(Words), NEW p \in Names, NEW o \in Names, p # o,
           Places(args, p) # {} => Fits(args, p)
    PROVE  Eaten(args, p) \cap Places(args, o) = {}
<1> SUFFICES ASSUME Places(args, p) # {}, NEW i \in Eaten(args, p), i \in Places(args, o)
             PROVE  FALSE
  BY DEF Eaten
<1>1. args[First(args, p)] = p /\ args[i] = o
  BY FirstIsPlace DEF Places
<1>2. p \notin Flags /\ i = First(args, p) + 1
  BY <1>1 DEF Eaten
<1>3. args[i] \notin Dashed
  BY <1>2 DEF Fits
<1>4. args[i] \in Words
  BY DEF Places
<1> QED BY <1>1, <1>3, <1>4, NamesAreNotPlain DEF Words

\* One more option is looked for.
LEMMA LookReads ==
    ASSUME NEW args \in Seq(Words), NEW O \in SUBSET Names, NEW o \in Names, o \notin O,
           NEW read \in Reading, HasRead(args, O, read)
    PROVE  /\ Look(args, read, o) \in Reading
           /\ HasRead(args, O \cup {o}, Look(args, read, o))
<1> DEFINE next == Look(args, read, o)
           P == O \cup {o}
           places == Places(args, o)
           i == First(args, o)
<1>1. CASE ~ read.ok
  <2>1. next = read
    BY <1>1 DEF Look
  <2>2. \E p \in P : Places(args, p) # {} /\ ~ Fits(args, p)
    BY <1>1 DEF HasRead
  <2> QED BY <1>1, <2>1, <2>2 DEF HasRead
<1>2. CASE read.ok
  <2>1. Standing(args, read, o) = places
    <3>1. read.consumed \cap places = {}
      <4>1. \A p \in O : Eaten(args, p) \cap places = {}
        BY <1>2, EatenApart DEF HasRead
      <4> QED BY <1>2, <4>1 DEF HasRead
    <3> QED BY <3>1 DEF Standing, Places
  <2>a. UNION {Eaten(args, p) : p \in P}
         = (UNION {Eaten(args, p) : p \in O}) \cup Eaten(args, o)
    OBVIOUS
  <2>b. \A p \in O : Places(args, p) # {} => Fits(args, p)
    BY <1>2 DEF HasRead
  <2>2. CASE places = {}
    <3>1. next = read
      BY <1>2, <2>1, <2>2 DEF Look, ConsumeFlag, ConsumeValue
    <3>2. Eaten(args, o) = {}
      BY <2>2 DEF Eaten
    <3> QED BY <1>2, <2>2, <2>a, <3>1, <3>2 DEF HasRead
  <2>3. CASE places # {} /\ ~ Fits(args, o)
    <3>1. next = Refused
      BY <1>2, <2>1, <2>3 DEF Look, ConsumeValue, Fits, First
    <3>2. Refused \in Reading /\ ~ Refused.ok
      BY DEF Refused, Reading
    <3> QED BY <2>3, <3>1, <3>2 DEF HasRead
  <2>4. CASE places # {} /\ Fits(args, o)
    <3>1. i \in 1..Len(args) /\ args[i] = o
      BY <2>4, FirstIsPlace
    <3>2. \E value \in Words \cup {TRUE} :
             next = [read EXCEPT !.consumed = @ \cup Eaten(args, o),
                                 !.given = @ \cup {<<o, value>>}]
      <4>1. CASE o \in Flags
        <5>1. i..i = {i} /\ Eaten(args, o) = {i}
          BY <2>4, <3>1, <4>1 DEF Eaten
        <5>2. next = Consumed(read, i, i, o, TRUE)
          BY <1>2, <2>1, <2>4, <4>1 DEF Look, ConsumeFlag, First
        <5> QED BY <5>1, <5>2 DEF Consumed
      <4>2. CASE o \notin Flags
        <5>1. i..(i + 1) = {i, i + 1} /\ Eaten(args, o) = {i, i + 1}
          BY <2>4, <3>1, <4>2 DEF Eaten
        <5>2. i # Len(args) /\ args[i + 1] \notin Dashed /\ Takes(o, args[i + 1])
          BY <2>4, <4>2 DEF Fits
        <5>3. next = Consumed(read, i, i + 1, o, args[i + 1])
          BY <1>2, <2>1, <2>4, <4>2, <5>2 DEF Look, ConsumeValue, First
        <5>4. args[i + 1] \in Words
          BY <3>1, <5>2
        <5> QED BY <5>1, <5>3, <5>4 DEF Consumed
      <4> QED BY <4>1, <4>2
    <3>3. PICK value \in Words \cup {TRUE} :
             next = [read EXCEPT !.consumed = @ \cup Eaten(args, o),
                                 !.given = @ \cup {<<o, value>>}]
      BY <3>2
    <3> HIDE DEF next
    <3>4. /\ next.ok
          /\ next.consumed = read.consumed \cup Eaten(args, o)
          /\ next.given = read.given \cup {<<o, value>>}
      BY <1>2, <3>3 DEF Reading
    <3>5. next \in Reading
      <4>1. Eaten(args, o) \subseteq Nat
        BY <2>4, <3>1 DEF Eaten
      <4>2. read.consumed \cup Eaten(args, o) \in SUBSET Nat
        BY <4>1 DEF Reading
      <4>5. read.given \cup {<<o, value>>} \in SUBSET (Names \X (Words \cup {TRUE}))
        <5>1. <<o, value>> \in Names \X (Words \cup {TRUE})
          OBVIOUS
        <5>2. read.given \in SUBSET (Names \X (Words \cup {TRUE}))
          BY DEF Reading
        <5> QED BY ONLY <5>1, <5>2
      <4>3. next = [consumed |-> read.consumed \cup Eaten(args, o),
                    given |-> read.given \cup {<<o, value>>}, ok |-> read.ok]
        BY <3>3 DEF Reading
      <4>4. read.ok \in BOOLEAN
        BY DEF Reading
      <4> QED BY <4>2, <4>3, <4>4, <4>5 DEF Reading
    <3>6. HasRead(args, P, next)
      <4>1. \A p \in P : Places(args, p) # {} => Fits(args, p)
        BY <2>4, <2>b
      <4>2. next.consumed = UNION {Eaten(args, p) : p \in P}
        BY <1>2, <2>a, <3>4 DEF HasRead
      <4>3. \A entry \in next.given : entry[1] \in P /\ Places(args, entry[1]) # {}
        BY <1>2, <2>4, <3>4 DEF HasRead
      <4>4. \A p \in P : Places(args, p) # {} => \E entry \in next.given : entry[1] = p
        <5>1. <<o, value>> \in next.given /\ <<o, value>>[1] = o
          BY <3>4
        <5> QED BY <1>2, <3>4, <5>1 DEF HasRead
      <4> QED BY <3>4, <4>1, <4>2, <4>3, <4>4 DEF HasRead
    <3> QED BY <3>5, <3>6 DEF next
  <2> QED BY <2>2, <2>3, <2>4
<1> QED BY <1>1, <1>2 DEF Reading

\* The lines f holds as the first n options of a list are looked for.
LooksUpTo(args, line0, options, f, n) ==
    /\ f[0] = line0
    /\ \A k \in 1..n : f[k] = Look(args, f[k - 1], options[k])

\* The loop over a list of options, without its recursion.
LEMMA ParseOptionsIsLoop ==
    ASSUME NEW args, NEW line0, NEW S, NEW options \in Seq(S)
    PROVE  \E f : /\ LooksUpTo(args, line0, options, f, Len(options))
                  /\ ParseOptions(args, line0, options) = f[Len(options)]
<1> DEFINE N == Len(options)
           Body(f) == [n \in 0..N |-> IF n = 0 THEN line0
                                      ELSE Look(args, f[n - 1], options[n])]
           T == {n \in 0..N : \E f : LooksUpTo(args, line0, options, f, n)}
<1>0. N \in Nat
  OBVIOUS
<1>1. 0 \in T
  <2>1. LooksUpTo(args, line0, options, [i \in 0..0 |-> line0], 0)
    BY DEF LooksUpTo
  <2> QED BY <1>0, <2>1
<1>2. ASSUME NEW n \in 0..(N - 1), n \in T PROVE n + 1 \in T
  <2>1. PICK f : LooksUpTo(args, line0, options, f, n)
    BY <1>2
  <2> DEFINE g == [i \in 0..(n + 1) |-> IF i = n + 1 THEN Look(args, f[n], options[i])
                                        ELSE f[i]]
  <2>2. g[0] = line0
    BY <2>1 DEF LooksUpTo
  <2>3. ASSUME NEW i \in 1..(n + 1) PROVE g[i] = Look(args, g[i - 1], options[i])
    <3>1. g[i - 1] = f[i - 1]
      OBVIOUS
    <3>2. CASE i = n + 1
      BY <3>1, <3>2
    <3>3. CASE i # n + 1
      <4>1. i \in 1..n /\ g[i] = f[i]
        BY <3>3
      <4> QED BY <2>1, <3>1, <4>1 DEF LooksUpTo
    <3> QED BY <3>2, <3>3
  <2> HIDE DEF g
  <2>4. LooksUpTo(args, line0, options, g, n + 1)
    BY <2>2, <2>3 DEF LooksUpTo
  <2> QED BY <1>0, <2>4
<1>3. PICK f : LooksUpTo(args, line0, options, f, N)
  <2> HIDE DEF T
  <2>1. 0..N \subseteq T
    BY <1>0, <1>1, <1>2, NumbersUpTo
  <2>2. N \in T
    BY <1>0, <2>1
  <2> QED BY <2>2 DEF T
<1> DEFINE h == [n \in 0..N |-> f[n]]
<1>4. h = Body(h)
  <2>1. \A n \in 0..N : h[n] = Body(h)[n]
    <3> SUFFICES ASSUME NEW n \in 0..N PROVE h[n] = Body(h)[n]
      OBVIOUS
    <3>1. CASE n = 0
      BY <1>3, <3>1 DEF LooksUpTo
    <3>2. CASE n # 0
      <4>1. n \in 1..N /\ n - 1 \in 0..N
        BY <3>2
      <4>2. f[n] = Look(args, f[n - 1], options[n])
        BY <1>3, <4>1 DEF LooksUpTo
      <4> QED BY <4>1, <4>2
    <3> QED BY <3>1, <3>2
  <2> QED BY <2>1
<1> DEFINE k == CHOOSE q : q = Body(q)
<1>5. k = Body(k)
  <2> HIDE DEF h, Body
  <2> QED BY <1>4
<1>6. ParseOptions(args, line0, options) = k[N]
  BY DEF ParseOptions
<1> HIDE DEF k
<1>7. LooksUpTo(args, line0, options, k, N)
  <2>1. k[0] = line0
    BY <1>0, <1>5
  <2>2. ASSUME NEW i \in 1..N PROVE k[i] = Look(args, k[i - 1], options[i])
    <3>1. i \in 0..N /\ i # 0
      BY <1>0
    <3>2. Body(k)[i] = Look(args, k[i - 1], options[i])
      BY <3>1
    <3> QED BY <1>5, <3>2
  <2> QED BY <2>1, <2>2 DEF LooksUpTo
<1> QED BY <1>6, <1>7

\* A list of options that names none twice is looked for.
LEMMA ParseOptionsReads ==
    ASSUME NEW args \in Seq(Words), NEW O \in SUBSET Names,
           NEW options \in Seq(Names), NEW line0 \in Reading, HasRead(args, O, line0),
           \A i, j \in 1..Len(options) : options[i] = options[j] => i = j,
           \A i \in 1..Len(options) : options[i] \notin O
    PROVE  LET read == ParseOptions(args, line0, options)
           IN  read \in Reading /\ HasRead(args, O \cup ToSet(options), read)
<1> DEFINE N == Len(options)
           Upto(n) == O \cup {options[i] : i \in 1..n}
<1>0. N \in Nat /\ \A i \in 1..N : options[i] \in Names
  OBVIOUS
<1>1. PICK f : /\ LooksUpTo(args, line0, options, f, N)
               /\ ParseOptions(args, line0, options) = f[N]
  BY ParseOptionsIsLoop
<1> DEFINE T == {n \in 0..N : f[n] \in Reading /\ HasRead(args, Upto(n), f[n])}
<1>2. 0 \in T
  <2>1. Upto(0) = O
    OBVIOUS
  <2>2. f[0] = line0
    BY <1>1 DEF LooksUpTo
  <2> HIDE DEF Upto
  <2>3. f[0] \in Reading /\ HasRead(args, Upto(0), f[0])
    BY <2>1, <2>2
  <2> QED BY <1>0, <2>3
<1>3. ASSUME NEW n \in 0..(N - 1), n \in T PROVE n + 1 \in T
  <2>1. n + 1 \in 1..N /\ (n + 1) - 1 = n
    BY <1>0
  <2>2. f[n + 1] = Look(args, f[n], options[n + 1])
    BY <1>1, <2>1 DEF LooksUpTo
  <2>3. Upto(n) \in SUBSET Names /\ options[n + 1] \in Names
    BY <1>0, <2>1
  <2>4. options[n + 1] \notin Upto(n)
    <3>1. \A i \in 1..n : i \in 1..N /\ i # n + 1
      BY <2>1
    <3> QED BY <2>1, <3>1
  <2>5. Upto(n + 1) = Upto(n) \cup {options[n + 1]}
    <3>1. 1..(n + 1) = 1..n \cup {n + 1}
      BY <2>1
    <3> QED BY <3>1
  <2>6. f[n] \in Reading /\ HasRead(args, Upto(n), f[n])
    BY <1>3
  <2> HIDE DEF Upto, N, T
  <2>7. /\ Look(args, f[n], options[n + 1]) \in Reading
        /\ HasRead(args, Upto(n) \cup {options[n + 1]}, Look(args, f[n], options[n + 1]))
    BY <2>3, <2>4, <2>6, LookReads
  <2>8. f[n + 1] \in Reading /\ HasRead(args, Upto(n + 1), f[n + 1])
    BY <2>2, <2>5, <2>7
  <2>9. n + 1 \in 0..N
    BY <2>1
  <2> QED BY <2>8, <2>9 DEF T
<1>4. N \in T
  <2> HIDE DEF T
  <2>1. 0..N \subseteq T
    BY <1>0, <1>2, <1>3, NumbersUpTo
  <2> QED BY <1>0, <2>1
<1>5. Upto(N) = O \cup ToSet(options)
  BY <1>0 DEF ToSet
<1> QED BY <1>1, <1>4, <1>5

\* No list names an option twice, and no option is in both lists.
LEMMA ListsAreApart ==
    ASSUME NEW host \in Hosts
    PROVE  /\ CommonOptions \in Seq(Names) /\ OwnOptions(host) \in Seq(Names)
           /\ \A i, j \in 1..Len(CommonOptions) :
                 CommonOptions[i] = CommonOptions[j] => i = j
           /\ \A i, j \in 1..Len(OwnOptions(host)) :
                 OwnOptions(host)[i] = OwnOptions(host)[j] => i = j
           /\ ToSet(OwnOptions(host)) \cap ToSet(CommonOptions) = {}
           /\ Supported(host) \subseteq ToSet(CommonOptions)
<1> DEFINE common == CommonOptions
           own == OwnOptions(host)
<1> DEFINE CommonNames == {"--frames", "--ticks", "--scene", "--result-file",
                           "--input-script", "--command-script", "--log-file", "--seed",
                           "--offline", "--headless", "--hidden-window"}
           OwnNames == {"--control-profile", "--net-server", "--net-client-id",
                        "--orbit-camera", "--static-camera"}
<1>1. common \in Seq(CommonNames) /\ own \in Seq(OwnNames)
  <2>1. common \in Seq(CommonNames)
    <3>1. common = <<"--frames", "--ticks", "--scene", "--result-file", "--input-script",
                     "--command-script", "--log-file", "--seed",
                     "--offline", "--headless", "--hidden-window">>
      BY DEF CommonOptions
    <3> HIDE DEF common
    <3> QED BY <3>1
  <2>2. CASE host = "scene_probe"
    <3>1. own = <<>>
      BY <2>2 DEF OwnOptions
    <3> QED BY <2>1, <3>1
  <2>3. CASE host # "scene_probe"
    <3>1. own = <<"--control-profile", "--net-server", "--net-client-id",
                  "--orbit-camera", "--static-camera">>
      BY <2>3 DEF OwnOptions
    <3> HIDE DEF own
    <3>2. own \in Seq(OwnNames)
      BY <3>1
    <3> QED BY <2>1, <3>2
  <2> QED BY <2>2, <2>3
<1>2. ToSet(common) = CommonNames
  BY DEF CommonOptions, ToSet
<1>3. ToSet(own) \subseteq OwnNames
  BY DEF OwnOptions, ToSet
<1>4. \A i, j \in 1..Len(common) : common[i] = common[j] => i = j
  BY DEF CommonOptions
<1>5. \A i, j \in 1..Len(own) : own[i] = own[j] => i = j
  BY DEF OwnOptions
<1>6. ToSet(own) \cap ToSet(common) = {} /\ Supported(host) \subseteq ToSet(common)
  BY <1>2, <1>3 DEF Supported
<1>7. ToSet(common) \subseteq Names /\ ToSet(own) \subseteq Names
  BY DEF Names
<1>8. common \in Seq(Names) /\ own \in Seq(Names)
  <2>1. ASSUME NEW S, NEW s \in Seq(S), ToSet(s) \subseteq Names PROVE s \in Seq(Names)
    <3>1. \A i \in 1..Len(s) : s[i] \in Names
      BY <2>1 DEF ToSet
    <3> QED BY <3>1, SeqDef
  <2> QED BY <1>1, <1>7, <2>1
<1> QED BY <1>4, <1>5, <1>6, <1>8

\* Nothing is read at the start.
LEMMA NothingRead ==
    ASSUME NEW args PROVE Unread \in Reading /\ HasRead(args, {}, Unread)
BY DEF Unread, Reading, HasRead

\* What all the options of a host consume together are the words of the line, and each
\* that is there fits and is supported.
Exact(host, args) ==
    LET all == ToSet(CommonOptions) \cup ToSet(OwnOptions(host))
    IN  /\ \A o \in all : Places(args, o) # {} => Fits(args, o)
        /\ \A o \in ToSet(CommonOptions) : Places(args, o) # {} => o \in Supported(host)
        /\ UNION {Eaten(args, o) : o \in all} = DOMAIN args

\* The lists of options, one after the other, read that.
LEMMA ParsesExactly ==
    ASSUME NEW host \in Hosts, NEW args \in Seq(Words)
    PROVE  /\ ParseCommonOptions(args) \in Reading
           /\ ParseLine(host, args).ok \in BOOLEAN
           /\ ParseLine(host, args).ok <=> Exact(host, args)
<1> DEFINE O == ToSet(CommonOptions)
           all == O \cup ToSet(OwnOptions(host))
           common == ParseCommonOptions(args)
           line2 == ParseOptions(args, common, OwnOptions(host))
<1>1. common \in Reading /\ HasRead(args, O, common)
  <2>1. {} \cup ToSet(CommonOptions) = O
    OBVIOUS
  <2>2. {} \in SUBSET Names /\ \A i \in 1..Len(CommonOptions) : CommonOptions[i] \notin {}
    OBVIOUS
  <2>3. LET read == ParseOptions(args, Unread, CommonOptions)
        IN  read \in Reading /\ HasRead(args, {} \cup ToSet(CommonOptions), read)
    BY <2>2, ListsAreApart, NothingRead, ParseOptionsReads
  <2> QED BY <2>1, <2>3 DEF ParseCommonOptions
<1>2. line2 \in Reading /\ HasRead(args, all, line2)
  <2>1. O \in SUBSET Names
    BY DEF Names
  <2>2. \A i \in 1..Len(OwnOptions(host)) : OwnOptions(host)[i] \notin O
    <3>1. ASSUME NEW i \in 1..Len(OwnOptions(host))
          PROVE  OwnOptions(host)[i] \in ToSet(OwnOptions(host))
      BY ListsAreApart DEF ToSet
    <3> QED BY <3>1, ListsAreApart
  <2>3. LET read == ParseOptions(args, common, OwnOptions(host))
        IN  read \in Reading /\ HasRead(args, O \cup ToSet(OwnOptions(host)), read)
    <3> HIDE DEF common, O
    <3> QED BY <1>1, <2>1, <2>2, ListsAreApart, ParseOptionsReads
  <2> QED BY <2>3
<1> DEFINE Passes == \A entry \in common.given : entry[1] \in Supported(host)
<1>3. ParseLine(host, args) = IF common.ok /\ Passes /\ line2.ok /\ line2.consumed = DOMAIN args
                              THEN line2 ELSE Refused
  <2>1. CASE ~ Passes
    <3>1. RejectUnsupported(host, common) = Refused /\ ~ Refused.ok
      BY <2>1 DEF RejectUnsupported, Refused
    <3> HIDE DEF common, line2, Passes
    <3> QED BY <2>1, <3>1 DEF ParseLine, common
  <2>2. CASE Passes
    <3>1. RejectUnsupported(host, common) = common
      BY <2>2 DEF RejectUnsupported
    <3>2. ParseLine(host, args) =
             IF ~ common.ok THEN Refused
             ELSE IF line2.ok THEN RejectUnknown(args, line2) ELSE Refused
      <4> HIDE DEF Passes
      <4> QED BY <3>1 DEF ParseLine, common
    <3> HIDE DEF common, line2
    <3> QED BY <2>2, <3>2 DEF RejectUnknown
  <2> QED BY <2>1, <2>2
<1> HIDE DEF common, line2
<1>4. /\ ParseLine(host, args).ok \in BOOLEAN
      /\ ParseLine(host, args).ok <=>
            common.ok /\ Passes /\ line2.ok /\ line2.consumed = DOMAIN args
  <2>1. Refused.ok = FALSE /\ line2.ok \in BOOLEAN
    BY <1>2 DEF Refused, Reading
  <2> HIDE DEF Passes
  <2> QED BY <1>3, <2>1
<1>5. common.ok =>
         (Passes <=> \A o \in O : Places(args, o) # {} => o \in Supported(host))
  BY <1>1 DEF HasRead
<1>6. line2.ok => common.ok
  BY <1>1, <1>2 DEF HasRead
<1>7. line2.ok <=> \A o \in all : Places(args, o) # {} => Fits(args, o)
  BY <1>2 DEF HasRead
<1>8. line2.ok => line2.consumed = UNION {Eaten(args, o) : o \in all}
  BY <1>2 DEF HasRead
<1>9. common \in Reading
  BY <1>1
<1> HIDE DEF Passes, O
<1>10. ParseLine(host, args).ok <=> Exact(host, args)
  <2>1. Exact(host, args) <=>
           /\ \A o \in all : Places(args, o) # {} => Fits(args, o)
           /\ \A o \in O : Places(args, o) # {} => o \in Supported(host)
           /\ UNION {Eaten(args, o) : o \in all} = DOMAIN args
    BY DEF Exact, O
  <2> HIDE DEF all
  <2> QED BY <1>4, <1>5, <1>6, <1>7, <1>8, <2>1
<1> QED BY <1>4, <1>9, <1>10 DEF common

\* An option the grammar gives a host is known to it, and no plain word is one.
LEMMA GrammarNames ==
    ASSUME NEW host \in Hosts
    PROVE  LET all == ToSet(CommonOptions) \cup ToSet(OwnOptions(host))
           IN  /\ Supported(host) \cup ToSet(OwnOptions(host)) \subseteq all
               /\ all \subseteq Names
               /\ \A o \in all : o \notin Plain
BY ListsAreApart, NamesAreNotPlain DEF Names

\* What is consumed are the words of the grammar: the first places of the options there
\* are, and behind them the values.
LEMMA ExactIsWellFormed ==
    ASSUME NEW host \in Hosts, NEW args \in Seq(Words), Exact(host, args)
    PROVE  WellFormed(host, args)
<1> DEFINE own == ToSet(OwnOptions(host))
           all == ToSet(CommonOptions) \cup own
           there == {o \in all : Places(args, o) # {}}
           heads == {First(args, o) : o \in there}
           valued == {i \in heads : args[i] \notin Flags}
<1>0. DOMAIN args = 1..Len(args) /\ Len(args) \in Nat
  OBVIOUS
<1>1. \A o \in there : /\ First(args, o) \in 1..Len(args) /\ args[First(args, o)] = o
                       /\ Fits(args, o)
                       /\ o \in Supported(host) \cup own
                       /\ o \notin Plain
  <2> SUFFICES ASSUME NEW o \in there
               PROVE  /\ First(args, o) \in 1..Len(args) /\ args[First(args, o)] = o
                      /\ Fits(args, o)
                      /\ o \in Supported(host) \cup own
                      /\ o \notin Plain
    OBVIOUS
  <2>1. First(args, o) \in 1..Len(args) /\ args[First(args, o)] = o
    BY FirstIsPlace
  <2>2. Fits(args, o) /\ o \in Supported(host) \cup own
    BY DEF Exact
  <2> QED BY <2>1, <2>2, GrammarNames
<1>2. heads \subseteq DOMAIN args
  BY <1>0, <1>1
<1>3. \A i \in heads : /\ args[i] \in there /\ i = First(args, args[i])
                       /\ args[i] \notin Plain
  BY <1>1
<1>4. \A i \in valued : /\ i + 1 \in 1..Len(args) /\ i < Len(args)
                        /\ args[i + 1] \in Plain /\ Takes(args[i], args[i + 1])
  <2> SUFFICES ASSUME NEW i \in valued
               PROVE  /\ i + 1 \in 1..Len(args) /\ i < Len(args)
                      /\ args[i + 1] \in Plain /\ Takes(args[i], args[i + 1])
    OBVIOUS
  <2>1. i \in 1..Len(args) /\ i = First(args, args[i]) /\ args[i] \in there
    BY <1>0, <1>2, <1>3
  <2>2. Fits(args, args[i]) /\ args[i] \notin Flags
    BY <1>1, <2>1
  <2>3. i # Len(args) /\ args[i + 1] \notin Dashed /\ Takes(args[i], args[i + 1])
    BY <2>1, <2>2 DEF Fits
  <2>4. i + 1 \in 1..Len(args)
    BY <1>0, <2>1, <2>3
  <2>5. args[i + 1] \in Words
    BY <2>4
  <2>6. args[i + 1] \in Plain
    BY <2>3, <2>5 DEF Words
  <2> HIDE DEF valued, heads
  <2>7. i < Len(args)
    <3>1. i \in 1..Len(args) /\ i # Len(args) /\ Len(args) \in Nat
      BY <1>0, <2>1, <2>3
    <3> QED BY <3>1
  <2> QED BY <2>3, <2>4, <2>6, <2>7
<1>5. \A i \in valued : i + 1 \notin heads
  BY <1>3, <1>4
<1>6. UNION {Eaten(args, o) : o \in all} = heads \cup {i + 1 : i \in valued}
  <2>1. \A o \in there : Eaten(args, o) =
           IF o \in Flags THEN {First(args, o)} ELSE {First(args, o), First(args, o) + 1}
    BY DEF Eaten
  <2>2. \A o \in all \ there : Eaten(args, o) = {}
    BY DEF Eaten
  <2>3. ASSUME NEW o \in all, NEW x \in Eaten(args, o)
        PROVE  x \in heads \cup {i + 1 : i \in valued}
    <3>1. o \in there
      BY <2>2, <2>3
    <3>2. CASE x = First(args, o)
      BY <3>1, <3>2
    <3>3. CASE x # First(args, o)
      <4>1. o \notin Flags /\ x = First(args, o) + 1
        BY <2>1, <2>3, <3>1, <3>3
      <4>2. First(args, o) \in valued
        BY <1>1, <3>1, <4>1
      <4> QED BY <4>1, <4>2
    <3> QED BY <3>2, <3>3
  <2>4. ASSUME NEW x \in heads
        PROVE  \E o \in all : x \in Eaten(args, o)
    <3>1. args[x] \in there /\ x = First(args, args[x])
      BY <1>3
    <3> QED BY <2>1, <3>1
  <2>5. ASSUME NEW i \in valued
        PROVE  \E o \in all : i + 1 \in Eaten(args, o)
    <3>1. args[i] \in there /\ i = First(args, args[i]) /\ args[i] \notin Flags
      BY <1>3
    <3> QED BY <2>1, <3>1
  <2> HIDE DEF heads, valued, all
  <2> QED BY <2>3, <2>4, <2>5
<1>7. DOMAIN args = heads \cup {i + 1 : i \in valued}
  BY <1>6 DEF Exact
<1>8. \A i, j \in heads : args[i] = args[j] => i = j
  BY <1>3
<1>9. \A i \in heads : args[i] \in Supported(host) \cup own
  BY <1>1, <1>3
<1> DEFINE Whole(hs) ==
      LET vs == {i \in hs : args[i] \notin Flags}
      IN  /\ \A i \in hs : args[i] \in Supported(host) \cup ToSet(OwnOptions(host))
          /\ \A i, j \in hs : args[i] = args[j] => i = j
          /\ \A i \in vs : /\ i < Len(args) /\ i + 1 \notin hs
                           /\ args[i + 1] \in Plain /\ Takes(args[i], args[i + 1])
          /\ DOMAIN args = hs \cup {i + 1 : i \in vs}
<1>10. Whole(heads)
  <2> HIDE DEF heads
  <2> QED BY <1>4, <1>5, <1>7, <1>8, <1>9
<1>11. heads \in SUBSET DOMAIN args
  BY <1>2
<1> HIDE DEF heads
<1> QED BY <1>10, <1>11 DEF WellFormed

\* The words of the grammar are what is consumed.
LEMMA WellFormedIsExact ==
    ASSUME NEW host \in Hosts, NEW args \in Seq(Words), WellFormed(host, args)
    PROVE  Exact(host, args)
<1> DEFINE own == ToSet(OwnOptions(host))
           O == ToSet(CommonOptions)
           all == O \cup own
<1>0. DOMAIN args = 1..Len(args) /\ Len(args) \in Nat
  OBVIOUS
<1>1. PICK heads \in SUBSET DOMAIN args :
         LET vs == {i \in heads : args[i] \notin Flags}
         IN  /\ \A i \in heads : args[i] \in Supported(host) \cup own
             /\ \A i, j \in heads : args[i] = args[j] => i = j
             /\ \A i \in vs : /\ i < Len(args) /\ i + 1 \notin heads
                              /\ args[i + 1] \in Plain /\ Takes(args[i], args[i + 1])
             /\ DOMAIN args = heads \cup {i + 1 : i \in vs}
  BY DEF WellFormed
<1> DEFINE valued == {i \in heads : args[i] \notin Flags}
<1>2. \A o \in all : o \notin Plain
  BY GrammarNames
<1>3. ASSUME NEW o \in all, NEW i \in Places(args, o)
      PROVE  i \in heads
  <2>1. i \in DOMAIN args /\ args[i] = o
    BY DEF Places
  <2>2. i \notin {k + 1 : k \in valued}
    BY <1>1, <1>2, <2>1
  <2> QED BY <1>1, <2>1, <2>2
<1>4. ASSUME NEW o \in all, Places(args, o) # {}
      PROVE  /\ First(args, o) \in heads /\ args[First(args, o)] = o
             /\ o \in Supported(host) \cup own
             /\ Fits(args, o)
  <2>1. First(args, o) \in 1..Len(args) /\ args[First(args, o)] = o
    BY <1>4, FirstIsPlace
  <2>2. First(args, o) \in heads
    BY <1>0, <1>3, <2>1 DEF Places
  <2>3. o \in Supported(host) \cup own
    BY <1>1, <2>1, <2>2
  <2>4. Fits(args, o)
    <3>1. CASE o \in Flags
      BY <3>1 DEF Fits
    <3>2. CASE o \notin Flags
      <4> DEFINE i == First(args, o)
      <4>1. i \in valued
        BY <2>1, <2>2, <3>2
      <4>2. i < Len(args) /\ args[i + 1] \in Plain /\ Takes(o, args[i + 1])
        BY <1>1, <2>1, <4>1
      <4>3. i # Len(args) /\ args[i + 1] \notin Dashed
        BY <1>0, <2>1, <4>2, OptionsAssumption
      <4> QED BY <4>2, <4>3 DEF Fits
    <3> QED BY <3>1, <3>2
  <2> QED BY <2>1, <2>2, <2>3, <2>4
<1>5. \A o \in O : Places(args, o) # {} => o \in Supported(host)
  BY <1>4, ListsAreApart
<1>6. ASSUME NEW x \in UNION {Eaten(args, o) : o \in all}
      PROVE  x \in DOMAIN args
  <2>1. PICK o \in all : x \in Eaten(args, o)
    OBVIOUS
  <2>2. Places(args, o) # {}
    BY <2>1 DEF Eaten
  <2>3. First(args, o) \in heads /\ args[First(args, o)] = o
    BY <1>4, <2>2
  <2>4. x = First(args, o) \/ (o \notin Flags /\ x = First(args, o) + 1)
    BY <2>1, <2>2 DEF Eaten
  <2> QED BY <1>1, <2>3, <2>4
<1>7. ASSUME NEW i \in heads
      PROVE  /\ args[i] \in all /\ Places(args, args[i]) # {} /\ i = First(args, args[i])
  <2>1. args[i] \in all
    BY <1>1, GrammarNames
  <2>2. i \in Places(args, args[i])
    BY DEF Places
  <2>3. First(args, args[i]) \in heads /\ args[First(args, args[i])] = args[i]
    BY <1>4, <2>1, <2>2
  <2> QED BY <1>1, <2>1, <2>2, <2>3
<1>8. ASSUME NEW x \in DOMAIN args
      PROVE  x \in UNION {Eaten(args, o) : o \in all}
  <2>1. CASE x \in heads
    <3>1. x \in Eaten(args, args[x])
      BY <1>7, <2>1 DEF Eaten
    <3> QED BY <1>7, <2>1, <3>1
  <2>2. CASE x \notin heads
    <3>1. PICK i \in valued : x = i + 1
      BY <1>1, <2>2
    <3>2. x \in Eaten(args, args[i])
      BY <1>7, <3>1 DEF Eaten
    <3> QED BY <1>7, <3>1, <3>2
  <2> QED BY <2>1, <2>2
<1>9. UNION {Eaten(args, o) : o \in all} = DOMAIN args
  BY <1>6, <1>8
<1> QED BY <1>4, <1>5, <1>9 DEF Exact

\* A host accepts a line exactly if it is of its grammar (both mains, up to their work).
LEMMA AcceptsGrammar ==
    ASSUME NEW host \in Hosts, NEW args \in Seq(Words)
    PROVE  ParseLine(host, args).ok <=> WellFormed(host, args)
BY ParsesExactly, ExactIsWellFormed, WellFormedIsExact
-----------------------------------------------------------------------------
(* The result file.                                                        *)

Writing == {"write", "remove", "rename"}

\* What a running process has and has not done yet.
RunOK ==
    /\ stage # "ended" => run.number > 0 /\ exit = None /\ ~trouble.handler
    /\ stage \in {"line", "work"} => report = None
    /\ stage \in {"directories", "open"} \cup Writing => report \in {"ok", "error"}

\* A result file is of no later run, and of this one only once it has ended.
FilesOK ==
    \A p \in Paths : /\ files[p].run <= run.number
                     /\ stage # "ended" => files[p].run < run.number

\* From its opening to the rename the temporary file is this report's, and before the
\* rename all of it is there, unless the disk was full.
TempOK ==
    path \in Paths =>
        /\ stage \in Writing => temps[path].run = run.number /\ temps[path].status = report
        /\ stage \in {"remove", "rename"} => temps[path].whole \/ trouble.full

\* The inductive invariant.
HostInv == HostTypeOK /\ RunOK /\ FilesOK /\ TempOK /\ ExitMatchesResult

\* A file that is missing stands for no run.
LEMMA MissingIsContents == Missing \in Contents /\ Missing.run = 0
  BY DEF Missing, Contents

\* Nothing has run at the start.
LEMMA InvStarts == HostInit => HostInv
  <1> SUFFICES ASSUME HostInit PROVE HostInv
    OBVIOUS
  <1>1. trouble \in [full : BOOLEAN, handler : BOOLEAN]
    BY DEF HostInit
  <1>2. HostTypeOK
    BY <1>1, MissingIsContents DEF HostInit, HostTypeOK
  <1>3. RunOK /\ TempOK /\ ExitMatchesResult
    BY WordsAssumption DEF HostInit, RunOK, TempOK, ExitMatchesResult, Writing
  <1>4. FilesOK
    BY DEF HostInit, FilesOK, Missing
  <1> QED BY <1>2, <1>3, <1>4 DEF HostInv

\* A new process has the files of the earlier ones, none of which is of its run.
LEMMA LaunchKeeps ==
    ASSUME HostInv, NEW host, NEW args, Launch(host, args)
    PROVE  HostInv'
  <1> DEFINE n == run.number
  <1>a. n \in Nat /\ run'.number = n + 1
    BY DEF HostInv, HostTypeOK, Launch
  <1>b. trouble' \in [full : BOOLEAN, handler : BOOLEAN] /\ trouble'.handler = FALSE
    BY DEF HostInv, HostTypeOK, Launch
  <1>1. HostTypeOK'
    BY <1>a, <1>b DEF HostInv, HostTypeOK, Launch
  <1>2. RunOK'
    BY <1>a DEF HostInv, HostTypeOK, RunOK, Writing, Launch
  <1>3. FilesOK'
    BY <1>a DEF HostInv, HostTypeOK, RunOK, FilesOK, Contents, Launch
  <1>4. TempOK'
    BY WordsAssumption DEF HostInv, HostTypeOK, RunOK, TempOK, Contents, Writing, path, Launch
  <1>5. ExitMatchesResult'
    BY WordsAssumption DEF HostInv, HostTypeOK, RunOK, FilesOK, TempOK, ExitMatchesResult, Contents, Writing, path, Paths, Launch
  <1> QED BY <1>1, <1>2, <1>3, <1>4, <1>5 DEF HostInv

\* Reading the line and working change no file.
LEMMA WorkKeeps ==
    ASSUME HostInv, ReadLine \/ Work \/ WorkFails
    PROVE  HostInv'
  <1>1. CASE ReadLine
    <2>1. HostTypeOK'
      BY <1>1, WordsAssumption DEF HostInv, HostTypeOK, Contents, ReadLine, Throw, Exits
    <2>2. RunOK'
      BY <1>1, WordsAssumption DEF HostInv, HostTypeOK, RunOK, Writing, ReadLine, Throw, Exits
    <2>3. FilesOK'
      BY <1>1, WordsAssumption DEF HostInv, HostTypeOK, RunOK, FilesOK, Contents, ReadLine, Throw, Exits
    <2>4. TempOK'
      BY <1>1, WordsAssumption DEF HostInv, HostTypeOK, RunOK, TempOK, Contents, Writing, path, ReadLine, Throw, Exits
    <2>5. ExitMatchesResult'
      BY <1>1, WordsAssumption DEF HostInv, HostTypeOK, RunOK, FilesOK, TempOK, ExitMatchesResult, Contents, Writing, path, Paths, ReadLine, Throw, Exits
    <2> QED BY <2>1, <2>2, <2>3, <2>4, <2>5 DEF HostInv
  <1>2. CASE Work
    <2>1. HostTypeOK'
      BY <1>2, WordsAssumption DEF HostInv, HostTypeOK, Contents, Work, Exits
    <2>2. RunOK'
      BY <1>2, WordsAssumption DEF HostInv, HostTypeOK, RunOK, Writing, Work, Exits
    <2>3. FilesOK'
      BY <1>2, WordsAssumption DEF HostInv, HostTypeOK, RunOK, FilesOK, Contents, Work, Exits
    <2>4. TempOK'
      BY <1>2, WordsAssumption DEF HostInv, HostTypeOK, RunOK, TempOK, Contents, Writing, path, Work, Exits
    <2>5. ExitMatchesResult'
      BY <1>2, WordsAssumption DEF HostInv, HostTypeOK, RunOK, FilesOK, TempOK, ExitMatchesResult, Contents, Writing, path, Paths, Work, Exits
    <2> QED BY <2>1, <2>2, <2>3, <2>4, <2>5 DEF HostInv
  <1>3. CASE WorkFails
    <2>1. HostTypeOK'
      BY <1>3, WordsAssumption DEF HostInv, HostTypeOK, Contents, WorkFails, Throw, Exits
    <2>2. RunOK'
      BY <1>3, WordsAssumption DEF HostInv, HostTypeOK, RunOK, Writing, WorkFails, Throw, Exits
    <2>3. FilesOK'
      BY <1>3, WordsAssumption DEF HostInv, HostTypeOK, RunOK, FilesOK, Contents, WorkFails, Throw, Exits
    <2>4. TempOK'
      BY <1>3, WordsAssumption DEF HostInv, HostTypeOK, RunOK, TempOK, Contents, Writing, path, WorkFails, Throw, Exits
    <2>5. ExitMatchesResult'
      BY <1>3, WordsAssumption DEF HostInv, HostTypeOK, RunOK, FilesOK, TempOK, ExitMatchesResult, Contents, Writing, path, Paths, WorkFails, Throw, Exits
    <2> QED BY <2>1, <2>2, <2>3, <2>4, <2>5 DEF HostInv
  <1> QED BY <1>1, <1>2, <1>3

\* Opening and writing change the temporary file alone.
LEMMA WritingKeeps ==
    ASSUME HostInv, CreateDirectories \/ OpenTemporary \/ WriteTemporary \/ WriteFallsShort
    PROVE  HostInv'
  <1>1. CASE CreateDirectories
    <2>1. HostTypeOK'
      BY <1>1, WordsAssumption DEF HostInv, HostTypeOK, Contents, CreateDirectories, Returns, Exits
    <2>2. RunOK'
      BY <1>1, WordsAssumption DEF HostInv, HostTypeOK, RunOK, Writing, CreateDirectories, Returns, Exits
    <2>3. FilesOK'
      BY <1>1, WordsAssumption DEF HostInv, HostTypeOK, RunOK, FilesOK, Contents, CreateDirectories, Returns, Exits
    <2>4. TempOK'
      BY <1>1, WordsAssumption DEF HostInv, HostTypeOK, RunOK, TempOK, Contents, Writing, path, CreateDirectories, Returns, Exits
    <2>5. ExitMatchesResult'
      BY <1>1, WordsAssumption DEF HostInv, HostTypeOK, RunOK, FilesOK, TempOK, ExitMatchesResult, Contents, Writing, path, Paths, CreateDirectories, Returns, Exits
    <2> QED BY <2>1, <2>2, <2>3, <2>4, <2>5 DEF HostInv
  <1>2. CASE OpenTemporary
    <2>1. HostTypeOK'
      BY <1>2, WordsAssumption DEF HostInv, HostTypeOK, Contents, OpenTemporary, Result
    <2>2. RunOK'
      BY <1>2, WordsAssumption DEF HostInv, HostTypeOK, RunOK, Writing, OpenTemporary, Result
    <2>3. FilesOK'
      BY <1>2, WordsAssumption DEF HostInv, HostTypeOK, RunOK, FilesOK, Contents, OpenTemporary, Result
    <2>4. TempOK'
      BY <1>2, WordsAssumption DEF HostInv, HostTypeOK, RunOK, TempOK, Contents, Writing, path, OpenTemporary, Result
    <2>5. ExitMatchesResult'
      BY <1>2, WordsAssumption DEF HostInv, HostTypeOK, RunOK, FilesOK, TempOK, ExitMatchesResult, Contents, Writing, path, Paths, OpenTemporary, Result
    <2> QED BY <2>1, <2>2, <2>3, <2>4, <2>5 DEF HostInv
  <1>3. CASE WriteTemporary
    <2>1. HostTypeOK'
      BY <1>3, WordsAssumption DEF HostInv, HostTypeOK, Contents, WriteTemporary, Result
    <2>2. RunOK'
      BY <1>3, WordsAssumption DEF HostInv, HostTypeOK, RunOK, Writing, WriteTemporary, Result
    <2>3. FilesOK'
      BY <1>3, WordsAssumption DEF HostInv, HostTypeOK, RunOK, FilesOK, Contents, WriteTemporary, Result
    <2>4. TempOK'
      BY <1>3, WordsAssumption DEF HostInv, HostTypeOK, RunOK, TempOK, Contents, Writing, path, WriteTemporary, Result
    <2>5. ExitMatchesResult'
      BY <1>3, WordsAssumption DEF HostInv, HostTypeOK, RunOK, FilesOK, TempOK, ExitMatchesResult, Contents, Writing, path, Paths, WriteTemporary, Result
    <2> QED BY <2>1, <2>2, <2>3, <2>4, <2>5 DEF HostInv
  <1>4. CASE WriteFallsShort
    <2>1. HostTypeOK'
      BY <1>4, WordsAssumption DEF HostInv, HostTypeOK, Contents, WriteFallsShort
    <2>2. RunOK'
      BY <1>4, WordsAssumption DEF HostInv, HostTypeOK, RunOK, Writing, WriteFallsShort
    <2>3. FilesOK'
      BY <1>4, WordsAssumption DEF HostInv, HostTypeOK, RunOK, FilesOK, Contents, WriteFallsShort
    <2>4. TempOK'
      BY <1>4, WordsAssumption DEF HostInv, HostTypeOK, RunOK, TempOK, Contents, Writing, path, WriteFallsShort
    <2>5. ExitMatchesResult'
      BY <1>4, WordsAssumption DEF HostInv, HostTypeOK, RunOK, FilesOK, TempOK, ExitMatchesResult, Contents, Writing, path, Paths, WriteFallsShort
    <2> QED BY <2>1, <2>2, <2>3, <2>4, <2>5 DEF HostInv
  <1> QED BY <1>1, <1>2, <1>3, <1>4

\* The old file goes, the new one takes its place; a call that is refused changes none.
LEMMA ReplacingKeeps ==
    ASSUME HostInv, RemoveOld \/ Rename \/ CallFails \/ Killed
    PROVE  HostInv'
  <1>1. CASE RemoveOld
    <2>1. HostTypeOK'
      BY <1>1, MissingIsContents DEF HostInv, HostTypeOK, RemoveOld
    <2>2. RunOK'
      BY <1>1, WordsAssumption DEF HostInv, HostTypeOK, RunOK, Writing, RemoveOld, Missing
    <2>3. FilesOK'
      <3> SUFFICES ASSUME NEW p \in Paths
                   PROVE  files'[p].run < run.number
        BY <1>1, <2>1 DEF FilesOK, RemoveOld, HostInv, HostTypeOK, Contents
      <3>1. files'[p] \in {files[p], Missing}
        BY <1>1 DEF HostInv, HostTypeOK, RemoveOld
      <3> QED BY <1>1, <3>1, MissingIsContents DEF HostInv, RunOK, FilesOK, RemoveOld
    <2>4. TempOK'
      BY <1>1, WordsAssumption DEF HostInv, HostTypeOK, RunOK, TempOK, Contents, Writing, path, RemoveOld, Missing
    <2>5. ExitMatchesResult'
      BY <1>1, WordsAssumption DEF HostInv, HostTypeOK, RunOK, FilesOK, TempOK, ExitMatchesResult, Contents, Writing, path, Paths, RemoveOld, Missing
    <2> QED BY <2>1, <2>2, <2>3, <2>4, <2>5 DEF HostInv
  <1>2. CASE Rename
    <2>1. HostTypeOK'
      BY <1>2, WordsAssumption DEF HostInv, HostTypeOK, Contents, Rename, Returns, Exits, Missing
    <2>2. RunOK'
      BY <1>2, WordsAssumption DEF HostInv, HostTypeOK, RunOK, Writing, Rename, Returns, Exits, Missing
    <2>a. path \in Paths => temps[path].run = run.number /\ temps[path].status = report
      BY <1>2 DEF HostInv, TempOK, Writing, Rename
    <2>b. \A p \in Paths : files'[p] = IF p = path THEN temps[path] ELSE files[p]
      BY <1>2 DEF HostInv, HostTypeOK, Rename
    <2>3. FilesOK'
      BY <1>2, <2>a, <2>b DEF HostInv, HostTypeOK, FilesOK, Rename, Returns, Exits
    <2>4. TempOK'
      BY <1>2, WordsAssumption DEF HostInv, HostTypeOK, RunOK, TempOK, Contents, Writing, path, Rename, Returns, Exits, Missing
    <2>5. ExitMatchesResult'
      <3> SUFFICES ASSUME path \in Paths
                   PROVE  /\ exit' = 0 => report = "ok"
                          /\ exit' = 1 => report = "error"
                          /\ ~trouble'.handler
        BY <1>2, <2>a, <2>b DEF ExitMatchesResult, Rename, path
      <3>1. ~trouble.handler /\ report \in {"ok", "error"}
        BY <1>2 DEF HostInv, RunOK, Writing, Rename
      <3>2. ~trouble'.handler
        BY <1>2, <3>1 DEF Rename
      <3>3. exit' = IF report = "error" THEN 1 ELSE 0
        BY <1>2 DEF Rename, Returns, Exits
      <3> QED BY <3>1, <3>2, <3>3
    <2> QED BY <2>1, <2>2, <2>3, <2>4, <2>5 DEF HostInv
  <1>3. CASE CallFails
    <2>1. HostTypeOK'
      BY <1>3, WordsAssumption DEF HostInv, HostTypeOK, Contents, CallFails, Throw, Exits
    <2>2. RunOK'
      BY <1>3, WordsAssumption DEF HostInv, HostTypeOK, RunOK, Writing, CallFails, Throw, Exits
    <2>3. FilesOK'
      BY <1>3, WordsAssumption DEF HostInv, HostTypeOK, RunOK, FilesOK, Contents, CallFails, Throw, Exits
    <2>4. TempOK'
      BY <1>3, WordsAssumption DEF HostInv, HostTypeOK, RunOK, TempOK, Contents, Writing, path, CallFails, Throw, Exits
    <2>5. ExitMatchesResult'
      <3> SUFFICES ASSUME path \in Paths
                   PROVE  /\ exit' # 0
                          /\ exit' = 1 => trouble'.handler /\ files[path].run # run.number
        BY <1>3 DEF ExitMatchesResult, CallFails, path
      <3>1. files[path].run # run.number
        <4>1. stage # "ended"
          BY <1>3 DEF CallFails
        <4>2. \A p \in Paths : files[p].run \in Nat /\ files[p].run < run.number
          BY <4>1 DEF HostInv, HostTypeOK, FilesOK, Contents
        <4> QED BY <4>2
      <3>2. path # None
        BY WordsAssumption DEF Paths
      <3>3. trouble'.handler = (report = "error")
        <4>1. trouble \in [full : BOOLEAN, handler : BOOLEAN]
          BY DEF HostInv, HostTypeOK
        <4>2. trouble' = [trouble EXCEPT !.handler = (report = "error")]
          BY <1>3 DEF CallFails
        <4> QED BY <4>1, <4>2
      <3>4. exit = None
        BY <1>3 DEF HostInv, RunOK, CallFails
      <3>5. IF report # "error" THEN exit' = exit ELSE exit' = 1
        BY <1>3, <3>2 DEF CallFails, Throw, Exits
      <3>6. CASE report = "error"
        <4>1. trouble'.handler
          BY <3>3, <3>6
        <4> QED BY <3>1, <3>5, <3>6, <4>1
      <3>7. CASE report # "error"
        BY <3>4, <3>5, <3>7, WordsAssumption
      <3> QED BY <3>6, <3>7
    <2> QED BY <2>1, <2>2, <2>3, <2>4, <2>5 DEF HostInv
  <1>4. CASE Killed
    <2>1. HostTypeOK'
      BY <1>4, WordsAssumption DEF HostInv, HostTypeOK, Contents, Killed
    <2>2. RunOK'
      BY <1>4, WordsAssumption DEF HostInv, HostTypeOK, RunOK, Writing, Killed
    <2>3. FilesOK'
      BY <1>4, WordsAssumption DEF HostInv, HostTypeOK, RunOK, FilesOK, Contents, Killed
    <2>4. TempOK'
      BY <1>4, WordsAssumption DEF HostInv, HostTypeOK, RunOK, TempOK, Contents, Writing, path, Killed
    <2>5. ExitMatchesResult'
      BY <1>4, WordsAssumption DEF HostInv, HostTypeOK, RunOK, FilesOK, TempOK, ExitMatchesResult, Contents, Writing, path, Paths, Killed
    <2> QED BY <2>1, <2>2, <2>3, <2>4, <2>5 DEF HostInv
  <1> QED BY <1>1, <1>2, <1>3, <1>4

\* HostInv holds in every reachable state (main and writeResultFile).
THEOREM HostConsistent == HostSpec => []HostInv
  <1>1. HostInit => HostInv
    BY InvStarts
  <1>2. HostInv /\ [HostNext]_hostVars => HostInv'
    <2> SUFFICES ASSUME HostInv, [HostNext]_hostVars PROVE HostInv'
      OBVIOUS
    <2>1. CASE \E host \in Hosts, args \in Lines(IF run.number = 0 THEN LongestLine
                                                 ELSE ShortLine) : Launch(host, args)
      BY <2>1, LaunchKeeps
    <2>2. CASE ReadLine \/ Work \/ WorkFails
      BY <2>2, WorkKeeps
    <2>3. CASE CreateDirectories \/ OpenTemporary \/ WriteTemporary \/ WriteFallsShort
      BY <2>3, WritingKeeps
    <2>4. CASE RemoveOld \/ Rename \/ CallFails \/ Killed
      BY <2>4, ReplacingKeeps
    <2>5. CASE UNCHANGED hostVars
      BY <2>5 DEF HostInv, HostTypeOK, RunOK, FilesOK, TempOK, ExitMatchesResult, hostVars, path
    <2> QED BY <2>1, <2>2, <2>3, <2>4, <2>5 DEF HostNext
  <1> QED BY <1>1, <1>2, PTL DEF HostSpec

\* After exit code 0 the result file is this run's success; after 1 it is this run's
\* failure, unless writing that failed too, and then nothing of this run (both mains).
THEOREM ExitAgreesWithResult == HostSpec => []ExitMatchesResult
  <1>1. HostInv => ExitMatchesResult
    BY DEF HostInv
  <1> QED BY <1>1, HostConsistent, PTL

\* At every step what is put in the place of a result file is whole, unless the disk was
\* full, and of the run that puts it (writeResultFile).
THEOREM ResultsAlwaysWhole == HostSpec => ResultsAreWholeAndFresh
  <1> DEFINE Put == \A p \in Paths : files'[p] \notin {files[p], Missing} =>
                        /\ files'[p].run = run.number
                        /\ files'[p].whole \/ trouble.full
  <1>1. HostInv /\ [HostNext]_hostVars => [Put]_hostVars
    <2> SUFFICES ASSUME HostInv, HostNext PROVE Put
      OBVIOUS
    <2>1. CASE Rename
      BY <2>1 DEF HostInv, HostTypeOK, TempOK, Writing, Rename, path, Paths
    <2>2. CASE RemoveOld
      BY <2>2 DEF HostInv, HostTypeOK, RemoveOld
    <2>3. CASE UNCHANGED files
      BY <2>3
    <2> QED BY <2>1, <2>2, <2>3 DEF HostNext, Launch, ReadLine, Work, WorkFails,
               CreateDirectories, OpenTemporary, WriteTemporary, WriteFallsShort, CallFails,
               Killed
  <1> QED BY <1>1, HostConsistent, PTL DEF HostSpec, ResultsAreWholeAndFresh
-----------------------------------------------------------------------------
(* What a host accepts.                                                    *)

\* The words of a process are words.
LineInv ==
    /\ run.number > 0 => run.host \in Hosts /\ run.args \in Seq(Words)
    /\ AcceptsExactly

\* Every step keeps that.
LEMMA LineKeeps ==
    ASSUME HostInv, LineInv, [HostNext]_hostVars
    PROVE  LineInv'
<1>1. CASE \E host \in Hosts, args \in Lines(IF run.number = 0 THEN LongestLine
                                             ELSE ShortLine) : Launch(host, args)
  <2>1. PICK host \in Hosts,
             args \in Lines(IF run.number = 0 THEN LongestLine ELSE ShortLine) :
             Launch(host, args)
    BY <1>1
  <2>2. args \in Seq(Words)
    <3>1. PICK n \in Nat : args \in [1..n -> Words]
      BY BoundsAssumption DEF Lines
    <3> QED BY <3>1, SeqDef
  <2>3. run'.host = host /\ run'.args = args /\ line' = Unread
    BY <2>1 DEF Launch
  <2> QED BY <2>2, <2>3 DEF LineInv, AcceptsExactly
<1>2. CASE ReadLine
  <2>1. run.host \in Hosts /\ run.args \in Seq(Words) /\ run' = run
    BY <1>2 DEF ReadLine, HostInv, RunOK, LineInv
  <2>2. line'.ok <=> ParseLine(run.host, run.args).ok
    <3> DEFINE read == ParseLine(run.host, run.args)
               common == ParseCommonOptions(run.args)
    <3>1. common \in Reading /\ read.ok \in BOOLEAN
      BY <2>1, ParsesExactly
    <3>2. line' = IF run.host = "scene_probe" THEN [common EXCEPT !.ok = read.ok] ELSE read
      BY <1>2 DEF ReadLine
    <3> HIDE DEF read, common
    <3>3. [common EXCEPT !.ok = read.ok].ok = read.ok
      BY <3>1 DEF Reading
    <3>4. line'.ok = read.ok
      BY <3>2, <3>3
    <3> QED BY <3>4 DEF read
  <2>3. line'.ok <=> WellFormed(run.host, run.args)
    BY <2>1, <2>2, AcceptsGrammar
  <2> QED BY <2>1, <2>3 DEF LineInv, AcceptsExactly
<1>3. CASE UNCHANGED <<run, line>>
  BY <1>3 DEF LineInv, AcceptsExactly
<1> QED BY <1>1, <1>2, <1>3 DEF HostNext, Work, WorkFails, CreateDirectories, OpenTemporary,
           WriteTemporary, WriteFallsShort, RemoveOld, Rename, CallFails, Killed, hostVars

\* A host does its work for the lines of its grammar and for no other, whatever the words
\* and however long the line (parseCommonOptions, parseOptions, rejectUnknown).
THEOREM GrammarIsExact == HostSpec => []AcceptsExactly
<1>1. HostInit => LineInv
  BY DEF HostInit, LineInv, AcceptsExactly
<1>2. HostInv /\ LineInv /\ [HostNext]_hostVars => LineInv'
  BY LineKeeps
<1>3. LineInv => AcceptsExactly
  BY DEF LineInv
<1> QED BY <1>1, <1>2, <1>3, HostConsistent, PTL DEF HostSpec
=============================================================================
