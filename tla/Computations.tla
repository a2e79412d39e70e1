---------------------------- MODULE Computations ----------------------------
(***************************************************************************)
(* Functions of the repository from their arguments to a result: number    *)
(* theory, string search, the convex hull, base64 and the first-word       *)
(* automaton.  A behaviour calls one of them once.                         *)
(***************************************************************************)
EXTENDS Integers, Sequences, SequencesExt, FiniteSets, FiniteSetsExt

CONSTANTS
    MaxNumber,     \* numbers that are tried
    Letters, TextLength, PatternLength,
    Grid, Cloud,   \* coordinates of the points, and how many points
    Bytes, DataLength,
    LineLength     \* characters to a line of base64: 72

ASSUME ComputationsAssumption ==
    /\ {MaxNumber, TextLength, PatternLength, DataLength, LineLength} \subseteq Nat
    /\ Cloud \in Nat \ {0, 1} /\ Grid \subseteq Nat /\ Bytes \subseteq 0 .. 255

VARIABLES function, args, result

cmVars == <<function, args, result>>

Seqs(S, n) == UNION {[1 .. k -> S] : k \in 0 .. n}

-----------------------------------------------------------------------------
(* Number theory.                                                          *)

\* What is left of n and of the result after the factor i.
RECURSIVE Divided(_, _, _)
Divided(n, ret, i) == IF n % i = 0 THEN Divided(n \div i, ret * i, i) ELSE <<n, ret>>
RECURSIVE EularFrom(_, _, _)
EularFrom(n, ret, i) ==
    IF i * i > n THEN (IF n > 1 THEN ret * (n - 1) ELSE ret)
    ELSE IF n % i # 0 THEN EularFrom(n, ret, i + 1)
    ELSE LET d == Divided(n \div i, ret * (i - 1), i) IN EularFrom(d[1], d[2], i + 1)
Eular(n) == EularFrom(n, 1, 2)

\* The loop returns in its first round, and a number below 9 comes to the end
\* of a function that returns nothing there.
IsPrime(u) ==
    IF u \in {0, 1} THEN {FALSE}
    ELSE IF u = 2 THEN {TRUE}
    ELSE IF u % 2 = 0 THEN {FALSE}
    ELSE IF 9 <= u THEN {u % 3 # 0}
    ELSE BOOLEAN

RECURSIVE ExtendedEuclid(_, _)
ExtendedEuclid(a, b) ==
    IF b = 0 THEN <<a, 1, 0>>
    ELSE LET r == ExtendedEuclid(b, a % b) IN <<r[1], r[3], r[2] - (a \div b) * r[3]>>

ModInv(a, n) == LET r == ExtendedEuclid(a, n) IN IF r[1] = 1 THEN r[2] % n ELSE -1

RECURSIVE Gcd(_, _)
Gcd(a, b) == IF b = 0 THEN a ELSE Gcd(b, a % b)
Lcm(a, b) == (a \div Gcd(a, b)) * b

\* prime(n), with the primes found so far; it looks at plist until the square
\* of an entry is greater.
PrimeBy(plist, n) ==
    /\ \A q \in {2, 3, 5, 7} : n = q \/ n % q # 0
    /\ \A i \in DOMAIN plist : (\A j \in 1 .. i : plist[j] * plist[j] <= n) => n % plist[i] # 0
    /\ n > 1
PrimeTable(n) == FoldLeft(LAMBDA plist, i : IF PrimeBy(plist, i) THEN Append(plist, i) ELSE plist, <<2>>,
                          [k \in 1 .. n - 3 |-> k + 2])

\* mark, with M = n.
Sieve(n) ==
    FoldLeft(LAMBDA mark, i : IF mark[i] /\ i * i <= n
                              THEN [j \in DOMAIN mark |-> mark[j] /\ ~(j >= i * i /\ j % i = 0)] ELSE mark,
             [j \in 0 .. n - 1 |-> j > 1], [k \in 1 .. n - 2 |-> k + 1])

-----------------------------------------------------------------------------
(* Knuth, Morris and Pratt.                                                *)

\* Where to go on after a mismatch.  (A slip: from the start.)
FromStart(next, j) == 0
Fallback(next, j) == next[j]

\* next[i] for i in 1 .. size; 0 sends the search on.
RECURSIVE Nexts(_, _, _, _)
Nexts(p, next, i, j) ==
    IF i >= Len(p) THEN next
    ELSE IF j = 0 \/ p[i] = p[j] THEN Nexts(p, Append(next, j + 1), i + 1, j + 1) ELSE Nexts(p, next, i, Fallback(next, j))
GetNext(p) == Nexts(p, <<0>>, 1, 0)

RECURSIVE Find(_, _, _, _, _)
Find(t, p, next, i, j) ==
    IF j > Len(p) THEN i - Len(p)
    ELSE IF i > Len(t) THEN 0
    ELSE IF j = 0 \/ t[i] = p[j] THEN Find(t, p, next, i + 1, j + 1) ELSE Find(t, p, next, i, Fallback(next, j))

\* From the place pos on; -1 when there is none.
IndexSubString(t, p, pos) == Find(t, p, GetNext(p), pos + 1, 1) - 1

-----------------------------------------------------------------------------
(* The convex hull: the point farthest from the base line, and then the    *)
(* points beyond the two lines that lead to it.                            *)

Height(a, b, c) == a[1] * b[2] + c[1] * a[2] + b[1] * c[2] - c[1] * b[2] - b[1] * a[2] - a[1] * c[2]
Beyond(in, a, b, side) == SelectSeq(in, LAMBDA c : side * Height(a, b, c) > 0)
Farthest(in, a, b, side) ==
    FoldLeft(LAMBDA p, c : IF side * Height(a, b, c) > side * Height(a, b, p) THEN c ELSE p, Head(in), Tail(in))

\* What findup and finddown put out, on the side 1 or -1 of the line.
RECURSIVE FindSide(_, _, _, _)
FindSide(in, a, b, side) ==
    LET out == Beyond(in, a, b, side)
        p == Farthest(out, a, b, side)
    IN IF out = <<>> THEN <<>> ELSE <<p>> \o FindSide(out, a, p, side) \o FindSide(out, p, b, side)

FindUp(in, a, b) == FindSide(in, a, b, 1)
FindDown(in, a, b) == FindSide(in, a, b, -1)

\* in is sorted; its ends are on the hull.
FindPoint(in) ==
    LET middle == SubSeq(in, 2, Len(in) - 1)
    IN <<Head(in), Last(in)>> \o FindUp(middle, Head(in), Last(in)) \o FindDown(middle, Head(in), Last(in))

-----------------------------------------------------------------------------
(* Base64; a digit is 0 .. 63, beside it there are Pad and Newline.        *)

Pad == 64
Newline == 65

Digits(in) ==
    LET b == [k \in 1 .. 3 |-> IF k \in DOMAIN in THEN in[k] ELSE 0]
        all == <<b[1] \div 4, ((b[1] % 4) * 16) + (b[2] \div 16), ((b[2] % 16) * 4) + (b[3] \div 64), b[3] % 64>>
    IN [k \in 1 .. 4 |-> IF k <= Len(in) + 1 THEN all[k] ELSE Pad]

\* A line ends when it is full, and the last one with the data.
RECURSIVE EncodeFrom(_, _)
EncodeFrom(in, line) ==
    IF in = <<>> THEN <<>>
    ELSE LET n == Min({3, Len(in)})
             rest == SubSeq(in, n + 1, Len(in))
             ends == (line + 4 >= LineLength /\ n = 3) \/ rest = <<>>
         IN Digits(SubSeq(in, 1, n)) \o (IF ends THEN <<Newline>> ELSE <<>>) \o EncodeFrom(rest, IF ends THEN 0 ELSE line + 4)
Encode(in) == EncodeFrom(in, 0)

\* Room that base64_encode allocates, with the end of the string.
Room(in) == LET olen == ((Len(in) * 4) \div 3) + 4 IN olen + (olen \div LineLength) + 1

\* What is not in the table is skipped; a block with padding is the last one.
Block(b) == <<(b[1] * 4 + (b[2] \div 16)) % 256, (b[2] * 16 + (b[3] \div 4)) % 256, (b[3] * 64 + b[4]) % 256>>
NoData == <<-1>>
RECURSIVE DecodeFrom(_)
DecodeFrom(in) ==
    IF in = <<>> THEN <<>>
    ELSE LET four == SubSeq(in, 1, 4)
             pad == Cardinality({k \in 1 .. 4 : four[k] = Pad})
             bytes == Block([k \in 1 .. 4 |-> four[k] % Pad])
         IN IF pad = 0 THEN LET more == DecodeFrom(SubSeq(in, 5, Len(in))) IN IF more = NoData THEN NoData ELSE bytes \o more
            ELSE IF pad > 2 THEN NoData
            ELSE SubSeq(bytes, 1, 3 - pad)
Decode(in) ==
    LET known == SelectSeq(in, LAMBDA c : c # Newline)
    IN IF known = <<>> \/ Len(known) % 4 # 0 THEN NoData ELSE DecodeFrom(known)

-----------------------------------------------------------------------------
(* The automaton of fsm.c.                                                 *)

Space == "space"
LineFeed == "newline"
TheTable(state, c) ==
    CASE c = LineFeed -> <<"before", TRUE>>
      [] c = Space -> <<IF state = "before" THEN "before" ELSE "after", FALSE>>
      [] OTHER -> <<IF state = "before" THEN "inside" ELSE state, state # "after">>

Step(s, c) == <<TheTable(s[1], c)[1], IF TheTable(s[1], c)[2] THEN Append(s[2], c) ELSE s[2]>>
FirstWords(in) == FoldLeft(Step, <<"before", <<>>>>, in)[2]

-----------------------------------------------------------------------------
Sorted(points) == \A k \in 1 .. Len(points) - 1 :
    points[k][1] < points[k + 1][1] \/ (points[k][1] = points[k + 1][1] /\ points[k][2] <= points[k + 1][2])

CmInit == function = "none" /\ args = <<>> /\ result = <<>>

Call(name, a, r) == function' = name /\ args' = a /\ result' = r

CmNext ==
    /\ function = "none"
    /\ \/ \E n \in 1 .. MaxNumber : Call("Eular", n, Eular(n))
       \/ \E n \in 0 .. MaxNumber : \E r \in IsPrime(n) : Call("IsPrime", n, r)
       \/ \E a \in 0 .. MaxNumber, n \in 1 .. MaxNumber : Call("ModInv", <<a, n>>, ModInv(a, n))
       \/ \E a, b \in 1 .. MaxNumber : Call("Lcm", <<a, b>>, Lcm(a, b))
       \/ \E n \in 3 .. MaxNumber : Call("Primes", n, <<ToSet(PrimeTable(n)), {k \in 0 .. n - 1 : Sieve(n)[k]}>>)
       \/ \E t \in Seqs(Letters, TextLength), p \in Seqs(Letters, PatternLength) \ {<<>>} :
            \E pos \in 0 .. Len(t) : Call("IndexSubString", <<t, p, pos>>, IndexSubString(t, p, pos))
       \/ \E in \in UNION {[1 .. k -> Grid \X Grid] : k \in 2 .. Cloud} : Sorted(in) /\ Call("FindPoint", in, FindPoint(in))
       \/ \E in \in Seqs(Bytes, DataLength) : Call("Encode", in, Encode(in))
       \/ \E in \in Seqs(Letters \cup {Space, LineFeed}, TextLength) : Call("FirstWords", in, FirstWords(in))

CmSpec == CmInit /\ [][CmNext]_cmVars

-----------------------------------------------------------------------------
Divisors(n) == {d \in 1 .. n : n % d = 0}
Prime(n) == n > 1 /\ Divisors(n) = {1, n}
Matches(t, p, pos) == {k \in pos .. Len(t) - Len(p) : SubSeq(t, k + 1, k + Len(p)) = p}

\* The points that are no mean of others: on one side of two lines through it.
Between(a, b, c) == Height(a, b, c) = 0 /\ \A i \in {1, 2} : (a[i] <= c[i] /\ c[i] <= b[i]) \/ (b[i] <= c[i] /\ c[i] <= a[i])
Inside(a, b, c, p) == LET h == {Height(a, b, p), Height(b, c, p), Height(c, a, p)}
                      IN Height(a, b, c) # 0 /\ ((\A x \in h : x >= 0) \/ \A x \in h : x <= 0)
Corners(points) ==
    {p \in points : LET other == points \ {p}
                    IN ~\E a, b, c \in other : Between(a, b, p) \/ Inside(a, b, c, p)}

\* The characters that begin a line, after spaces, up to a space.
Kept(in, k) ==
    \/ in[k] = LineFeed
    \/ \E i \in 1 .. k : /\ \A j \in i .. k : in[j] \notin {Space, LineFeed}
                         /\ \E h \in 0 .. i - 1 : (h = 0 \/ in[h] = LineFeed) /\ \A j \in h + 1 .. i - 1 : in[j] = Space
FirstWordsOf(in) == LET kept == SetToSortSeq({k \in DOMAIN in : Kept(in, k)}, <) IN [n \in DOMAIN kept |-> in[kept[n]]]

\* Every function gives the value that it is named for; IsPrime but for 3, 5 and
\* 7, for which it comes to its end without one, and for the numbers from 25 on
\* that have divisors, but neither 2 nor 3 (its loop has no second round, line
\* 40).  Encoding fits the room that is allocated, and decoding undoes it, but for
\* no data at all.
ResultsRight ==
    CASE function = "none" -> TRUE
      [] function = "Eular" -> result = Cardinality({k \in 1 .. args : Divisors(k) \cap Divisors(args) = {1}})
      [] function = "IsPrime" ->
            \/ result = Prime(args) \/ args \in {3, 5, 7}
            \/ args >= 25 /\ ~Prime(args) /\ args % 2 # 0 /\ args % 3 # 0
      [] function = "ModInv" ->
            LET good == {x \in 0 .. args[2] - 1 : (args[1] * x - 1) % args[2] = 0}
            IN IF good = {} THEN result = -1 ELSE result \in good
      [] function = "Lcm" -> result = Min({k \in 1 .. args[1] * args[2] : k % args[1] = 0 /\ k % args[2] = 0})
      [] function = "Primes" -> result = <<{k \in 0 .. args - 1 : Prime(k)}, {k \in 0 .. args - 1 : Prime(k)}>>
      [] function = "IndexSubString" -> result = Min(Matches(args[1], args[2], args[3]) \cup {IF Matches(args[1], args[2], args[3]) = {} THEN -1 ELSE TextLength})
      [] function = "FindPoint" ->
            /\ ToSet(result) = Corners(ToSet(args))
            /\ Len(result) = IF Cardinality(ToSet(args)) = 1 THEN 2 ELSE Cardinality(ToSet(result))
      [] function = "Encode" -> Len(result) + 1 <= Room(args) /\ Decode(result) = IF args = <<>> THEN NoData ELSE args
      [] function = "FirstWords" -> result = FirstWordsOf(args)
=============================================================================
