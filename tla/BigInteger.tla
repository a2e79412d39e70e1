----------------------------- MODULE BigInteger -----------------------------
(***************************************************************************)
(* BigInteger: signed decimal numbers of any length, kept as text and      *)
(* computed with in groups of four digits.  A numeral is a record of the   *)
(* digits before and after the point, most significant first; Radix is 10  *)
(* and Group is 4 in the code.                                             *)
(***************************************************************************)
EXTENDS Integers, Sequences, SequencesExt, FiniteSetsExt

CONSTANTS Radix, Group,
          WholeDigits, PartDigits, MaxPower      \* numbers and powers that are tried

ASSUME BigAssumption ==
    /\ Radix \in Nat \ {0, 1} /\ Group \in Nat \ {0}
    /\ {WholeDigits, PartDigits, MaxPower} \subseteq Nat

VARIABLES operation, operands, outcome

biVars == <<operation, operands, outcome>>

Base == Radix ^ Group
Number(digits) == FoldLeft(LAMBDA a, d : a * Radix + d, 0, digits)    \* atoi
Zeros(n) == [k \in 1 .. n |-> 0]
Zero == <<0>>
Numeral(whole, part) == [whole |-> whole, part |-> part]

\* The last n zeros of a text go.
Trailing(s) == Len(s) - Max({0} \cup {k \in DOMAIN s : s[k] # 0})
Trimmed(s) == SubSeq(s, 1, Len(s) - Trailing(s))

\* The groups of four, least significant first; 0 beyond the last.
Groups(s) == [k \in 1 .. (Len(s) + Group - 1) \div Group |->
                Number(SubSeq(s, Max({1, Len(s) - k * Group + 1}), Len(s) - (k - 1) * Group))]
At(g, k) == IF k \in DOMAIN g THEN g[k] ELSE 0

\* sprintf of the groups, each but the first padded with zeros.
Padded(n) == [k \in 1 .. Group |-> (n \div Radix ^ (Group - k)) % Radix]
Printed(g) ==
    LET all == FlattenSeq([k \in DOMAIN g |-> Padded(g[Len(g) + 1 - k])])
        nonzero == {k \in DOMAIN all : all[k] # 0}
    IN IF nonzero = {} THEN Zero ELSE SubSeq(all, Min(nonzero), Len(all))

-----------------------------------------------------------------------------
(* Whole numbers without a sign.                                           *)

SumOf(g, h, n) ==
    LET carry[k \in 0 .. n] == IF k = 0 THEN 0 ELSE (At(g, k) + At(h, k) + carry[k - 1]) \div Base
    IN Printed([k \in 1 .. n |-> (At(g, k) + At(h, k) + carry[k - 1]) % Base])
Add(s, t) == SumOf(Groups(s), Groups(t), (Max({Len(s), Len(t)}) + Group - 1) \div Group + 1)

\* C++ compares strings letter by letter.
Before(s, t) ==
    \/ Len(s) < Len(t) /\ s = SubSeq(t, 1, Len(s))
    \/ \E k \in DOMAIN s \cap DOMAIN t : s[k] < t[k] /\ SubSeq(s, 1, k - 1) = SubSeq(t, 1, k - 1)

\* The longer one is the greater one.  A borrow beyond the last group is
\* written behind the array.
LessBy(g, h) ==
    LET borrow[k \in 0 .. Len(g)] ==
            IF k = 0 THEN 0 ELSE IF g[k] - borrow[k - 1] - At(h, k) < 0 THEN 1 ELSE 0
    IN Printed([k \in DOMAIN g |-> (g[k] - borrow[k - 1] - At(h, k)) % Base])
Minuss(s, t) ==
    IF Len(s) < Len(t) \/ (Len(s) = Len(t) /\ Before(s, t))
    THEN LessBy(Groups(t), Groups(s)) ELSE LessBy(Groups(s), Groups(t))

Carry(i, j, m, q) == q \div Base

Put(r, i, j, m, q) == [r EXCEPT ![i + j - 1] = q % Base, ![i + j] = @ + Carry(i, j, m, q)]
Times(g, h) ==
    LET cells == [k \in 1 .. Len(g) * Len(h) |-> <<((k - 1) \div Len(h)) + 1, ((k - 1) % Len(h)) + 1>>]
        Step(r, c) == Put(r, c[1], c[2], Len(h), r[c[1] + c[2] - 1] + g[c[1]] * h[c[2]])
    IN Printed(FoldLeft(Step, Zeros(Len(g) * Len(h) + 1), cells))
Multiply(s, t) == Times(Groups(s), Groups(t))

-----------------------------------------------------------------------------
(* Numerals without a sign.                                                *)

\* By the number of digits before the point, and then as texts.
Compare(a, b) ==
    CASE Len(a.whole) # Len(b.whole) -> IF Len(a.whole) < Len(b.whole) THEN -1 ELSE 1
      [] OTHER -> LET s == IF a.whole = b.whole THEN a.part ELSE a.whole
                      t == IF a.whole = b.whole THEN b.part ELSE b.whole
                  IN IF Before(s, t) THEN -1 ELSE IF s = t THEN 0 ELSE 1

Filled(a, b) == a.part \o Zeros(Len(b.part) - Len(a.part))     \* as long as b's
Length(a, b) == Max({Len(a.part), Len(b.part)})

Together(whole, sum, n) ==
    IF Len(sum) > n THEN Numeral(Add(whole, <<sum[1]>>), Trimmed(Tail(sum)))
                    ELSE Numeral(whole, Trimmed(Zeros(n - Len(sum)) \o sum))
AddEx(a, b) == Together(Add(a.whole, b.whole), Add(Filled(a, b), Filled(b, a)), Length(a, b))

\* MinusEx; swapped when a is less.  (A slip: no borrow from the whole.)
NeverBorrows(p, q, whole) == FALSE
Borrows(p, q, whole) == Before(p, q) /\ whole # Zero

Placed(whole, rest, n) == Numeral(whole, Trimmed(Zeros(n - Len(rest)) \o rest))
Parted(whole, p, q) ==
    IF Borrows(p, q, whole) THEN Placed(Minuss(whole, <<1>>), Minuss(<<1>> \o p, q), Len(p))
                            ELSE Placed(whole, Minuss(p, q), Len(p))
Lessened(x, y) == Parted(Minuss(x.whole, y.whole), Filled(x, y), Filled(y, x))
Difference(a, b) == IF Compare(a, b) = -1 THEN Lessened(b, a) ELSE Lessened(a, b)

\* Zeros at the end go, those before the point as well.
Pointed(s, idx) ==
    IF idx < 0 THEN Numeral(Zero, Zeros(-idx) \o s)
    ELSE IF idx >= Len(s) THEN Numeral(s, <<>>)
    ELSE Numeral(IF idx = 0 THEN Zero ELSE SubSeq(s, 1, idx), SubSeq(s, idx + 1, Len(s)))
Stripped(all, dot) ==
    IF all = Zero THEN Pointed(all, 1)
    ELSE IF Len(all) # 1 /\ dot # 0 THEN Pointed(Trimmed(all), Len(all) - dot)
    ELSE Pointed(all, Len(all) - dot)
MultiplyEx(a, b) == Stripped(Multiply(a.whole \o a.part, b.whole \o b.part), Len(a.part) + Len(b.part))

Square(half) == MultiplyEx(half, half)

RECURSIVE Power(_, _)
Power(b, n) ==
    IF n = 0 THEN Numeral(<<1>>, <<>>)
    ELSE IF n = 1 THEN b
    ELSE IF n % 2 = 0 THEN Square(Power(b, n \div 2)) ELSE MultiplyEx(Square(Power(b, n \div 2)), b)

-----------------------------------------------------------------------------
(* mod, of whole numbers: as many digits as t has, and then one by one.    *)

RECURSIVE Reduced(_, _)
Reduced(p, t) ==
    IF Compare(Numeral(p, <<>>), Numeral(t, <<>>)) = -1 THEN p ELSE Reduced(Minuss(p, t), t)

AllZero(s) == \A k \in DOMAIN s : s[k] = 0
First(s, n) == SubSeq(s, 1, Min({n, Len(s)}))
Rest(s, n) == SubSeq(s, n + 1, Len(s))

RECURSIVE ModLoop(_, _, _)
ModLoop(p, s, t) ==
    IF s = <<>> THEN <<p, s>>
    ELSE LET q == Reduced(p, t) IN
         IF q # Zero THEN ModLoop(q \o First(s, 1), Rest(s, 1), t)
         ELSE IF AllZero(First(s, Len(t))) THEN <<Zero, Rest(s, Len(t))>>
         ELSE ModLoop(First(s, Len(t)), Rest(s, Len(t)), t)

Mod(s, t) ==
    LET end == ModLoop(First(s, Len(t)), Rest(s, Len(t)), t)
        p == IF end[1] = Zero THEN end[2] ELSE end[1] \o end[2]
    IN Reduced(IF AllZero(p) THEN Zero ELSE p, t)

-----------------------------------------------------------------------------
(* Numbers with a sign; sign is true for those that are not negative.      *)

Signed(sign, n) == [sign |-> sign \/ n = Numeral(Zero, <<>>), n |-> n]

signAdd(l, r) ==
    IF l.sign = r.sign THEN Signed(l.sign, AddEx(l.n, r.n))
    ELSE Signed(IF Compare(l.n, r.n) < 0 THEN r.sign ELSE l.sign, Difference(l.n, r.n))

signMinuse(l, r) ==
    IF l.sign = r.sign THEN Signed((Compare(l.n, r.n) # -1) = l.sign, Difference(l.n, r.n))
    ELSE Signed(l.sign, AddEx(l.n, r.n))

signMultiply(l, r) == Signed(l.sign = r.sign, MultiplyEx(l.n, r.n))

\* Two signs that differ: the one that is true, which is 1.
signCompare(l, r) ==
    IF l.sign # r.sign THEN 1
    ELSE IF l.sign THEN Compare(l.n, r.n) ELSE -Compare(l.n, r.n)

-----------------------------------------------------------------------------
Texts(m, n) == UNION {[1 .. k -> 0 .. Radix - 1] : k \in m .. n}
Wholes(n) == {w \in Texts(1, n) : w = Zero \/ w[1] # 0}
Numerals == {Numeral(w, p) : w \in Wholes(WholeDigits), p \in Texts(0, PartDigits)}
Numbers == {[sign |-> s, n |-> n] : s \in BOOLEAN, n \in Numerals}

\* Two numbers with signs, or two whole ones without.
BiInit == operation = "none" /\ operands = <<>> /\ outcome = <<>>

TakeOperands ==
    /\ operation = "none"
    /\ \/ operation' = "signed?" /\ operands' \in Numbers \X Numbers
       \/ operation' = "whole?" /\ operands' \in Wholes(2 * WholeDigits) \X Wholes(WholeDigits)
    /\ UNCHANGED outcome

Operate(name, value) == operation' = name /\ outcome' = value /\ UNCHANGED operands

BiNext ==
    LET l == operands[1]
        r == operands[2]
    IN \/ TakeOperands
       \/ /\ operation = "signed?"
          /\ \/ Operate("+", signAdd(l, r))
             \/ Operate("-", signMinuse(l, r))
             \/ Operate("*", signMultiply(l, r))
             \/ Operate("<", signCompare(l, r))
       \/ operation = "whole?" /\ r # Zero /\ {k \in DOMAIN l : l[k] = 0} = {} /\ Operate("%", Mod(l, r))
       \/ operation = "whole?" /\ Number(l) <= MaxPower /\ Operate("^", Power(Numeral(r, <<>>), Number(l)))

BiSpec == BiInit /\ [][BiNext]_biVars

-----------------------------------------------------------------------------
\* The value of a number in units of the places-th digit after the point.
Value(x, places) ==
    (IF x.sign THEN 1 ELSE -1) * Number(x.n.whole \o x.n.part \o Zeros(places - Len(x.n.part)))
Short(n) == Trimmed(n.part) = n.part

\* The product has not more zeros at its end than places after the point.
Strippable(a, b) == Trailing(Multiply(a.whole \o a.part, b.whole \o b.part)) <= Len(a.part) + Len(b.part)

\* Sums and differences are exact for all signs and places; products are as
\* long as stripping zeros (line 480) leaves the digits before the point alone;
\* numbers of one sign compare when no digits but zeros end them; the remainder
\* is exact for a dividend without a zero, and a power for whole numbers.
ArithmeticExact ==
    LET l == operands[1]
        r == operands[2]
        p == PartDigits
    IN CASE operation \in {"none", "signed?", "whole?"} -> TRUE
         [] operation = "+" -> Value(outcome, p) = Value(l, p) + Value(r, p)
         [] operation = "-" -> Value(outcome, p) = Value(l, p) - Value(r, p)
         [] operation = "*" -> Strippable(l.n, r.n) => Value(outcome, 2 * p) = Value(l, p) * Value(r, p)
         [] operation = "<" ->
                l.sign = r.sign /\ Short(l.n) /\ Short(r.n) =>
                    outcome = LET d == Value(l, p) - Value(r, p) IN IF d < 0 THEN -1 ELSE IF d = 0 THEN 0 ELSE 1
         [] operation = "%" -> Number(outcome) = Number(l) % Number(r)
         [] operation = "^" -> outcome.part = <<>> /\ Number(outcome.whole) = IF Number(l) = 0 THEN 1 ELSE Number(r) ^ Number(l)
=============================================================================
