--------------------------------- MODULE BigInt --------------------------------
(***************************************************************************)
(* timus/1153: the number of terms of which a given number is the sum, by  *)
(* a binary search with BigInt, a list of decimal digits from the least    *)
(* significant one on.                                                     *)
(*                                                                         *)
(* The operators below are those that Answer uses, digit by digit.         *)
(***************************************************************************)
EXTENDS Integers, SequencesExt

CONSTANTS MaxDigits  \* bound: digits of the input

VARIABLES
    target,      \* the input, as BigInt(string&) stores it
    y,           \* argument of SqrRoot
    left, right, \* L and R
    answer,
    step         \* "start", "search" or "done"

vars == <<target, y, left, right, answer, step>>

-------------------------------------------------------------------------------
(* BigInt *)

Digit(a, i) == IF i \in DOMAIN a THEN a[i] ELSE 0
Zero == <<0>>
One == <<1>>
Two == <<2>>
Eight == <<8>>

Longer(a, b) == IF Len(a) > Len(b) THEN Len(a) ELSE Len(b)

\* Without the leading zeros; one digit is left.
Trim(a) ==
    LET nonzero == {i \in DOMAIN a : a[i] # 0}
    IN  IF nonzero = {} THEN Zero
        ELSE SubSeq(a, 1, CHOOSE i \in nonzero : \A j \in nonzero : j <= i)

Less(a, b) ==
    IF Len(a) # Len(b) THEN Len(a) < Len(b)
    ELSE \E i \in DOMAIN a : a[i] < b[i] /\ \A j \in i + 1 .. Len(a) : a[j] = b[j]

\* The carries t of a list of sums, one for each digit.
Carries(sums) == FoldLeft(LAMBDA t, s : Append(t, (Last(t) + s) \div 10), <<0>>, sums)

Carry(sums) ==
    LET t == Carries(sums)
    IN  [i \in DOMAIN sums |-> (sums[i] + t[i]) % 10]

Add(a, b) ==
    LET sums == [i \in 1 .. Longer(a, b) |-> Digit(a, i) + Digit(b, i)]
        t == Last(Carries(sums))
    IN  IF t = 0 THEN Carry(sums) ELSE Append(Carry(sums), t)

\* Mutant: the zeros of the leading places are kept.
SubtractOnly(a, b) == Carry([i \in DOMAIN a |-> a[i] - Digit(b, i)])

\* A carry is a borrow here; it throws if a < b, which does not happen.
Subtract(a, b) == Trim(Carry([i \in DOMAIN a |-> a[i] - Digit(b, i)]))

Multiply(a, b) ==
    LET product(k) == FoldFunction(+, 0, [i \in 1 .. k |-> Digit(a, i) * Digit(b, k - i + 1)])
    IN  IF a = Zero \/ b = Zero THEN Zero
        ELSE Trim(Carry([k \in 1 .. Len(a) + Len(b) |-> product(k)]))

\* One step of the long division: what is left, and the digits of the quotient.
\* The leading digits of a that are less than b make no digit.
BringDown(b, s, digit) ==
    LET t == Add(Multiply(s.rest, <<0, 1>>), <<digit>>)
        cc == CHOOSE c \in 0 .. 9 : /\ ~Less(t, Multiply(<<c>>, b))
                                    /\ c = 9 \/ Less(t, Multiply(<<c + 1>>, b))
    IN  IF s.quotient = << >> /\ Less(t, b)
        THEN [s EXCEPT !.rest = t]
        ELSE [rest |-> Subtract(t, Multiply(<<cc>>, b)), quotient |-> <<cc>> \o s.quotient]

Divide(a, b) ==
    IF Less(a, b) THEN Zero
    ELSE IF a = b THEN One
    ELSE FoldLeft(LAMBDA s, digit : BringDown(b, s, digit),
                  [rest |-> Zero, quotient |-> << >>], Reverse(a)).quotient

-------------------------------------------------------------------------------
(* Answer *)

\* The input is a number; anything else throws.
Inputs == UNION {[1 .. n -> 0 .. 9] : n \in 1 .. MaxDigits}

Init ==
    /\ target = << >>
    /\ y = Zero
    /\ left = Zero
    /\ right = Zero
    /\ answer = Zero
    /\ step = "start"

Start(digits) ==
    /\ step = "start"
    /\ target' = digits
    /\ y' = Add(Multiply(Eight, digits), One)
    /\ left' = Zero
    /\ right' = Add(y', One)
    /\ step' = "search"
    /\ UNCHANGED answer

\* The loop of SqrRoot goes on while L != R - 1, compared digit by digit.
Bisect ==
    LET middle == Divide(Add(left, right), Two)
    IN  /\ step = "search"
        /\ left # Subtract(right, One)
        /\ IF ~Less(y, Multiply(middle, middle))
           THEN left' = middle /\ UNCHANGED right
           ELSE right' = middle /\ UNCHANGED left
        /\ UNCHANGED <<target, y, answer, step>>

Finish ==
    /\ step = "search"
    /\ left = Subtract(right, One)
    /\ answer' = Divide(Subtract(left, One), Two)
    /\ step' = "done"
    /\ UNCHANGED <<target, y, left, right>>

Stopped == step = "done" /\ UNCHANGED vars

Next == (\E digits \in Inputs : Start(digits)) \/ Bisect \/ Finish \/ Stopped

Spec == Init /\ [][Next]_vars

-------------------------------------------------------------------------------
(* Properties *)

Value(a) == FoldRight(LAMBDA digit, n : 10 * n + digit, a, 0)
Canonical(a) == a = Zero \/ (a # << >> /\ Last(a) # 0)

\* The search encloses the root of 8 * target + 1, and the answer is the number
\* of terms 1 + 2 + ... that fit into the target, also if the input begins with
\* zeros.  The loop, which compares digits, ends when left and right are
\* neighbours: no operation leaves a zero in front.
TermsFound ==
    /\ step # "start" =>
        /\ \A a \in {y, left, right, answer} : Canonical(a)
        /\ Value(left) * Value(left) <= Value(y)
        /\ Value(y) < Value(right) * Value(right)
        /\ Value(right) = Value(left) + 1 => left = Subtract(right, One)
    /\ step = "done" =>
        LET n == Value(answer)
        IN  n * (n + 1) <= 2 * Value(target) /\ 2 * Value(target) < (n + 1) * (n + 2)
===============================================================================
