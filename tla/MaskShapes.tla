----------------------------- MODULE MaskShapes -----------------------------
(***************************************************************************)
(* What the masks of masker.go keep of a value, the Luhn test that decides *)
(* whether digits are a card number, and the itoa of stack.go.             *)
(*                                                                         *)
(* A masked string is a sequence over the positions of the original, 0 for *)
(* every character that is not taken from it; a label is <<>>.  Lengths    *)
(* are in the unit each function counts: bytes, digits or runes.           *)
(***************************************************************************)
EXTENDS Integers, Sequences, FiniteSets, SequencesExt

CONSTANTS
    MaxLength,            \* bound: lengths of values
    MaxPart,              \* bound: lengths of the parts of a JWT
    CardMin, CardMax,     \* digits of a card number (13 and 19)
    Digits,               \* the digits that occur
    IntMin                \* the least int; the greatest is -IntMin - 1

ASSUME ShapeConstants ==
    /\ CardMin \in Nat /\ CardMax \in Nat /\ 2 <= CardMin
    /\ MaxLength \in Nat /\ MaxPart \in Nat
    /\ Digits \subseteq 0 .. 9
    /\ IntMin \in Int /\ IntMin < 0

VARIABLES
    call,         \* the function called and its argument
    result        \* what it returned, once it has

shapeVars == <<call, result>>

Pending == [kind |-> "pending"]

Whole(n) == [i \in 1 .. n |-> i]
Stars(n) == [i \in 1 .. n |-> 0]
First(n, k) == SubSeq(Whole(n), 1, k)
Last_(n, k) == SubSeq(Whole(n), n - k + 1, n)

-----------------------------------------------------------------------------

maskPhone(n) == IF n < 8 THEN <<>> ELSE First(n, 3) \o Stars(n - 6) \o Last_(n, 3)

\* Mutant: the last four digits of anything that has four.
maskCardShort(n) ==
    IF n < 4 THEN <<>> ELSE First(n, 4) \o Stars(8) \o Last_(n, 4)

maskCard(n) == IF n < 12 THEN <<>> ELSE First(n, 4) \o Stars(8) \o Last_(n, 4)

maskIBAN(n) == IF n < 8 THEN <<>> ELSE First(n, 4) \o Stars(n - 8) \o Last_(n, 4)

maskPartial(n) ==
    LET keep == IF n > 12 THEN 3 ELSE 2
    IN  IF n <= 4 THEN Stars(n) ELSE First(n, keep) \o Stars(n - 2 * keep) \o Last_(n, keep)

\* user of n bytes before the one @; user[:1] of an empty user is out of range.
maskEmail(n) ==
    IF n = 0 THEN [kind |-> "panic"]
    ELSE [kind |-> "shape", shape |-> First(n, IF n <= 2 THEN 1 ELSE 2)]

\* p: the lengths of the three parts.  Of the first 8 bytes are kept, of the
\* last 6; positions are counted without the dots.
maskJWT(p) ==
    LET all == Whole(p[1] + p[2] + p[3])
        last == p[1] + p[2]
    IN  SubSeq(all, 1, Min({p[1], 8})) \o Stars(3)
            \o SubSeq(all, last + 1, last + Min({p[3], 6}))

\* Three parts with the alphabet and the first characters of a JWT.
looksLikeJWT(p) == \A i \in 1 .. 3 : p[i] >= 8

\* Letters and digits with the two letters of a country in front.
looksLikeIBAN(n) == n \in 15 .. 34

\* CorporateMasker.Mask of such a value under MaskSecret.
SecretJWT(p) == IF looksLikeJWT(p) THEN maskJWT(p) ELSE <<>>
SecretIBAN(n) == IF looksLikeIBAN(n) THEN maskIBAN(n) ELSE <<>>

Shape(s) == [kind |-> "shape", shape |-> s]

\* Mutant: a doubled digit above 9 keeps its last digit only.
DoubledModTen(n) == (2 * n) % 10

Doubled(n) == IF 2 * n > 9 THEN 2 * n - 9 ELSE 2 * n

\* luhnOK: from the last digit on, every second one doubled.
luhnOK(d) ==
    LET sum[k \in 0 .. Len(d)] ==
            IF k = 0 THEN 0
            ELSE LET n == d[Len(d) - k + 1]
                 IN  sum[k - 1] + (IF k % 2 = 0 THEN Doubled(n) ELSE n)
    IN  Len(d) \in CardMin .. CardMax /\ sum[Len(d)] % 10 = 0

\* The loop of itoa for n >= 0; each digit goes before those written.
DigitsOf(n) ==
    LET from[k \in 0 .. -IntMin] == IF k = 0 THEN <<>> ELSE Append(from[k \div 10], k % 10)
    IN  from[n]

\* Negating the least int gives it back, and the loop does not start.
itoa(n) ==
    IF n = 0 THEN [kind |-> "digits", minus |-> FALSE, digits |-> <<0>>]
    ELSE [kind |-> "digits", minus |-> n < 0,
          digits |-> IF n = IntMin THEN <<>> ELSE DigitsOf(IF n < 0 THEN -n ELSE n)]

Numbers == UNION {[1 .. n -> Digits] : n \in CardMin - 1 .. CardMax + 1}

Calls ==
    [fn : {"phone", "card", "IBAN", "partial", "email", "secretIBAN"}, n : 0 .. MaxLength]
    \cup [fn : {"JWT", "secretJWT"}, p : [1 .. 3 -> 0 .. MaxPart]]
    \cup [fn : {"luhn"}, d : Numbers]
    \cup [fn : {"itoa"}, i : IntMin .. -IntMin - 1]

ShapesInit == call \in Calls /\ result = Pending

Return ==
    /\ result = Pending
    /\ result' = CASE call.fn = "phone" -> Shape(maskPhone(call.n))
                   [] call.fn = "card" -> Shape(maskCard(call.n))
                   [] call.fn = "IBAN" -> Shape(maskIBAN(call.n))
                   [] call.fn = "partial" -> Shape(maskPartial(call.n))
                   [] call.fn = "email" -> maskEmail(call.n)
                   [] call.fn = "JWT" -> Shape(maskJWT(call.p))
                   [] call.fn = "secretJWT" -> Shape(SecretJWT(call.p))
                   [] call.fn = "secretIBAN" -> Shape(SecretIBAN(call.n))
                   [] call.fn = "luhn" -> [kind |-> "answer", ok |-> luhnOK(call.d)]
                   [] call.fn = "itoa" -> itoa(call.i)
    /\ UNCHANGED call

ShapesSpec == ShapesInit /\ [][Return]_shapeVars

-----------------------------------------------------------------------------

ShownIn(s) == {i \in ToSet(s) : i # 0}

\* The number a sequence of digits is written for.
ValueOf(digits) ==
    LET upTo[k \in 0 .. Len(digits)] == IF k = 0 THEN 0 ELSE 10 * upTo[k - 1] + digits[k]
    IN  upTo[Len(digits)]

\* A value of n characters, some not shown, at most eight shown, in order.
HidesSome(s, n) ==
    /\ ShownIn(s) # 1 .. n
    /\ Cardinality(ShownIn(s)) <= 8
    /\ \A i, j \in DOMAIN s : (i < j /\ {s[i], s[j]} \subseteq ShownIn(s)) => s[i] < s[j]

\* p: the lengths of a JWT's parts; the second is not shown, of the others the
\* beginning.
HidesParts(s, p) ==
    /\ ShownIn(s) \cap (p[1] + 1 .. p[1] + p[2]) = {}
    /\ ShownIn(s) \cap (1 .. p[1]) \subseteq 1 .. 8
    /\ Cardinality({i \in ShownIn(s) : i > p[1] + p[2]}) <= 6

(***************************************************************************)
(* A mask asked for by its name hides (masker.go maskPhone, maskCard,      *)
(* maskPartial, maskIBAN, maskJWT).  Of a value some character is missing, *)
(* at most eight are shown, and those in their order; one of eight bytes   *)
(* masked as an IBAN is the exception and stays whole.  Of a JWT the       *)
(* second part is not shown, of the first eight bytes are, of the third    *)
(* six: a short first or third part is shown whole.                        *)
(***************************************************************************)
MasksHide ==
    result.kind = "shape" =>
        /\ (call.fn \in {"phone", "card", "partial"} /\ call.n > 0)
               => HidesSome(result.shape, call.n)
        /\ (call.fn = "IBAN" /\ call.n \notin {0, 8}) => HidesSome(result.shape, call.n)
        /\ call.fn = "JWT" => HidesParts(result.shape, call.p)

(***************************************************************************)
(* masker.go says of MaskSecret that it "completely hides the value as     *)
(* [SECRET]".  Under a CorporateMasker it does not: a value that is found  *)
(* to be a JWT or an IBAN is masked as one and partly shown.               *)
(***************************************************************************)
SecretHidesCompletely ==
    (result.kind = "shape" /\ call.fn \in {"secretJWT", "secretIBAN"})
        => ShownIn(result.shape) = {}

(***************************************************************************)
(* Digits are reckoned right.  No number that passes luhnOK (masker.go)    *)
(* passes it with one digit changed or with two neighbours swapped, 0 and  *)
(* 9 excepted: the errors the check digit is for.  itoa (stack.go) writes  *)
(* every int but the least as its decimal digits, without leading zeros,   *)
(* in no more bytes than its buffer holds.                                 *)
(***************************************************************************)
DigitsRight ==
    /\ (result.kind = "answer" /\ result.ok) =>
           /\ \A i \in DOMAIN call.d : \A x \in Digits \ {call.d[i]} :
                  ~luhnOK([call.d EXCEPT ![i] = x])
           /\ \A i \in 1 .. Len(call.d) - 1 :
                  (call.d[i] # call.d[i + 1] /\ {call.d[i], call.d[i + 1]} # {0, 9})
                      => ~luhnOK([call.d EXCEPT ![i] = call.d[i + 1], ![i + 1] = call.d[i]])
    /\ (result.kind = "digits" /\ call.i # IntMin) =>
           /\ ValueOf(result.digits) = IF call.i < 0 THEN -call.i ELSE call.i
           /\ result.minus = (call.i < 0)
           /\ Len(result.digits) > 1 => result.digits[1] # 0
           /\ Len(result.digits) <= Len(DigitsOf(-IntMin))

=============================================================================
