-------------------------------- MODULE Lib --------------------------------
(***************************************************************************)
(* The algorithms of src/Kernel/Sources/lib as operators: the 64-bit       *)
(* divisions the compiler calls, number formatting, the search in memory,  *)
(* overlapping copies and the bounded string functions.  Numbers have      *)
(* 4 * HALF_BITS bits (64 in the code), a word half of that; characters    *)
(* are positive numbers, and a string is the sequence before its NUL.      *)
(* Bodies follow the loops of the code; the references they are compared   *)
(* with are at the end.                                                    *)
(***************************************************************************)
EXTENDS Integers, Sequences, SequencesExt

CONSTANT HALF_BITS

ASSUME HalfBitsAssumption == HALF_BITS \in Nat \ {0}

B == 2 ^ HALF_BITS  \* digit base
Word == B * B       \* values of a uint32_t
Quad == Word * Word \* values of a uint64_t

Down(n) == [i \in 1 .. n |-> n + 1 - i]
-----------------------------------------------------------------------------
\* __udivmoddi4: shift and subtract; a zero divisor raises the exception instead
RECURSIVE Justify(_, _)
Justify(den, qbit) ==
    IF den < Quad \div 2 THEN Justify(den * 2, qbit * 2) ELSE [den |-> den, qbit |-> qbit]

RECURSIVE ShiftSubtract(_, _, _, _)
ShiftSubtract(num, den, qbit, quot) ==
    IF qbit = 0 THEN [quot |-> quot, rem |-> num]
    ELSE IF den <= num
         THEN ShiftSubtract(num - den, den \div 2, qbit \div 2, quot + qbit)
         ELSE ShiftSubtract(num, den \div 2, qbit \div 2, quot)

__udivmoddi4(num, den) ==
    LET j == Justify(den, 1) IN ShiftSubtract(num, j.den, j.qbit, 0)
-----------------------------------------------------------------------------
\* __qdivrem: Knuth's Program D on four digits in base B
Digit(q, i) == (q \div B ^ (4 - i)) % B
Significant(q) == Cardinality({i \in 1 .. 4 : q >= B ^ (4 - i)})
Value(digits) == FoldLeft(LAMBDA acc, d : acc * B + d, 0, digits)

\* the leading digits of a number, after the zeros the code skips
Digits(q) == [i \in 1 .. Significant(q) |-> Digit(q, 4 - Significant(q) + i)]

\* a divisor of one digit: the quotient digit by digit, "per exercise 16"
ShortDivision(uq, t) ==
    LET Step(acc, i) == LET rbj == acc.r * B + Digit(uq, i)
                        IN [q |-> Append(acc.q, rbj \div t), r |-> rbj % t]
        end == FoldLeft(Step, [q |-> <<>>, r |-> 0], <<1, 2, 3, 4>>)
    IN [quot |-> Value(end.q), rem |-> end.r]

\* shl: a number left by sh bits, the bits that fall out ignored
Shl(p, first, last, sh) ==
    [i \in first .. last |->
        IF i < last THEN ((p[i] * 2 ^ sh) % B) + p[i + 1] \div 2 ^ (HALF_BITS - sh)
        ELSE (p[i] * 2 ^ sh) % B]

\* D1
RECURSIVE Shift(_)
Shift(t) == IF t < B \div 2 THEN 1 + Shift(t * 2) ELSE 0

\* D3: the loop that lowers qhat, entered at its test or at qhat_too_big
RECURSIVE Lower(_, _, _, _, _)
Lower(qhat, rhat, v1, v2, uj2) ==
    IF v2 * qhat > rhat * B + uj2
    THEN IF rhat + v1 >= B THEN qhat - 1 ELSE Lower(qhat - 1, rhat + v1, v1, v2, uj2)
    ELSE qhat

Qhat(uj0, uj1, uj2, v1, v2) ==
    IF uj0 = v1
    THEN IF uj1 + v1 >= B THEN B - 1 ELSE Lower(B - 1, uj1 + v1, v1, v2, uj2)
    ELSE Lower((uj0 * B + uj1) \div v1, (uj0 * B + uj1) % v1, v1, v2, uj2)

\* D4: u[j..j+n] less qhat * v, with the borrow in t
Subtract(u, v, n, j, qhat) ==
    LET Step(acc, i) ==
            LET t == (acc.u[i + j] - v[i] * qhat - acc.t) % Word
            IN [u |-> [acc.u EXCEPT ![i + j] = t % B], t |-> (B - t \div B) % B]
        end == FoldLeft(Step, [u |-> u, t |-> 0], Down(n))
        t == (end.u[j] - end.t) % Word
    IN [u |-> [end.u EXCEPT ![j] = t % B], borrow |-> t \div B # 0]

\* D6
AddBack(u, v, n, j) ==
    LET Step(acc, i) == LET t == acc.t + acc.u[i + j] + v[i]
                        IN [u |-> [acc.u EXCEPT ![i + j] = t % B], t |-> t \div B]
        end == FoldLeft(Step, [u |-> u, t |-> 0], Down(n))
    IN [end.u EXCEPT ![j] = (@ + end.t) % B]

\* Mutant: step D6 left out
QuotientUncorrected(acc, v, n, j) ==
    LET qhat == Qhat(acc.u[j], acc.u[j + 1], acc.u[j + 2], v[1], v[2])
    IN [u |-> Subtract(acc.u, v, n, j, qhat).u, q |-> Append(acc.q, qhat)]

QuotientDigit(acc, v, n, j) ==
    LET qhat == Qhat(acc.u[j], acc.u[j + 1], acc.u[j + 2], v[1], v[2])
        s == Subtract(acc.u, v, n, j, qhat)
    IN IF s.borrow
       THEN [u |-> AddBack(s.u, v, n, j), q |-> Append(acc.q, qhat - 1)]
       ELSE [u |-> s.u, q |-> Append(acc.q, qhat)]

ProgramD(uq, vq) ==
    LET n == Significant(vq)
        m == Significant(uq) - n
        d == Shift(Digits(vq)[1])
        u == Shl([i \in 0 .. m + n |-> IF i = 0 THEN 0 ELSE Digits(uq)[i]], 0, m + n, d)
        v == Shl(Digits(vq), 1, n, d)
        end == FoldLeft(LAMBDA acc, j : QuotientDigit(acc, v, n, j),
                        [u |-> u, q |-> <<>>], [i \in 1 .. m + 1 |-> i - 1])
        \* the remainder is u[m+1..m+n] >> d
        r == [i \in 1 .. n |-> end.u[m + i] \div 2 ^ d +
                               ((end.u[m + i - 1] * 2 ^ (HALF_BITS - d)) % B)]
    IN [quot |-> Value(end.q), rem |-> Value(r)]

__qdivrem(uq, vq) ==
    IF vq = 0 \/ uq < vq THEN [quot |-> 0, rem |-> uq]
    ELSE IF Significant(vq) = 1 THEN ShortDivision(uq, vq)
    ELSE ProgramD(uq, vq)
-----------------------------------------------------------------------------
\* uitoa: digits from the right, then turned round
RECURSIVE Fill(_, _)
Fill(i, base) == IF i = 0 THEN <<>> ELSE <<i % base>> \o Fill(i \div base, base)

uitoa(i, base) == IF i = 0 \/ base > 16 THEN <<0>> ELSE Reverse(Fill(i, base))

\* itoa: a sign in base 10 only; elsewhere the number is taken as unsigned.  A
\* base above 16 leaves the buffer as it is.
itoa(i, base) ==
    IF base > 16 THEN [minus |-> FALSE, digits |-> <<>>]
    ELSE IF base = 10 /\ i < 0 THEN [minus |-> TRUE, digits |-> uitoa(-i, base)]
    ELSE [minus |-> FALSE, digits |-> uitoa(i % Quad, base)]
-----------------------------------------------------------------------------
\* how far to go when the second character differs, and when it agrees
Skips(x) == IF x[1] = x[2] THEN <<2, 1>> ELSE <<1, 2>>

RECURSIVE Scan(_, _, _)
Scan(y, x, j) ==
    LET n == Len(y)
        m == Len(x)
    IN IF j > n - m THEN -1
       ELSE IF x[2] # y[j + 2] THEN Scan(y, x, j + Skips(x)[1])
       ELSE IF SubSeq(x, 3, m) = SubSeq(y, j + 3, j + m) /\ x[1] = y[j + 1] THEN j
       ELSE Scan(y, x, j + Skips(x)[2])

\* memmem: the offset, or -1 for NULL
memmem(y, x) ==
    IF Len(x) > Len(y) \/ x = <<>> \/ y = <<>> THEN -1
    ELSE IF Len(x) = 1
         THEN IF \E i \in 1 .. Len(y) : y[i] = x[1] THEN SelectInSeq(y, LAMBDA c : c = x[1]) - 1
              ELSE -1
    ELSE Scan(y, x, 0)

\* memmove: a byte at a time, forwards or backwards
memmove(mem, dst, src, n) ==
    LET Copy(acc, i) == [acc EXCEPT ![dst + i] = acc[src + i]]
        up == [i \in 1 .. n |-> i - 1]
    IN FoldLeft(Copy, mem, IF dst < src THEN up ELSE Reverse(up))

\* strlcat: what dst holds afterwards, and the length it tried to make
strlcat(dst, src, size) ==
    LET Step(acc, ch) == [out |-> IF acc.bytes + 1 < size THEN Append(acc.out, ch) ELSE acc.out,
                          bytes |-> acc.bytes + 1]
    IN IF Len(dst) >= size THEN [out |-> dst, bytes |-> size + Len(src)]
       ELSE FoldLeft(Step, [out |-> dst, bytes |-> Len(dst)], src)

\* __strxspn with parity 1 (strcspn): NUL, and the characters of map, stop it
RECURSIVE strcspn(_, _)
strcspn(s, map) ==
    IF s = <<>> THEN 0
    ELSE IF \E i \in 1 .. Len(map) : map[i] = s[1] THEN 0
    ELSE 1 + strcspn(Tail(s), map)

\* strsep until it returns NULL: the tokens of s
RECURSIVE strsep(_, _)
strsep(s, delim) ==
    LET n == strcspn(s, delim) IN
    IF n = Len(s) THEN <<s>>
    ELSE <<SubSeq(s, 1, n)>> \o strsep(SubSeq(s, n + 2, Len(s)), delim)
-----------------------------------------------------------------------------
\* References

\* Both divisions of 64-bit numbers by 32-bit means give the quotient and the
\* remainder, including the rare borrow of step D6; __qdivrem lets division by
\* zero pass with quotient 0.
DivisionRight(u, v) ==
    LET exact == [quot |-> u \div v, rem |-> u % v] IN
    IF v = 0 THEN __qdivrem(u, v) = [quot |-> 0, rem |-> u]
    ELSE __qdivrem(u, v) = exact /\ __udivmoddi4(u, v) = exact

\* The digits of uitoa and itoa are those of the number, without leading zeros.
FormatRight(i, base) ==
    LET t == itoa(i, base)
        v == FoldLeft(LAMBDA acc, d : acc * base + d, 0, t.digits)
    IN /\ (IF t.minus THEN -v ELSE v) = IF base = 10 THEN i ELSE i % Quad
       /\ Len(t.digits) > 1 => t.digits[1] # 0

\* memmem finds the first occurrence, and NULL only when there is none.
SearchRight(y, x) ==
    LET Occurs(j) == SubSeq(y, j + 1, j + Len(x)) = x
        places == {j \in 0 .. Len(y) - Len(x) : Occurs(j)}
    IN memmem(y, x) = IF x = <<>> \/ places = {} THEN -1
                      ELSE CHOOSE j \in places : \A k \in places : j <= k

\* memmove leaves at dst what was at src, however the areas overlap, and the
\* rest of the memory alone.
MoveRight(mem, dst, src, n) ==
    memmove(mem, dst, src, n) =
        [a \in DOMAIN mem |-> IF a \in dst .. dst + n - 1 THEN mem[src + a - dst] ELSE mem[a]]

\* strlcat stays inside of size bytes, NUL included, and returns the length
\* the whole string would have had; strsep returns the pieces between the
\* delimiters, empty ones included.
StringsRight(a, b, size) ==
    /\ LET r == strlcat(a, b, size) IN
       /\ Len(a) < size => r.out = SubSeq(a \o b, 1, IF Len(a \o b) < size THEN Len(a \o b) ELSE size - 1)
       /\ Len(a) >= size => r.out = a
       /\ r.bytes = (IF Len(a) < size THEN Len(a) ELSE size) + Len(b)
    /\ LET t == strsep(a, b) IN
       /\ \A i \in 1 .. Len(t) : Range(t[i]) \cap Range(b) = {}
       /\ FoldLeft(LAMBDA acc, s : acc + Len(s), 0, t) + Len(t) - 1 = Len(a)
       /\ Len(t) - 1 = Cardinality({i \in 1 .. Len(a) : a[i] \in Range(b)})
=============================================================================
