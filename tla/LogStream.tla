----------------------------- MODULE LogStream ------------------------------
(***************************************************************************)
(* ideal::LogStream: conversions of numbers and the fixed buffer a log     *)
(* line is built in.  A converted number is the sequence of its digits,    *)
(* most significant first; Minus stands for the sign.                      *)
(***************************************************************************)
EXTENDS Integers, Sequences

Minus == -1
Magnitude(v) == IF v < 0 THEN -v ELSE v

\* The do-while loop of convert() and convertHex(), and std::reverse().
Digits(v, base) ==
  LET d[i \in Nat] == IF i < base THEN <<i>> ELSE d[i \div base] \o <<i % base>>
  IN d[v]

\* zero[lsd] maps a negative remainder to the digit of its magnitude.
Convert(v) == (IF v < 0 THEN <<Minus>> ELSE <<>>) \o Digits(Magnitude(v), 10)
ConvertHex(v) == Digits(v, 16)

\* FixedBuffer::append(): a piece that does not fit leaves no trace.
FixedAppend(size, length, n) == IF size - length > n THEN length + n ELSE length

\* formatInteger(), operator<<(double) and operator<<(const void*) test for
\* numeric (kMaxNumericSize, 32) bytes, whatever the length of the number.
FormatNumber(size, numeric, length, n) == IF size - length >= numeric THEN length + n ELSE length

(***************************************************************************)
(* References                                                              *)
(***************************************************************************)

Value(ds, base) ==
  LET val[i \in 0..Len(ds)] == IF i = 0 THEN 0 ELSE val[i - 1] * base + ds[i]
  IN val[Len(ds)]
ValueOf(ds) == IF ds[1] = Minus THEN -Value(Tail(ds), 10) ELSE Value(ds, 10)

Canonical(ds) == ds # <<>> /\ (Len(ds) > 1 => ds[1] # 0)

\* A number reads back as itself, is not empty and has no leading zero.
NumbersReadBack(values) ==
  \A v \in values :
    /\ ValueOf(Convert(v)) = v
    /\ Canonical(Digits(Magnitude(v), 10)) /\ Canonical(ConvertHex(Magnitude(v)))
    /\ Value(ConvertHex(Magnitude(v)), 16) = Magnitude(v)

\* No sequence of pieces, of which numbers are shorter than numeric, makes a
\* line reach the end of the buffer: one byte is always left.
LinesFit(size, numeric) ==
  \A length \in 0..size - 1, n \in 0..size :
    /\ FixedAppend(size, length, n) < size
    /\ n < numeric => FormatNumber(size, numeric, length, n) < size

=============================================================================
