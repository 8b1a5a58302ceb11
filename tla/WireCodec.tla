------------------------------ MODULE WireCodec ------------------------------
(***************************************************************************)
(* The string helpers of network::protocol (the end of                    *)
(* src/src/common/network/interpolator.hpp): copy_string writes a          *)
(* std::string into a fixed std::array<char, N> field of a packet struct,  *)
(* extract_string reads one back.  A string is a sequence of bytes; an     *)
(* array of N chars is a sequence of length N.  Every packet struct is     *)
(* value-initialised ({}), so the arrays copy_string writes into start as  *)
(* all zeros.                                                              *)
(*                                                                         *)
(* CString is the reference: what a C reader of the array sees, the       *)
(* longest prefix of the string that holds no NUL and leaves room for the  *)
(* terminator.                                                             *)
(***************************************************************************)
EXTENDS Integers, Sequences, SequencesExt

\* A value-initialised std::array<char, N>.
ZeroArray(n) == [i \in 1..n |-> 0]

\* Mutant: min(src.size(), N) bytes are copied, and the NUL is written
\* only when there is room left for it.
CopyStringFull(dest, src) ==
    LET n   == Len(dest)
        len == IF Len(src) < n THEN Len(src) ELSE n
    IN  [i \in 1..n |-> IF i <= len THEN src[i]
                        ELSE IF i = len + 1 THEN 0 ELSE dest[i]]

\* copy_string: copy min(src.size(), N - 1) bytes, then a NUL right after
\* them; the bytes past the NUL keep what dest held.
CopyString(dest, src) ==
    LET n   == Len(dest)
        len == IF Len(src) < n - 1 THEN Len(src) ELSE n - 1
    IN  [i \in 1..n |-> IF i <= len THEN src[i]
                        ELSE IF i = len + 1 THEN 0 ELSE dest[i]]

\* strnlen(src.data(), N): the index of the first NUL, or N when none.
Strnlen(arr) ==
    LET k == SelectInSeq(arr, LAMBDA c : c = 0)
    IN  IF k = 0 THEN Len(arr) ELSE k - 1

\* Mutant: std::string(src.data(), N), without strnlen.
ExtractStringWhole(arr) == arr

\* extract_string: the bytes before the first NUL, at most N of them.
ExtractString(arr) == SubSeq(arr, 1, Strnlen(arr))

\* The reference reading of string s through an N-char field.
CString(s, n) ==
    LET ok(p) == Len(p) < n /\ \A i \in 1..Len(p) : p[i] # 0
    IN  CHOOSE p \in Prefixes(s) :
            ok(p) /\ \A q \in Prefixes(s) : ok(q) => Len(q) <= Len(p)

=============================================================================
