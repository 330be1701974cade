----------------------------- MODULE ReportBody -----------------------------
(***************************************************************************)
(* How long the texts get that Reporter::report builds in m_buffer and in  *)
(* its local buffer, both of MAX_BUFFER_LEN bytes and neither checked: the *)
(* records, the closing brackets, the cipher text behind its iv, base64,   *)
(* the body, and the text that is signed.                                  *)
(***************************************************************************)
EXTENDS Integers

MAX_BUFFER_LEN  == 30720
MAX_COLLECTIONS == 128

\* The largest lengths: int, long long, si, di and pi with the two bytes more
\* that their arrays have, one of them for the '\0'; the configured key and ids.
IntLen == 11
TimeLen == 20
SiLen == 33
DiLen == 33
PiLen == 39
KeyLen == 32
IdLen == 32

\* pi_fmt and di_fmt: 52 characters of their own, a number up to 128, and one
\* of pi and di, the longer of which is pi.
RecordMin  == 52 + 1 + 0 + 1 + 1 + 1 + 0
BothRecord ==                                  \* mutant: pi and di
  52 + 3 + SiLen + IntLen + TimeLen + IntLen + PiLen + DiLen
RecordMax  == 52 + 3 + SiLen + IntLen + TimeLen + IntLen + PiLen

Base64(n) == 4 * ((n + 2) \div 3)

\* What is written to either buffer, in order, with the '\0' where there is one,
\* for records of the given length in all; the last comma gives way to "]}".
\* The cipher text is as long as its text, and up to 16 bytes more with a tag.
Plain(total)   == 16 + total - 1 + 2
Cipher(total)  == 12 + Plain(total) + 16
Encoded(total) == Base64(Cipher(total))
Body(total)    == 9 + Encoded(total) + 2
Signed(total)  == KeyLen + 5 + IdLen + 5 + IdLen + 10 + TimeLen + Body(total)

Fits(total) ==
  /\ Plain(total) + 1 <= MAX_BUFFER_LEN
  /\ Cipher(total) <= MAX_BUFFER_LEN
  /\ Encoded(total) + 1 <= MAX_BUFFER_LEN
  /\ Body(total) + 1 <= MAX_BUFFER_LEN
  /\ Signed(total) + 1 <= MAX_BUFFER_LEN

\* The lengths that the records of a collection of some size can have in all.
Totals(size) == size * RecordMin .. size * RecordMax
=============================================================================
