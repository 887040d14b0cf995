----------------------------- MODULE BaseCoder -----------------------------
(***************************************************************************)
(* The binary-to-text codec of the DNS transport (src/src/vpn_dns.C):      *)
(* charmap, basecoder with its length tables, the three codecs, and the    *)
(* header codec.  A byte string is read as a number in base 256 and        *)
(* written in the base of an alphabet, in a number of symbols that the     *)
(* number of bytes determines.  Characters are their ASCII codes.          *)
(***************************************************************************)
EXTENDS Naturals, Sequences, SequencesExt

CONSTANT MAX_DEC_LEN        \* longest byte string the tables cover

MAX_ENC_LEN == MAX_DEC_LEN * 2
HDRSIZE     == 5
SEQNO_MASK  == 16383
INVALID     == 255

Octet == 0 .. 255

is_uc(c) == 65 <= c /\ c <= 90
is_lc(c) == 97 <= c /\ c <= 122

\* The letter of the other case ('a' - 'A' = 32); other characters have none.
Alias(c) == IF is_uc(c) THEN c + 32 ELSE IF is_lc(c) THEN c - 32 ELSE c

(***************************************************************************)
(* charmap::charmap.  The decode table is filled in the order of the       *)
(* alphabet: a character takes its slot whatever was there, and gives the  *)
(* slot of its other case the same index if that slot is still free.  So a *)
(* character of the alphabet decodes to its last position, and a letter    *)
(* outside it to the first position that holds its other case.             *)
(***************************************************************************)
Zeros(n) == [i \in 1 .. n |-> 0]

charmap(cmap) ==
    LET own(c)   == SelectLastInSeq(cmap, LAMBDA e : e = c)
        alias(c) == SelectInSeq(cmap, LAMBDA e : Alias(e) = c)
    IN  [size   |-> Len(cmap),
         encode |-> [i \in Octet |-> IF i < Len(cmap) THEN cmap[i + 1] ELSE 0],
         decode |-> [c \in Octet |->
                       IF own(c) # 0 THEN own(c) - 1
                       ELSE IF alias(c) # 0 THEN alias(c) - 1 ELSE INVALID]]

(***************************************************************************)
(* mpn_set_str followed by mpn_get_str: the digits of the same number in   *)
(* another base, most significant first.  Numbers are digit strings, so    *)
(* that a negotiation record of 24 bytes is converted at its real width.   *)
(* Repeat applies Step to a member of S until Done or n times; it halves   *)
(* the count, so that n steps nest only log n deep.                        *)
(***************************************************************************)
Repeat(Step(_), Done(_), S, v0, n) ==
    LET iter[k \in 0 .. n, v \in S] ==
            IF k = 0 \/ Done(v) THEN v
            ELSE IF k = 1 THEN Step(v)
            ELSE iter[k - (k \div 2), iter[k \div 2, v]]
    IN  iter[n, v0]

Canonical(s) ==
    LET i == SelectInSeq(s, LAMBDA d : d # 0)
    IN  IF i = 0 THEN <<>> ELSE SubSeq(s, i, Len(s))

\* One division of a digit string by a single digit, as done by hand.
ShortDivide(s, from, by) ==
    LET Digit(d) == LET x == d.r * from + s[Len(d.q) + 1]
                    IN  [q |-> Append(d.q, x \div by), r |-> x % by]
    IN  Repeat(Digit, LAMBDA d : Len(d.q) = Len(s),
               [q : Seq(Octet), r : Octet], [q |-> <<>>, r |-> 0], Len(s))

\* Divisions until nothing is left; a digit of s gives at most two of  to .
Rebase(s, from, to) ==
    LET Emit(c, d) == [n |-> Canonical(d.q), out |-> <<d.r>> \o c.out]
        Divide(c)  == Emit(c, ShortDivide(c.n, from, to))
    IN  Repeat(Divide, LAMBDA c : c.n = <<>>, [n : Seq(Octet), out : Seq(Octet)],
               [n |-> Canonical(s), out |-> <<>>], 2 * Len(s)).out

(***************************************************************************)
(* basecoder::basecoder, the loop over len: enc_len [len] is the number of *)
(* symbols of the largest number of len bytes, dec_len [n] the first len   *)
(* whose enc_len reaches n.  The objects are static, so the entries of     *)
(* dec_len the loop does not reach are 0.  Entry i of an array is element  *)
(* i + 1 of its sequence.                                                  *)
(***************************************************************************)
basecoder(cmap) ==
    LET Enter(t, n) ==
            [enc |-> Append(t.enc, n),
             dec |-> t.dec \o [i \in 1 .. n + 1 - Len(t.dec) |-> Len(t.enc)]]
        Fill(t) ==
            Enter(t, Len(Rebase([i \in 1 .. Len(t.enc) |-> 255], 256, Len(cmap))))
        Tables(t) ==
            [cmap    |-> charmap(cmap),
             enc_len |-> t.enc,
             dec_len |-> t.dec \o Zeros(MAX_ENC_LEN - Len(t.dec))]
    IN  Tables(Repeat(Fill, LAMBDA t : Len(t.enc) = MAX_DEC_LEN,
                      [enc : Seq(Nat), dec : Seq(Nat)],
                      [enc |-> <<>>, dec |-> <<>>], MAX_DEC_LEN))

\* enc_len has MAX_DEC_LEN entries and encode admits len = MAX_DEC_LEN: that
\* read falls on the first entry of dec_len, the next member of the struct.
encode_len(cdc, len) ==
    IF len < MAX_DEC_LEN THEN cdc.enc_len[len + 1]
                         ELSE cdc.dec_len[len - MAX_DEC_LEN + 1]

decode_len(cdc, len) == cdc.dec_len[len + 1]

\* The last n of the digits, or all of them behind zeros to make n.
Fit(digits, n) ==
    IF Len(digits) < n THEN Zeros(n - Len(digits)) \o digits
                       ELSE SubSeq(digits, Len(digits) - n + 1, Len(digits))

Characters(cdc, digits) == [i \in DOMAIN digits |-> cdc.cmap.encode[digits[i]]]

\* Characters outside the alphabet are skipped.
Symbols(cdc, src) ==
    SelectSeq([i \in DOMAIN src |-> cdc.cmap.decode[src[i]]], LAMBDA v : v # INVALID)

\* basecoder::encode: exactly encode_len symbols, the zero symbol in front.
encode(cdc, src) ==
    IF Len(src) = 0 \/ Len(src) > MAX_DEC_LEN THEN <<>>
    ELSE Characters(cdc, Fit(Rebase(src, 256, cdc.cmap.size),
                             encode_len(cdc, Len(src))))

\* Fault: the bytes of the number as they come, without the zero bytes in front.
decode_Unpadded(cdc, src) ==
    IF Len(src) = 0 \/ Len(src) > MAX_ENC_LEN THEN <<>>
    ELSE Rebase(Symbols(cdc, src), cdc.cmap.size, 256)

\* basecoder::decode: the result has decode_len bytes of the symbols found,
\* zero bytes in front or the high bytes cut.
decode(cdc, src) ==
    LET Bytes(symbols) == Fit(Rebase(symbols, cdc.cmap.size, 256),
                              decode_len(cdc, Len(symbols)))
    IN  IF Len(src) = 0 \/ Len(src) > MAX_ENC_LEN THEN <<>>
        ELSE Bytes(Symbols(cdc, src))

\* "dDpPhHzZrR06QqMmjJkKBb34TtSsvVlL81xXaAeEFf92WwGgYyoO57UucCNniI"
cdc62 ==
    basecoder(<<100, 68, 112, 80, 104, 72, 122, 90, 114, 82, 48, 54, 81, 113,
                77, 109, 106, 74, 107, 75, 66, 98, 51, 52, 84, 116, 83, 115,
                118, 86, 108, 76, 56, 49, 120, 88, 97, 65, 101, 69, 70, 102,
                57, 50, 87, 119, 71, 103, 89, 121, 111, 79, 53, 55, 85, 117,
                99, 67, 78, 110, 105, 73>>)

\* "dPhZr06QmJkB34tSvL81xAeF92wGyO57uCnI"
cdc36 ==
    basecoder(<<100, 80, 104, 90, 114, 48, 54, 81, 109, 74, 107, 66, 51, 52,
                116, 83, 118, 76, 56, 49, 120, 65, 101, 70, 57, 50, 119, 71,
                121, 79, 53, 55, 117, 67, 110, 73>>)

\* "dPhZrQmJkBtSvLxAeFwGyOuCnI"
cdc26 ==
    basecoder(<<100, 80, 104, 90, 114, 81, 109, 74, 107, 66, 116, 83, 118, 76,
                120, 65, 101, 70, 119, 71, 121, 79, 117, 67, 110, 73>>)

(***************************************************************************)
(* The header of a stream request: three bytes, five symbols of cdc36.     *)
(***************************************************************************)
\* Fault: the retry count one bit lower, over the top bit of the seqno.
encode_header_Low(clientid, seqno, retry) ==
    LET s == seqno % (SEQNO_MASK + 1)
    IN  encode(cdc36, <<s % 256, ((s \div 256) + ((retry * 32) % 64)) % 256, clientid>>)

\* (seqno >> 8) | (retry << 6) in a u8: the two never share a bit.
encode_header(clientid, seqno, retry) ==
    LET s == seqno % (SEQNO_MASK + 1)
    IN  encode(cdc36, <<s % 256, ((s \div 256) + ((retry * 64) % 256)) % 256, clientid>>)

\* Fault: the sequence number read with the retry bits left in.
decode_header_Unmasked(data, stale) ==
    LET Read(hdr) == [clientid |-> hdr[3], seqno |-> hdr[2] * 256 + hdr[1]]
    IN  Read(decode(cdc36, SubSeq(data, 1, HDRSIZE)) \o <<stale, stale, stale>>)

\* hdr [] is not initialised: bytes that decode does not write keep what was
\* on the stack, here  stale .
decode_header(data, stale) ==
    LET Read(hdr) == [clientid |-> hdr[3],
                      seqno    |-> (hdr[2] * 256 + hdr[1]) % (SEQNO_MASK + 1)]
    IN  Read(decode(cdc36, SubSeq(data, 1, HDRSIZE)) \o <<stale, stale, stale>>)

=============================================================================
