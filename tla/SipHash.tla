------------------------------- MODULE SipHash --------------------------------
(***************************************************************************)
(* SipHash-2-4 of siphash.h.  A uint64_t is the set of its bits that are   *)
(* set, so that ^ is the symmetric difference and overflow falls off the   *)
(* end; bytes and the counter are natural numbers.                         *)
(***************************************************************************)
EXTENDS Naturals, Sequences, SequencesExt

BitsOf(n, from, width) == {from + b : b \in {k \in 0 .. width - 1 : (n \div 2^k) % 2 = 1}}

Xor(x, y) == (x \ y) \union (y \ x)

SIP_ROTL(x, n) == {(b + n) % 64 : b \in x}

(* A bit is carried from the last one below it that both words have, if    *)
(* one of them has every bit in between.                                   *)
Carries(x, y) ==
  {b \in 1 .. 63 : \E g \in x \intersect y :
     g < b /\ \A k \in g + 1 .. b - 1 : k \in x \union y}

Plus(x, y) == Xor(Xor(x, y), Carries(x, y))

(* Eight bytes, or fewer, the first one lowest.                            *)
SIP_U8TO64_LE(bytes) ==
  UNION {BitsOf(bytes[k], 8 * (k - 1), 8) : k \in DOMAIN bytes}

sip_tokey(bytes) == <<SIP_U8TO64_LE(SubSeq(bytes, 1, 8)), SIP_U8TO64_LE(SubSeq(bytes, 9, 16))>>

(* One round on the words v0 .. v3.                                        *)
Round(v) ==
  LET a0 == Plus(v[1], v[2])
      a1 == Xor(SIP_ROTL(v[2], 13), a0)
      a2 == Plus(v[3], v[4])
      a3 == Xor(SIP_ROTL(v[4], 16), a2)
      b0 == Plus(SIP_ROTL(a0, 32), a3)
      b2 == Plus(a2, a1)
  IN  <<b0, Xor(SIP_ROTL(a1, 17), b2), SIP_ROTL(b2, 32), Xor(SIP_ROTL(a3, 21), b0)>>

sip_round(v, rounds) == FoldLeft(LAMBDA w, k : Round(w), v, [k \in 1 .. rounds |-> k])

(* "somepseudorandomlygeneratedbytes"                                      *)
Initial ==
  <<SIP_U8TO64_LE(<<117, 101, 115, 112, 101, 109, 111, 115>>),
    SIP_U8TO64_LE(<<109, 111, 100, 110, 97, 114, 111, 100>>),
    SIP_U8TO64_LE(<<97, 114, 101, 110, 101, 103, 121, 108>>),
    SIP_U8TO64_LE(<<115, 101, 116, 121, 98, 100, 101, 116>>)>>

sip24_init(key) ==
  [v |-> [k \in 1 .. 4 |-> Xor(Initial[k], key[IF k \in {1, 3} THEN 1 ELSE 2])],
   buf |-> <<>>, c |-> 0]

(* A word of the message is mixed in.                                      *)
Mix(v, m) ==
  LET w == sip_round([v EXCEPT ![4] = Xor(@, m)], 2) IN [w EXCEPT ![1] = Xor(@, m)]

(* Mutant: the buffer is not counted when it is used up.                   *)
UncountedUpdate(H, src) ==
  LET Take(h, byte) ==
        LET buf == Append(h.buf, byte)
        IN  IF Len(buf) < 8 THEN [h EXCEPT !.buf = buf]
            ELSE [h EXCEPT !.v = Mix(h.v, SIP_U8TO64_LE(buf)), !.buf = <<>>]
  IN  FoldLeft(Take, H, src)

(* The buffer is filled; each time it is full it is mixed in.              *)
sip24_update(H, src) ==
  LET Take(h, byte) ==
        LET buf == Append(h.buf, byte)
        IN  IF Len(buf) < 8 THEN [h EXCEPT !.buf = buf]
            ELSE [v |-> Mix(h.v, SIP_U8TO64_LE(buf)), buf |-> <<>>, c |-> h.c + 8]
  IN  FoldLeft(Take, H, src)

(* What is left comes with the length, of which one byte remains.          *)
sip24_final(H) ==
  LET b == SIP_U8TO64_LE(H.buf) \union BitsOf(H.c + Len(H.buf), 56, 8)
      w == Mix(H.v, b)
      v == sip_round([w EXCEPT ![3] = Xor(@, 0 .. 7)], 4)
  IN  Xor(Xor(v[1], v[2]), Xor(v[3], v[4]))

siphash24(src, key) == sip24_final(sip24_update(sip24_init(key), src))

(* The first 16 of the 64 vectors of sip24_valid(): the hashes of no byte, *)
(* of 00, of 00 01, ... with the key 00 01 .. 0f.                          *)
vectors == <<
  <<49, 14, 14, 221, 71, 219, 111, 114>>,
  <<253, 103, 220, 147, 197, 57, 248, 116>>,
  <<90, 79, 169, 217, 9, 128, 108, 13>>,
  <<45, 126, 251, 215, 150, 102, 103, 133>>,
  <<183, 135, 113, 39, 224, 148, 39, 207>>,
  <<141, 166, 153, 205, 100, 85, 118, 24>>,
  <<206, 227, 254, 88, 110, 70, 201, 203>>,
  <<55, 209, 1, 139, 245, 0, 2, 171>>,
  <<98, 36, 147, 154, 121, 245, 245, 147>>,
  <<176, 228, 169, 11, 223, 130, 0, 158>>,
  <<243, 185, 221, 148, 197, 187, 93, 122>>,
  <<167, 173, 107, 34, 70, 47, 179, 244>>,
  <<251, 229, 14, 134, 188, 143, 30, 117>>,
  <<144, 61, 132, 192, 39, 86, 234, 20>>,
  <<238, 242, 122, 142, 144, 202, 35, 247>>,
  <<229, 69, 190, 73, 97, 202, 41, 161>>>>

===============================================================================
