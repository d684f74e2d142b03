------------------------------- MODULE Sha256 --------------------------------
(* src/src/common/sha256.c: a message given to the digest in any parts.  The
   compression of a block is a function of the blocks so far that no two
   sequences of blocks share, so the digest is the sequence itself; a byte of
   the message is its number in it, and what the block held before stays in it.

   The CommonCrypto branch (36-63) only hands the message over to a library. *)
EXTENDS Integers, Sequences

CONSTANTS BlockSize,    \* 64
          LengthAt,     \* where the length of the message goes in the last block, 56
          MaxMessage    \* bound on the bytes of the message

ASSUME Sha256Assumption == LengthAt \in Nat /\ LengthAt < BlockSize /\ BlockSize \in Nat /\ MaxMessage \in Nat

VARIABLE digest   \* the context: blocks that were compressed, the open block and its bytes

Unused == 0
Zero   == -1
Marker == -2
Bits(total) == -8 * total - 3    \* one byte of the length; all of them are given

Context == [total |-> 0, block |-> [k \in 1..BlockSize |-> Unused], size |-> 0, done |-> <<>>, final |-> FALSE]

Transform(c) == [c EXCEPT !.done = Append(@, c.block), !.size = 0]
Put(c, bytes) ==
  [c EXCEPT !.block = [k \in 1..BlockSize |-> IF k \in c.size + 1 .. c.size + Len(bytes)
                                              THEN bytes[k - c.size] ELSE @[k]],
            !.size = @ + Len(bytes)]

\* common_sha256_update: as much as the block takes, again and again.
Fed(c, byte) ==
  LET more == Put(c, <<byte>>) IN IF more.size = BlockSize THEN Transform(more) ELSE more
Feeding(context, input) ==
  LET Loop[n \in 0 .. Len(input)] ==
        IF n = 0 THEN [context EXCEPT !.total = @ + Len(input)] ELSE Fed(Loop[n-1], input[n])
  IN Loop
Updated(context, input) == Feeding(context, input)[Len(input)]

Fill(c, byte, upTo) == Put(c, [k \in 1 .. upTo - c.size |-> byte])

\* common_sha256_final.
FinalTight(context) ==
  LET marked == Put(context, <<Marker>>)
      c == IF marked.size >= LengthAt THEN Transform(Fill(marked, Zero, BlockSize)) ELSE marked
  IN Transform(Fill(Fill(c, Zero, LengthAt), Bits(context.total), BlockSize))
FinalUnfilled(context) ==
  LET marked == Put(context, <<Marker>>)
      c == IF marked.size > LengthAt THEN Transform(marked) ELSE marked
  IN Transform(Fill(Fill(c, Zero, LengthAt), Bits(context.total), BlockSize))
Finished(context) ==
  LET marked == Put(context, <<Marker>>)
      c == IF marked.size > LengthAt THEN Transform(Fill(marked, Zero, BlockSize)) ELSE marked
  IN Transform(Fill(Fill(c, Zero, LengthAt), Bits(context.total), BlockSize))

----------------------------------------------------------------------------
ShaInit == digest = Context

ShaUpdate(n) ==
  /\ ~digest.final /\ digest.total + n <= MaxMessage
  /\ digest' = Updated(digest, [k \in 1..n |-> digest.total + k])

ShaFinal == ~digest.final /\ digest' = [Finished(digest) EXCEPT !.final = TRUE]

ShaNext == (\E n \in 0..MaxMessage : ShaUpdate(n)) \/ ShaFinal

ShaSpec == ShaInit /\ [][ShaNext]_digest

----------------------------------------------------------------------------
(* The padded message: a marker, zeros and the length, of whole blocks. *)
Zeros(n) == CHOOSE z \in 0..BlockSize - 1 :
  \E blocks \in 1..n + 2 : n + 1 + z + (BlockSize - LengthAt) = blocks * BlockSize
Padded(n) ==
  [k \in 1..n |-> k] \o <<Marker>> \o [k \in 1..Zeros(n) |-> Zero]
     \o [k \in 1 .. BlockSize - LengthAt |-> Bits(n)]

(* However a message is divided into updates, the digest is of all of it and of
   nothing that the block held before, padded as the standard says. *)
Taken(c) == Len(c.done) * BlockSize + c.size
Agrees(c, bytes) ==
  /\ \A i \in DOMAIN c.done, k \in 1..BlockSize : c.done[i][k] = bytes[(i - 1) * BlockSize + k]
  /\ \A k \in 1..c.size : c.block[k] = bytes[Len(c.done) * BlockSize + k]
DigestOfTheWhole ==
  LET expected == IF digest.final THEN Padded(digest.total) ELSE [k \in 1..digest.total |-> k]
  IN Taken(digest) = Len(expected) /\ Agrees(digest, expected)
=============================================================================
