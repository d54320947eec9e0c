----------------------------- MODULE NvimBuffer -----------------------------
(***************************************************************************)
(* The cursor arithmetic of src/src/nvim-go/nvim/buffer.go.                *)
(*                                                                         *)
(* A buffer is the sequence of its lines' byte lengths (binary.Size of a   *)
(* []byte line is its length); a cursor is <<row, col>> as                 *)
(* nvim_win_get_cursor returns it: row from 1, col a byte index from 0.   *)
(***************************************************************************)
EXTENDS Integers, Sequences

\* Mutant: the matching line does not count the byte that `offset++` adds.
ByteOffsetNoIncrement(doc, cur) ==
    LET RECURSIVE Walk(_, _, _)
        Walk(i, line, offset) ==
            IF i > Len(doc) THEN offset
            ELSE IF line = cur[1] THEN offset
            ELSE Walk(i + 1, line + 1, offset + doc[i] + 1)
    IN IF cur[1] = 1 THEN 1 + (cur[2] - 1) ELSE Walk(1, 1, 0) + (cur[2] - 1)

\* Mutant: the `break` after `offset++` is missing, so the cursor's own
\* line and every later one are added as well.
ByteOffsetNoBreak(doc, cur) ==
    LET RECURSIVE Walk(_, _, _)
        Walk(i, line, offset) ==
            IF i > Len(doc) THEN offset
            ELSE Walk(i + 1, line + 1,
                      offset + (IF line = cur[1] THEN 1 ELSE 0) + doc[i] + 1)
    IN IF cur[1] = 1 THEN 1 + (cur[2] - 1) ELSE Walk(1, 1, 0) + (cur[2] - 1)

\* ByteOffset: row 1 is answered at once; otherwise the loop over the
\* buffer lines adds len+1 for every line before the cursor's and one for
\* the cursor's line, then the column.
ByteOffset(doc, cur) ==
    LET RECURSIVE Walk(_, _, _)
        Walk(i, line, offset) ==
            IF i > Len(doc) THEN offset
            ELSE IF line = cur[1] THEN offset + 1
            ELSE Walk(i + 1, line + 1, offset + doc[i] + 1)
    IN IF cur[1] = 1 THEN 1 + (cur[2] - 1) ELSE Walk(1, 1, 0) + (cur[2] - 1)

\* ByteOffsetPipe: the same walk over the cursor and lines fetched through
\* a pipeline; its p.Wait error is a failing branch of the caller's step.
ByteOffsetPipe(doc, cur) == ByteOffset(doc, cur)

\* Vim's line2byte(row): one plus the bytes of the lines above, each with
\* its newline.
RECURSIVE Line2Byte(_, _)
Line2Byte(doc, row) ==
    IF row = 1 THEN 1 ELSE Line2Byte(doc, row - 1) + doc[row - 1] + 1

\* The offset the GoGuru registration evaluates in Vim:
\* line2byte(line('.')) + (col('.')-2), where col('.') is col + 1.
EvalOffset(doc, cur) == Line2Byte(doc, cur[1]) + ((cur[2] + 1) - 2)

\* The cursors Neovim allows in a buffer: a row of the buffer and a byte
\* of that line (column 0 on an empty line).
Cursors(doc) ==
    UNION {{<<r, c>> : c \in 0..(IF doc[r] = 0 THEN 0 ELSE doc[r] - 1)}
           : r \in 1..Len(doc)}

\* The bytes of a buffer written out with a newline after every line.
DocSize(doc) ==
    LET RECURSIVE S(_) S(i) == IF i = 0 THEN 0 ELSE S(i - 1) + doc[i] + 1
    IN S(Len(doc))

=============================================================================
