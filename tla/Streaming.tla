-------------------------------- MODULE Streaming --------------------------------
(***************************************************************************)
(* How the client service streams a result (client_service.rs): chunks of  *)
(* at most chunk_size rows, the counters with the last one; an empty       *)
(* result is one chunk.  A result set rs has columns and rows.             *)
(***************************************************************************)
EXTENDS GqlAst, Integers

AtLeastOne(n) == IF n < 1 THEN 1 ELSE n
Lower(m, n)   == IF m < n THEN m ELSE n

StatsBeyond(rs, stats, chunk_size) ==                 \* fault: > for >=
    LET total == Len(rs.rows)
        size  == AtLeastOne(chunk_size)
    IN IF total = 0 THEN <<[columns |-> rs.columns, rows |-> <<>>, stats |-> Some(stats)]>>
       ELSE [i \in 1..((total + size - 1) \div size) |->
               [columns |-> rs.columns,
                rows  |-> SubSeq(rs.rows, (i - 1) * size + 1, Lower(i * size, total)),
                stats |-> IF i * size > total THEN Some(stats) ELSE None]]
chunk_rows(rs, stats, chunk_size) ==
    LET total == Len(rs.rows)
        size  == AtLeastOne(chunk_size)
    IN IF total = 0 THEN <<[columns |-> rs.columns, rows |-> <<>>, stats |-> Some(stats)]>>
       ELSE [i \in 1..((total + size - 1) \div size) |->
               [columns |-> rs.columns,
                rows  |-> SubSeq(rs.rows, (i - 1) * size + 1, Lower(i * size, total)),
                stats |-> IF i * size >= total THEN Some(stats) ELSE None]]

--------------------------------------------------------------------------------
(* What a client has that puts the chunks together.                        *)
Joined(chunks) ==
    LET upto[i \in 0..Len(chunks)] == IF i = 0 THEN <<>> ELSE upto[i - 1] \o chunks[i].rows
    IN upto[Len(chunks)]

(* The chunks are the result: every row once and in order, no chunk above  *)
(* the limit, and the counters once, at the end.                           *)
ChunksRight(rs, stats, chunk_size) ==
    LET chunks == chunk_rows(rs, stats, chunk_size)
        last   == Len(chunks)
    IN /\ last > 0
       /\ Joined(chunks) = rs.rows
       /\ \A i \in 1..last : /\ Len(chunks[i].rows) <= AtLeastOne(chunk_size)
                             /\ chunks[i].columns = rs.columns
                             /\ chunks[i].stats = IF i = last THEN Some(stats) ELSE None
==================================================================================
