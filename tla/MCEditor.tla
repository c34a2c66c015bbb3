------------------------------ MODULE MCEditor ------------------------------
(* A small editor for TLC: no file, a line that needs two rows, and more lines than rows. *)
EXTENDS Editor, FiniteSets

CONSTANTS x, MaxChars, MaxSaved

MCFiles == {<<>>, << <<x, x, x, x, x>> >>, << <<x>>, <<>>, <<x>>, <<x>> >>}

\* Bounds: the characters in the rows, texts and left-over ones together, and those of a
\* saved file with which the editor goes on.
FewChars ==
    /\ Cardinality({p \in Line \X Cell : ed.rows[p[1]][p[2]] # End}) <= MaxChars
    /\ file \in Files \/ Cardinality({<<k, i>> \in (1 .. Len(file)) \X (1 .. MaxLine) :
                                         i <= Len(file[k])}) <= MaxSaved
=============================================================================
