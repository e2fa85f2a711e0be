------------------------------- MODULE MCSftp --------------------------------
(***************************************************************************)
(* The instance of Sftp that is model-checked, and the property that needs *)
(* the library of sequences, which the modules with proofs do without.     *)
(***************************************************************************)
EXTENDS Sftp, SequencesExt

MCTargets == {<<"tmp", "a">>, <<"tmp", "b">>, <<"tmp", "a", "b">>, <<"f">>}

MCFiles == {<<"tmp", "a">>}

MCDirs == {<<"tmp">>}

MCPlaces == {<<"tmp", "a">>, <<"f">>}

MCData == {<<1, 2>>}

\* Every WRITE is answered once: the ids without an answer are those whose
\* last piece is still in transit, in their order, however the requests were
\* joined in packets, cut by them and read in chunks.
AnsweredOnce ==
    LET last(piece) == piece.to = Len(piece.req.data)
        pieces      == SelectSeq(FlattenSeq(rx), last)
    IN  asked = [i \in DOMAIN pieces |-> pieces[i].id]

=============================================================================
