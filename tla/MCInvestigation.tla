-------------------------- MODULE MCInvestigation --------------------------
(* Four keys: someone's, a custodian's, an LSP's that also wraps, Spark's. *)
EXTENDS Investigation

CONSTANTS user, bank, lsp, spark

MCKeys == {user, bank, lsp, spark}

\* No hint, one and two hops, an LSP before, between and after others, and before and
\* after a hint that stops the loop.
MCHints == {<<>>, << <<>> >>, << <<user>> >>, << <<lsp>> >>, << <<spark>> >>,
            << <<lsp>>, <<user>> >>, << <<user>>, <<lsp>> >>, << <<lsp>>, <<spark>> >>,
            << <<user, lsp>>, <<lsp>> >>, << <<lsp>>, <<user, lsp>> >>,
            << <<user>>, <<lsp>>, <<user>> >>, << <<user>>, <<>>, <<user, lsp>> >>}
=============================================================================
