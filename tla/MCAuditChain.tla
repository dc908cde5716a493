---------------------------- MODULE MCAuditChain ----------------------------
(* Rows of two columns: the appended ones, one with another text, one with   *)
(* NULL made empty and one with a bar moved to the next column.              *)
EXTENDS AuditChain

MCEvents == {<<Null, <<"x">>>>, <<<<"x">>, Null>>, <<<<Bar>>, <<>>>>}

MCPayloads ==
    MCEvents \union {<<Null, Null>>, <<<<>>, <<"x">>>>, <<<<>>, <<Bar>>>>}
=============================================================================
