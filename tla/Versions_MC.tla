----------------------------- MODULE Versions_MC -----------------------------
(***************************************************************************)
(* Two versions of a mod.  The old one has "pace" and "limits.step".  The  *)
(* new one has renamed "pace" to "rate" and made it optional, dropped the  *)
(* step, and added a pair and a field that is only read; its keys match    *)
(* without regard to case.                                                 *)
(***************************************************************************)
EXTENDS Versions

Capitals == {<<"Rate", "rate">>, <<"Limits", "limits">>, <<"Max", "max">>}
MC_LowerCase ==
    [s \in {"rate", "pace", "limits", "min", "max", "step", "token", "note"}
           \cup {c[1] : c \in Capitals} |->
        IF \E c \in Capitals : c[1] = s THEN (CHOOSE c \in Capitals : c[1] = s)[2] ELSE s]

Field(key, default) ==
    [key |-> key, aliases |-> <<>>, default |-> default, min |-> 1, max |-> 2,
     optional |-> FALSE, lower |-> FALSE, written |-> TRUE]

MC_SchemaOf ==
    [v \in {"old", "new"} |->
        IF v = "old" THEN
            [insensitive |-> FALSE,
             fields |-> <<Field(<<"pace">>, 1), Field(<<"limits", "step">>, 1)>>]
        ELSE
            [insensitive |-> TRUE,
             fields |-> <<[Field(<<"rate">>, 1) EXCEPT !.aliases = <<<<"pace">>>>,
                                                       !.optional = TRUE],
                          [Field(<<"limits", "min">>, 2) EXCEPT !.lower = TRUE],
                          Field(<<"limits", "max">>, 2),
                          [Field(<<"limits", "token">>, 1) EXCEPT !.written = FALSE]>>]]

MC_Numbers == 0..3

\* An empty file, and one a person wrote: a capital spelling beside the alias,
\* a key with a dot in it, an object with a member nobody knows.
MC_StartDocs ==
    {NoDocument,
     [p \in {AsPath(<<"Rate">>), AsPath(<<"pace">>), <<<<"limits", "max">>>>,
             AsPath(<<"limits">>), AsPath(<<"limits", "note">>), AsPath(<<"limits", "token">>)} |->
        IF p = AsPath(<<"limits">>) THEN Object
        ELSE IF p = AsPath(<<"limits", "note">>) THEN Words
        ELSE IF p = AsPath(<<"Rate">>) THEN 0 ELSE 2]}

MC_EditPaths == {AsPath(<<"Rate">>), AsPath(<<"limits">>), AsPath(<<"limits", "Max">>)}

\* The same person, writing the container in capitals.
MC_CapitalPaths == {AsPath(<<"Limits">>), AsPath(<<"Limits", "note">>)}
==============================================================================
