------------------------------ MODULE MCFormText ------------------------------
EXTENDS FormText

Plain(name) == [op |-> name, n |-> 0, nums |-> <<>>, strs |-> <<>>]
Numbers(name, nums) == [op |-> name, n |-> Len(nums), nums |-> nums, strs |-> <<>>]
Shows(name, n, strs) == [op |-> name, n |-> n, nums |-> <<>>, strs |-> strs]
Tj == Shows("Tj", 1, <<"a">>)
TmAt(x, y) == Numbers("Tm", <<1, 0, 0, 1, x, y>>)

Form(nested, ops) == [nested |-> nested, ops |-> ops]
OneForm(ops, down) ==
    [plain |-> <<>>, root |-> <<"f">>, forms |-> ("f" :> Form(<<>>, ops)), down |-> down]

\* Doubling, mirroring and moving; a turned text matrix.
Graphics ==
    {Plain("q"), Plain("Q"), Tj,
     Numbers("cm", <<2, 0, 0, 2, 0, 0>>), Numbers("cm", <<1, 0, 0, -1, 3, 40>>)}

Texts ==
    {Plain("BT"), Plain("T*"), Plain("Tf"), Numbers("Tm", <<0, 2, -2, 0, 5, 7>>),
     Numbers("Td", <<4, 1>>), Numbers("TD", <<0, -20>>), Numbers("Td", <<4>>),
     Tj, Shows("Tj", 1, <<Blank>>), Shows("TJ", 1, <<"a", "kern", Blank, "b">>),
     Shows("'", 1, <<"a">>), Shows("\"", 3, <<"a">>)}

GraphicsPages == {OneForm(s, TRUE) : s \in [1..5 -> Graphics]}
TextPages ==
    {OneForm(<<Numbers("cm", <<2, 0, 0, 2, 0, 0>>)>> \o s, TRUE) : s \in [1..4 -> Texts]}

\* A form in another, and one beside them; or a page with fonts.
NestedOps == {Plain("q"), Plain("BT"), Plain("T*"), Tj,
              Numbers("cm", <<2, 0, 0, 2, 0, 0>>), Numbers("Td", <<4, 1>>)}
NestedPages ==
    {[plain |-> plain, root |-> <<"f", "g">>, down |-> TRUE,
      forms |-> [f |-> Form(<<"h">>, <<a, Tj>>), g |-> Form(<<>>, <<b, Tj>>), h |-> Form(<<>>, <<c, Tj>>)]] :
        plain \in {<<>>, <<"plain">>}, a, b, c \in NestedOps}

\* Four words, each at any of eight places: rows 9 or 17 points apart, the last
\* one not quite level.
Places == {<<0, 1>>, <<9, 1>>, <<0, 10>>, <<0, 19>>, <<9, 19>>, <<0, 36>>, <<9, 36>>, <<9, 39>>}
LayoutPages ==
    {OneForm(FlattenSeq([i \in 1..4 |-> <<TmAt(p[i][1], p[i][2]), Tj>>]), down) :
        p \in [1..4 -> Places], down \in BOOLEAN}

MCPages == {GraphicsPages, TextPages, NestedPages, LayoutPages}
=============================================================================
