------------------------------ MODULE MCFileText ------------------------------
EXTENDS FileText, TLC

A == Word(1)
B == Word(2)

\* A blank first page and a page of one word; a page that begins as a separator.
MCDocument == {<< <<>>, <<A>> >>, << <<A>>, <<Sign("page"), Space, Num(3), Close>> >>}

\* Nothing, a word between spaces, a typed separator, a broken one, a page that
\* begins as a separator.
MCNewText ==
    {<<>>, <<Space, B, Newline>>,
     <<B>> \o Sep \o Label(3) \o <<A>>,
     <<A>> \o Sep \o <<B>>,
     <<A>> \o Sep \o <<Num(2), Close, Space, Sign("page"), Space, Num(3), Close, B>>}

Symmetric == Permutations(Request)
=============================================================================
