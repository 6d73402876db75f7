------------------------------ MODULE MCDpMarks ------------------------------
EXTENDS DpMarks

\* One within a page, one over two.
TwoSpans == {<<0, 1>>, <<1, 3>>}

\* Each in a page of its own.
Apart == {<<0, 1>>, <<2, 3>>}
===============================================================================
