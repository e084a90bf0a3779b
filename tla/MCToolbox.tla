----------------------------- MODULE MCToolbox -----------------------------
(* Constants of the run of Toolbox. *)
EXTENDS Toolbox

\* Two images, of two chunks and of three.
MCImages == {<<1, 2, 3>>, <<4, 5, 6, 7, 8>>}
MCCounters == <<"RX_BYTES", "DROP_BYTES">>

\* Nothing expected, one pattern, and one that must come on two lines.  The
\* character of two bytes means a failure.
MCExpects == {<<>>, <<"a">>, <<"a", "a">>}

\* What lies before the record in a dump: nothing, a magic word, and the
\* first two words of a record.
MCBefore == {<<>>, <<PM_MAGIC>>, <<Garbage, PM_MAGIC, PM_VERSION>>}

MCPdfs == <<"p", "q">>

\* A blank line, a single cell, table rows of three and of four cells, one
\* with two numbers first, and two numbers too short to be a row.
MCLines == {<<>>, <<<<"d">>>>, <<<<"n">>, <<"n">>, <<"w">>>>, <<<<"n">>, <<"n">>>>,
            <<<<"w">>, <<"d">>, <<"n">>>>, <<<<"x">>, <<"w">>, <<"w">>, <<"d">>>>}
=============================================================================
