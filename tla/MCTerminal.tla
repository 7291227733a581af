------------------------------ MODULE MCTerminal -----------------------------
EXTENDS Terminal

MCTexts ==
    { << <<"x">> >>, << <<"w">> >>, << <<"CR">>, <<"NL">> >>, << <<"x">>, <<"NL">> >>,
      << <<"BS">> >>, << <<"CR">> >>, << <<"7">> >>, << <<"Home">>, <<"J", 2>> >>,
      << <<"J", 2>> >>, << <<"H", 1, 13>>, <<"x">> >>, << <<"H", 3, 2>> >>, << <<"A", 1>> >>,
      << <<"B", 1>> >>, << <<"C", 1>> >>, << <<"D", 2>> >>, << <<"K", 0>> >>, << <<"K", 1>> >> }
===============================================================================
