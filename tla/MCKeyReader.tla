---------------------------- MODULE MCKeyReader ----------------------------
(* Letters, Esc, an arrow key in both of its forms, a character of two bytes *)
(* and a key whose sequence the reader does not know (Page Down).            *)
EXTENDS KeyReader

Key(bytes, tokens) == [bytes |-> bytes, tokens |-> tokens]

MCText == {"esc", "[", "O", "A", "B", "6", "~", "q", "cr", "utf8", "",
           "enter", "back", "up", "down", "left", "right"}

MCKeyboard ==
    { Key(<<"q">>, <<"q">>),
      Key(<<"cr">>, <<"enter">>),
      Key(<<"esc">>, <<"esc">>),
      Key(<<"esc", "[", "A">>, <<"up">>),
      Key(<<"esc", "O", "B">>, <<"down">>),
      Key(<<"utf8", "utf8">>, <<"", "">>),
      Key(<<"esc", "[", "6", "~">>, <<"esc", "~">>) }
============================================================================
