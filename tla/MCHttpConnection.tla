-------------------------- MODULE MCHttpConnection --------------------------
EXTENDS HttpConnection

File(data) == [name |-> "file", typed |-> TRUE, data |-> data]
Password == [name |-> "admin_password", typed |-> FALSE, data |-> <<"p">>]

\* Data that is empty, that is longer than what is held back, and that begins
\* like the end of a part or like a boundary.
Datas ==
  {<<>>, <<"d">>, CRLF, <<"d">> \o CRLF \o Dashes \o <<"b1", "d">>,
   <<"1", "2", "3", "4", "5", "6", "7", "8", "9">>, CRLF \o CRLF \o CRLF}

Uploads ==
  [kind : {"upload"}, head : {2}, allowed : {TRUE},
   parts : {<<File(d)>> : d \in Datas} \cup {<<Password, File(d)>> : d \in Datas}]
  \cup
  [kind : {"upload"}, head : {2, 4}, allowed : BOOLEAN, parts : {<<File(<<"d">>)>>}]

Values == {<<>>, <<"a">>, <<"+", "a">>, <<" ", "&">>, <<"a", "a", "+">>,
           <<"%", "=">>}
Forms == [kind : {"form"}, head : {2, 4}, fields : [ssid : Values, pwd : Values]]

MCRequests == Uploads \cup Forms \cup {[kind |-> "other", head |-> 2]}
=============================================================================
