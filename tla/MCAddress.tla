------------------------------ MODULE MCAddress ------------------------------
EXTENDS Address
Town == <<"villar">>
Towns == {Town, <<"villar", Remark>>, <<"villar", "sierra">>, <<"villar", ",", "el">>, <<"el", "villar">>,
          <<"villar", Remark, ",", "el">>}
Alava == 1
Alicante == 3
Valencia == 46
(* One place each, in two partidos of one province or of two.                *)
Partido(name, code, town) == [name |-> name, province |-> code, towns |-> <<town>>]
Files ==
  {<<>>, <<Partido("A", Unknown, Town)>>}
  \cup {<<Partido("A", Valencia, t), Partido(o[1], o[2], u)>> :
          o \in {<<"A", Valencia>>, <<"B", Valencia>>, <<"B", Alicante>>}, t \in Towns, u \in Towns}
At(postal, province, comunidad, town) ==
  [postal |-> postal, province |-> province, comunidad |-> comunidad, town |-> town]
Codes == {Nothing, Unknown, Valencia, Alava}
Everything ==
  {<<f, At(Valencia, Nothing, Nothing, t)>> : f \in Files, t \in Towns \cup {<<>>, <<"otro">>}}
  \cup {<<<<Partido("A", Valencia, Town)>>, At(p, n, c, Town)>> :
          p \in Codes, n \in Codes, c \in {Nothing, Unknown, 10, 16}}
=============================================================================
