---------------------------- MODULE MCWsReassembly ----------------------------
(***************************************************************************)
(* Both directions of a kernel's websocket, with every form of header; a   *)
(* terminal's, whose texts are not JSON; a kernel's that sends binary      *)
(* frames.  In Plain the byte 0x81 is only ever the first of a frame.      *)
(***************************************************************************)
EXTENDS WsReassembly, Bitwise

MCXor(a, b) == a ^^ b

Json(ext, mask, id) == [op |-> Text, ext |-> ext, mask |-> mask, body |-> <<Brace, id, 125>>]

Server == <<Json(2, <<>>, 65), Json(0, <<>>, 66), Json(8, <<>>, 67), Json(0, <<>>, 68)>>

Client == <<Json(0, <<1, 2, 3, 4>>, 65), Json(2, <<5, 6, 7, 8>>, 66), Json(0, <<9, 8, 7, 6>>, 67)>>

Terminal == <<[op |-> Text, ext |-> 0, mask |-> <<>>, body |-> <<91, 93>>]>>

Binary == <<[op |-> 130, ext |-> 0, mask |-> <<>>, body |-> <<Brace, 65, 125>>]>>

Plain == {Server, Client, Terminal, Binary}

\* The hiragana a: 0xe3 0x81 0x82 in UTF-8.
Kana == {<<[op |-> Text, ext |-> 0, mask |-> <<>>, body |-> <<Brace, 227, 129, 130, 125>>],
           Json(0, <<>>, 65)>>}
===============================================================================
