---------------------------- MODULE MCOrionReceiver ----------------------------
(***************************************************************************)
(* Bytes 0..5 with checksums modulo 5, so that 0 and 5 collide as 0 and    *)
(* 251 do in the code.  One payload is itself a complete frame's prefix,   *)
(* one a sync pair; a false header claims six bytes of data.               *)
(***************************************************************************)
EXTENDS OrionReceiver

MCPayloads == {<<>>, <<3, 2>>, <<0, 5, 1>>, Frame(1, <<>>)}
MCCleanNoise == {<<0>>, <<3>>}
MCFalseSyncs == {<<3, 2, 1, 6>>}
===============================================================================
