--------------------------- MODULE MCComponents ---------------------------
(***************************************************************************)
(* Small instances of Components for TLC.                                  *)
(***************************************************************************)
EXTENDS Components, TLC

CONSTANTS t1, t2, t3

MCPrograms == {(t1 :> p[1]) @@ (t2 :> p[2]) @@ (t3 :> p[3]) :
    p \in {<<"redis", "kafka", "kafkaSend">>, <<"gorm", "rocketmq", "rocketMQSend">>,
           <<"grpcConn", "grpc", "registration">>, <<"sqlx", "http", "kafka">>}}
=============================================================================
