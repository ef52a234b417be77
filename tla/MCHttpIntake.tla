---------------------------- MODULE MCHttpIntake ----------------------------
(* Four requests on one connection: all fields in the usual order, the    *)
(* reverse order with values that are empty, end in an escape or hold a    *)
(* broken one, a request without a body, and a chunked body.               *)
EXTENDS HttpIntake

P(n, v) == [name |-> n, value |-> v]

MCForms ==
    <<<<P(105, <<120>>), P(109, <<37, 50, 70>>), P(116, <<120>>), P(112, <<37, 50, 70>>)>>,
      <<P(112, <<120>>), P(116, <<37, 52, 99, 120, 37>>), P(109, <<>>), P(105, <<37, 120, 52, 37, 52, 67>>)>>,
      <<P(109, <<>>), P(112, <<>>), P(105, <<>>), P(116, <<>>)>>,
      <<P(105, <<>>), P(109, <<>>), P(116, <<>>), P(112, <<>>)>>>>

MCFraming == <<"length", "length", "none", "chunked">>
=============================================================================
