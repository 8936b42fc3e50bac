--------------------------- MODULE MCInterceptor ---------------------------
(***************************************************************************)
(* Small rates, schedules and traces for Interceptor.                      *)
(***************************************************************************)
EXTENDS Interceptor

\* The links are shaped at two speeds, or not at all.
MCRates == {-1, 1, 3}

\* Two switches in a row, and a rate that falls.
MCSchedules == { <<<<0, 1>>, <<2, 3>>, <<3, 0>>>>, <<<<0, 2>>, <<3, 1>>>> }

\* Two lines for one time and a gap that is filled; an outage that is not,
\* in a trace that begins late.
MCTraces == { <<<<0, 1>>, <<0, 1>>, <<1, 4>>, <<3, 2>>, <<5, 2>>>>, <<<<1, 2>>, <<5, 3>>>> }
=============================================================================
