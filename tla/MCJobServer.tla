---------------------------- MODULE MCJobServer -----------------------------
EXTENDS JobServer

CONSTANTS a, b,
          none,             \* ""
          name, short,      \* up to 4 bytes
          long,             \* bytes 4 to 19 are no scope and job
          put,              \* "storage put" in the bytes 4 to 19
          pair, pairLong,   \* a name, a line end and short or long
          pairPut,          \* a name and put, so that they hold "storage put" as well
          huge              \* more than 64 KByte

MCTexts == {none, name, short, long, put, pair, pairLong, pairPut, huge}

MCName == [t \in MCTexts |-> IF t \in {pair, pairLong, pairPut} THEN name ELSE None]

MCValue ==
  [t \in MCTexts |-> CASE t = pair -> short
                      [] t = pairLong -> long
                      [] t = pairPut -> put
                      [] OTHER -> None]

MCLeft ==
  [h \in Header |-> [t \in MCTexts |->
     CASE t \in {none, name, short} -> h
       [] t \in {put, pairPut} -> [scope |-> "storage", job |-> "put"]
       [] OTHER -> Garbage]]

Job(scope, job, data) == [header |-> [scope |-> scope, job |-> job], data |-> data]

\* Jobs with answers of all kinds, one that nobody is responsible for, one that is not sent.
MCRequests ==
  {Job("storage", "put", pairLong), Job("storage", "put", pairPut),
   Job("storage", "get", name), Job("basic", "echo", pairPut),
   Job("basic", "time", none), Job("unknown", "echo", short), Job("basic", "echo", huge)}
==============================================================================
