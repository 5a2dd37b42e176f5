----------------------------- MODULE EventTable -----------------------------
(* The table event_callback_list[WIFI_EVENT_MAX][WIFI_EVENT_MAX_ROW] of      *)
(* component/common/api/wifi/wifi_ind.c, as operators on a table value.      *)
(* A table gives every event MaxRow rows; a row holds a handler or is free.  *)
EXTENDS Naturals, FiniteSetsExt

CONSTANTS Events,     \* the WIFI_EVENT_* codes that are modelled
          Handlers,   \* the functions that may be registered
          MaxRow,     \* WIFI_EVENT_MAX_ROW
          NoHandler   \* a NULL handler field

Rows   == 1 .. MaxRow
Tables == [Events -> [Rows -> Handlers \cup {NoHandler}]]

RowsOf(t, e, h) == {i \in Rows : t[e][i] = h}
FreeRows(t, e)  == RowsOf(t, e, NoHandler)

IsRegistered(t, e, h) == RowsOf(t, e, h) # {}

(* init_event_callback_list: every row is cleared.                           *)
EmptyTable == [e \in Events |-> [i \in Rows |-> NoHandler]]

(* wifi_reg_event_handler: the first free row takes the handler unless some  *)
(* row of the event already has it; with no free row the call does nothing   *)
(* and says nothing.                                                         *)
Reg(t, e, h) ==
  IF FreeRows(t, e) = {} \/ IsRegistered(t, e, h)
  THEN t
  ELSE [t EXCEPT ![e][Min(FreeRows(t, e))] = h]

(* wifi_unreg_event_handler: only the first row that holds the handler.      *)
Unreg(t, e, h) ==
  IF IsRegistered(t, e, h)
  THEN [t EXCEPT ![e][Min(RowsOf(t, e, h))] = NoHandler]
  ELSE t
=============================================================================
