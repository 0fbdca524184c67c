------------------------------- MODULE MCListings -------------------------------
(***************************************************************************)
(* Values of the constants for TLC.                                        *)
(***************************************************************************)
EXTENDS ListingProperties

Obj(catalog, schema, name, kind, columns, keys) ==
  [ catalog |-> catalog, schema |-> schema, name |-> name, kind |-> kind,
    columns |-> columns, keys |-> keys ]

\* A table that may be replaced by a view of the same name, one of that name in
\* another catalog and in another schema, and objects of the other kinds.
Orders   == Obj("main", "sales", "orders", "table", {"id", "sum"}, {"id"})
OrdersV  == Obj("main", "sales", "orders", "view", {"sum"}, {})
Elsewhere == Obj("other", "sales", "orders", "materialized_view", {"day"}, {})
Archive  == Obj("main", "stock", "orders", "external", {"id"}, {})
Totals   == Obj("main", "stock", "totals", "materialized_view", {"day"}, {})

MCObjects == {Orders, OrdersV, Elsewhere, Archive, Totals}

World(objects) ==
  [ schemas |-> { Place(o) : o \in MCObjects }, objects |-> objects ]
MCWorlds == { World(MCObjects \ {OrdersV}), World({OrdersV, Totals}), World({Elsewhere}) }

Setup(type, catalog, schema) ==
  [ type |-> type, home |-> [catalog |-> catalog, schema |-> schema],
    session |-> [ catalog |-> IF catalog = None THEN "main" ELSE catalog,
                  schema  |-> IF schema = None THEN "sales" ELSE schema ] ]
MCSetups ==
  { Setup("sqlserver", None, None), Setup("snowflake", None, None),
    Setup("snowflake", "other", None), Setup("databricks", None, None),
    Setup("databricks", "main", None), Setup("databricks", None, "stock"),
    Setup("databricks", "main", "sales") }

Req(tool, catalog, schema, table, include_views) ==
  [ tool |-> tool, catalog |-> catalog, schema |-> schema, table |-> table,
    include_views |-> include_views ]
MCRequests ==
  { Req("list_schemas", None, None, None, FALSE) }
  \cup { Req("list_tables", catalog, schema, None, views)
           : catalog \in {None, "main"}, schema \in {None, "sales"},
             views \in BOOLEAN }
  \cup { Req("describe_table", catalog, "sales", "orders", FALSE)
           : catalog \in {None, "main"} }
==============================================================================
