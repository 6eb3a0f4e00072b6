-------------------------------- MODULE Ast --------------------------------
(***************************************************************************)
(* The constructors of ast.js. A node is a record; the line and the column *)
(* of a node are left out. Annotations are a sequence of names and values, *)
(* in the order in which an object keeps them.                             *)
(***************************************************************************)
CONSTANT Null

none == <<>>
OrNone(annotations) == IF annotations = Null THEN none ELSE annotations

Program(headers, definitions) ==
    [type |-> "Program", headers |-> headers, definitions |-> definitions]
Identifier(name) == [type |-> "Identifier", name |-> name]
Include(id, namespace) == [type |-> "Include", id |-> id, namespace |-> namespace]
Namespace(id, scope) == [type |-> "Namespace", id |-> id, scope |-> scope]
BaseType(type, annotations) ==
    [type |-> "BaseType", baseType |-> type, annotations |-> OrNone(annotations)]
MapType(keyType, valueType, annotations) ==
    [type |-> "Map", keyType |-> keyType, valueType |-> valueType,
     annotations |-> OrNone(annotations)]
SetType(valueType, annotations) ==
    [type |-> "Set", valueType |-> valueType, annotations |-> OrNone(annotations)]
ListType(valueType, annotations) ==
    [type |-> "List", valueType |-> valueType, annotations |-> OrNone(annotations)]

Typedef(type, id, annotations) ==
    [type |-> "Typedef", valueType |-> type, id |-> id, annotations |-> OrNone(annotations)]
Enum(id, definitions, annotations) ==
    [type |-> "Enum", id |-> id, definitions |-> definitions,
     annotations |-> OrNone(annotations)]
EnumDefinition(id, value, annotations) ==
    [type |-> "EnumDefinition", fieldType |-> BaseType("i32", Null), id |-> id,
     value |-> value, annotations |-> OrNone(annotations)]
Senum(id, definitions, annotations) ==
    [type |-> "Senum", id |-> id, senumDefinitions |-> definitions,
     annotations |-> OrNone(annotations)]
Struct(id, fields, annotations) ==
    [type |-> "Struct", id |-> id, fields |-> fields, annotations |-> OrNone(annotations)]
Union(id, fields, annotations) ==
    [type |-> "Union", id |-> id, fields |-> fields, annotations |-> OrNone(annotations)]
Exception(id, fields, annotations) ==
    [type |-> "Exception", id |-> id, fields |-> fields, annotations |-> OrNone(annotations)]
Field(id, ft, name, req, fv, annotations) ==
    [type |-> "Field", id |-> id, name |-> name, valueType |-> ft,
     required |-> req = "required", optional |-> req = "optional", defaultValue |-> fv,
     annotations |-> OrNone(annotations)]
FieldIdentifier(value) == [type |-> "FieldIdentifier", value |-> value]
Service(id, functions, annotations, baseService) ==
    [type |-> "Service", id |-> id, functions |-> functions, baseService |-> baseService,
     annotations |-> OrNone(annotations)]
FunctionDefinition(id, fields, ft, throws, annotations, oneway) ==
    [type |-> "Function", id |-> id, returns |-> ft, fields |-> fields, throws |-> throws,
     oneway |-> oneway, annotations |-> OrNone(annotations)]

Const(id, fieldType, value) ==
    [type |-> "Const", id |-> id, fieldType |-> fieldType, value |-> value]
ConstList(values) == [type |-> "ConstList", values |-> values]
ConstMap(entries) == [type |-> "ConstMap", entries |-> entries]
ConstEntry(key, value) == [type |-> "ConstEntry", key |-> key, value |-> value]
Literal(value) == [type |-> "Literal", value |-> value]
TypeAnnotation(name, value) == [type |-> "TypeAnnotation", name |-> name, value |-> value]
=============================================================================
