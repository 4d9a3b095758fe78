------------------------------ MODULE SqlQueries ------------------------------
(***************************************************************************)
(* data/queries/*.sql as lexemes: the columns or conditions next to each   *)
(* placeholder.                                                            *)
(***************************************************************************)

create_tables == <<"SELECT", "load_extension", "CREATE TABLE", "forecasts", ";">>

insert_depths == <<"INSERT INTO", "depth", ",", "geom", "VALUES", "$", "1", ";">>

insert_forecast == <<"INSERT INTO", "source", "VALUES", "(", "$", "1", ")", "RETURNING", "id", ";">>

insert_forecast_record_batch ==
  <<"INSERT INTO", "started_at", ",", "end_at", ",", "wave_height", ",", "swell_height", ",", "forecast_id", ",", "geom",
    "VALUES", "$", "1", ";">>

insert_safe_points == <<"INSERT INTO", "name", ",", "geom", "VALUES", "$", "1", ";">>

select_closest_forecasts ==
  <<"WITH", "id", ",", "geom", "VALUES", "$", "1", "SELECT", "ST_Distance", "<=", "$", "2",
    "WHERE", "end_at", ">=", "$", "3", "AND", "end_at", "<=", "$", "4", ";">>

select_forecast_location == <<"SELECT", "lat", ",", "lon", "WHERE", "id", "=", "$", "1", ";">>

select_hazard_depth_points ==
  <<"WITH", "id", ",", "geom", "VALUES", "$", "1", "SELECT", "ST_Distance", "<=", "$", "2",
    "WHERE", "-depth", "<=", "$", "3", "ORDER BY", "points.id", ";">>

select_hazard_depth_points_in_angle ==
  <<"WITH", "id", ",", "geom", ",", "height", "VALUES", "$", "1", "SELECT", "ST_Within",
    "WHERE", "-depth", "<=", "triangles.height", "ORDER BY", "triangles.id", ";">>

select_safe_points == <<"SELECT", "name", ",", "ST_AsText", "FROM", "safe_points", ";">>

=============================================================================
